-------------------------- MODULE PooledClientProofs --------------------------
(* What the registry's shared slices guarantee for any instances, watchers and *)
(* callers.                                                                    *)
EXTENDS PooledClient, SequenceTheorems, TLAPS

Slots == Instances \cup {Nil}
Slices == [array : Nat, len : Nat]

RegistryTypes ==
  /\ arrays \in Seq(Seq(Slots))
  /\ current \in Slices
  /\ moving \in Nat
  /\ watching \subseteq Watchers
  /\ channel \in [Watchers -> Seq(Slices)]
  /\ registered \in Seq(Instances)

\* The registry's own list: while a Deregister moves the slots, those from moving
\* on are one too far.
ListInv ==
  /\ current.array \in 0 .. Len(arrays)
  /\ Filled(current)
  /\ moving <= current.len
  /\ Len(registered) = IF moving = 0 THEN current.len ELSE current.len - 1
  /\ \A k \in 1 .. Len(registered) :
       registered[k] = IF moving = 0 \/ k < moving THEN arrays[current.array][k]
                       ELSE arrays[current.array][k + 1]

RegistryInv == RegistryTypes /\ ListInv

-----------------------------------------------------------------------------
(* The arrays *)

\* The array written to has the slot, and nothing but instances in the slots of
\* the list.
LEMMA CurrentArray ==
  ASSUME RegistryInv, current.array # 0
  PROVE  /\ current.array \in 1 .. Len(arrays)
         /\ arrays[current.array] \in Seq(Slots)
         /\ Len(arrays[current.array]) \in Nat
BY DEF RegistryInv, RegistryTypes, ListInv, Slices

\* One slot of one array is written.
LEMMA WriteSlot ==
  ASSUME NEW a \in 1 .. Len(arrays), NEW n \in 1 .. Len(arrays[a]), NEW i \in Slots,
         arrays \in Seq(Seq(Slots)),
         arrays' = [arrays EXCEPT ![a][n] = i]
  PROVE  /\ arrays' \in Seq(Seq(Slots))
         /\ Len(arrays') = Len(arrays)
         /\ \A b \in 1 .. Len(arrays) :
              /\ Len(arrays'[b]) = Len(arrays[b])
              /\ \A k \in 1 .. Len(arrays[b]) :
                   arrays'[b][k] = IF b = a /\ k = n THEN i ELSE arrays[b][k]
<1>1. arrays[a] \in Seq(Slots)
  OBVIOUS
<1>2. /\ [arrays[a] EXCEPT ![n] = i] \in Seq(Slots)
      /\ Len([arrays[a] EXCEPT ![n] = i]) = Len(arrays[a])
      /\ \A k \in 1 .. Len(arrays[a]) :
           [arrays[a] EXCEPT ![n] = i][k] = IF k = n THEN i ELSE arrays[a][k]
  BY <1>1, ExceptSeq
<1>3. arrays' = [arrays EXCEPT ![a] = [arrays[a] EXCEPT ![n] = i]]
  OBVIOUS
<1>4. /\ arrays' \in Seq(Seq(Slots))
      /\ Len(arrays') = Len(arrays)
      /\ \A b \in 1 .. Len(arrays) :
           arrays'[b] = IF b = a THEN [arrays[a] EXCEPT ![n] = i] ELSE arrays[b]
  BY <1>2, <1>3, ExceptSeq
<1>. QED  BY <1>1, <1>2, <1>4

\* What the slice holds when it moves to a new array: its elements and one more.
LEMMA GrownHolds ==
  ASSUME NEW s \in Seq(Slots), NEW i \in Slots
  PROVE  /\ Grown(s, i) \in Seq(Slots)
         /\ Len(Grown(s, i)) >= Len(s) + 1
         /\ \A k \in 1 .. Len(s) : Grown(s, i)[k] = s[k]
         /\ Grown(s, i)[Len(s) + 1] = i
<1>. DEFINE rest == [k \in 1 .. (Len(s) - 1) |-> Nil]
<1>1. <<i>> \in Seq(Slots) /\ Len(<<i>>) = 1 /\ <<i>>[1] = i
  OBVIOUS
<1>2. rest \in Seq(Slots)
  BY DEF Slots
<1>. HIDE DEF rest
<1>3. /\ s \o <<i>> \in Seq(Slots)
      /\ Len(s \o <<i>>) = Len(s) + 1
      /\ \A k \in 1 .. Len(s) + 1 : (s \o <<i>>)[k] = IF k <= Len(s) THEN s[k] ELSE <<i>>[k - Len(s)]
  BY <1>1, ConcatProperties
<1>4. Len(s) \in Nat /\ Len(rest) \in Nat
  BY <1>2
<1>. DEFINE t == s \o <<i>>
<1>. HIDE DEF t
<1>5. /\ t \o rest \in Seq(Slots)
      /\ Len(t \o rest) = Len(t) + Len(rest)
      /\ \A k \in 1 .. Len(t) + Len(rest) :
           (t \o rest)[k] = IF k <= Len(t) THEN t[k] ELSE rest[k - Len(t)]
  BY <1>2, <1>3, ConcatProperties DEF t
<1>6. Len(t) = Len(s) + 1 /\ t[Len(s) + 1] = i /\ \A k \in 1 .. Len(s) : t[k] = s[k]
  BY <1>1, <1>3, <1>4 DEF t
<1>7. Grown(s, i) = t \o rest
  BY DEF Grown, t, rest
<1>. QED  BY <1>4, <1>5, <1>6, <1>7

LEMMA ContentsAre ==
  ASSUME RegistryInv
  PROVE  /\ Contents(current) \in Seq(Slots)
         /\ Len(Contents(current)) = current.len
         /\ \A k \in 1 .. current.len : Contents(current)[k] = arrays[current.array][k]
<1>. USE DEF RegistryInv, RegistryTypes, ListInv, Slices
<1>1. CASE current.len = 0
  BY <1>1 DEF Contents
<1>2. CASE current.len # 0
  <2>1. /\ arrays[current.array] \in Seq(Slots)
        /\ current.len \in 1 .. Len(arrays[current.array])
    BY <1>2 DEF Filled
  <2>2. \A k \in 1 .. current.len : arrays[current.array][k] \in Slots
    BY <2>1
  <2>3. /\ SubSeq(arrays[current.array], 1, current.len) \in Seq(Slots)
        /\ Len(SubSeq(arrays[current.array], 1, current.len)) = current.len
        /\ \A k \in 1 .. current.len :
             SubSeq(arrays[current.array], 1, current.len)[k] = arrays[current.array][k]
    BY <2>1, <2>2, SubSeqProperties
  <2>. QED  BY <1>2, <2>3 DEF Contents
<1>. QED  BY <1>1, <1>2

-----------------------------------------------------------------------------
(* The registry's updates *)

\* No slot within a list ever becomes nil, whichever list shares the array.
Keeps == \A s \in Slices : Filled(s) => Filled(s)'

LEMMA AppendsInPlace ==
  ASSUME RegistryInv, moving = 0, UNCHANGED moving,
         NEW i \in Instances, AppendInPlace(i), registered' = Append(registered, i)
  PROVE  ListInv' /\ Keeps /\ arrays' \in Seq(Seq(Slots)) /\ current' \in Slices
<1>. USE RegistryAssumption DEF Slices
<1>. DEFINE a == current.array
            n == current.len + 1
<1>1. /\ a \in 1 .. Len(arrays)
      /\ n \in 1 .. Len(arrays[a])
      /\ current' = [array |-> a, len |-> n]
      /\ current' \in Slices
      /\ arrays' = [arrays EXCEPT ![a][n] = i]
  BY CurrentArray DEF AppendInPlace, Slice, RegistryInv, RegistryTypes
<1>2. arrays \in Seq(Seq(Slots)) /\ registered \in Seq(Instances) /\ current \in Slices
  BY DEF RegistryInv, RegistryTypes
<1>3. /\ arrays' \in Seq(Seq(Slots))
      /\ Len(arrays') = Len(arrays)
      /\ \A b \in 1 .. Len(arrays) :
           /\ Len(arrays'[b]) = Len(arrays[b])
           /\ \A k \in 1 .. Len(arrays[b]) :
                arrays'[b][k] = IF b = a /\ k = n THEN i ELSE arrays[b][k]
  BY <1>1, <1>2, WriteSlot DEF Slots
<1>. HIDE DEF a, n
<1>4. Keeps
  BY <1>1, <1>2, <1>3 DEF Keeps, Filled
<1>5. Filled(current)'
  BY <1>1, <1>2, <1>3 DEF Filled, RegistryInv, ListInv, a, n
<1>6. /\ Len(registered') = n
      /\ \A k \in 1 .. n : registered'[k] = IF k = n THEN i ELSE registered[k]
  BY <1>2 DEF RegistryInv, ListInv, n
<1>7. \A k \in 1 .. n - 1 : registered[k] = arrays[a][k]
  BY DEF RegistryInv, ListInv, a, n
<1>8. \A k \in 1 .. n : registered'[k] = arrays'[a][k]
  <2>1. n \in Nat /\ \A k \in 1 .. n : k \in 1 .. Len(arrays[a]) /\ (k # n => k \in 1 .. n - 1)
    BY <1>1, <1>2 DEF a, n
  <2>. QED  BY <1>1, <1>3, <1>6, <1>7, <2>1
<1>. QED
  BY <1>1, <1>3, <1>4, <1>5, <1>6, <1>8 DEF ListInv

LEMMA AppendsToCopy ==
  ASSUME RegistryInv, moving = 0, UNCHANGED moving,
         NEW i \in Instances, AppendToCopy(i), registered' = Append(registered, i)
  PROVE  ListInv' /\ Keeps /\ arrays' \in Seq(Seq(Slots)) /\ current' \in Slices
<1>. USE RegistryAssumption DEF Slices
<1>. DEFINE g == Grown(Contents(current), i)
            n == current.len + 1
            a == Len(arrays) + 1
<1>1. /\ arrays \in Seq(Seq(Slots)) /\ registered \in Seq(Instances)
      /\ current.len \in Nat /\ current.array \in Nat
  BY DEF RegistryInv, RegistryTypes
<1>2. /\ g \in Seq(Slots)
      /\ Len(g) >= n
      /\ \A k \in 1 .. current.len : g[k] = arrays[current.array][k]
      /\ g[n] = i
  <2>1. /\ Contents(current) \in Seq(Slots) /\ i \in Slots
        /\ Len(Contents(current)) = current.len
        /\ \A k \in 1 .. current.len : Contents(current)[k] = arrays[current.array][k]
    BY ContentsAre DEF Slots
  <2>2. /\ g \in Seq(Slots)
        /\ Len(g) >= Len(Contents(current)) + 1
        /\ \A k \in 1 .. Len(Contents(current)) : g[k] = Contents(current)[k]
        /\ g[Len(Contents(current)) + 1] = i
    BY <2>1, GrownHolds
  <2>. HIDE DEF g
  <2>. QED  BY <1>1, <2>1, <2>2
<1>. HIDE DEF g
<1>3. /\ arrays' = Append(arrays, g)
      /\ current' = [array |-> a, len |-> n]
  BY DEF AppendToCopy, Slice, g
<1>4. /\ arrays' \in Seq(Seq(Slots))
      /\ Len(arrays') = a
      /\ \A b \in 1 .. Len(arrays) : arrays'[b] = arrays[b]
      /\ arrays'[a] = g
  BY <1>1, <1>2, <1>3
<1>5. a \in Nat /\ n \in Nat /\ a # 0 /\ Len(arrays) \in Nat
  BY <1>1
<1>6. Keeps
  <2>1. \A b \in DOMAIN arrays : b \in DOMAIN arrays' /\ arrays'[b] = arrays[b]
    <3>1. DOMAIN arrays = 1 .. Len(arrays) /\ DOMAIN arrays' = 1 .. Len(arrays')
      BY <1>1, <1>4, LenProperties
    <3>. QED  BY <1>4, <1>5, <3>1
  <2>. QED  BY <2>1 DEF Keeps, Filled
<1>7. /\ Len(registered') = n
      /\ \A k \in 1 .. n : registered'[k] = IF k = n THEN i ELSE registered[k]
  BY <1>1 DEF RegistryInv, ListInv
<1>8. \A k \in 1 .. current.len : registered[k] = arrays[current.array][k]
  BY DEF RegistryInv, ListInv
<1>9. \A k \in 1 .. n : registered'[k] = g[k]
  <2>1. \A k \in 1 .. n : k # n => k \in 1 .. current.len
    BY <1>1
  <2>. HIDE DEF n
  <2>. QED  BY <1>2, <1>5, <1>7, <1>8, <2>1
<1>. HIDE DEF a, n
<1>10. \A k \in 1 .. n : g[k] # Nil
  <2>1. registered' \in Seq(Instances)
    BY <1>1
  <2>. QED  BY <1>7, <1>9, <2>1
<1>11. Filled(current)'
  BY <1>2, <1>3, <1>4, <1>5, <1>10 DEF Filled
<1>. QED
  BY <1>2, <1>3, <1>4, <1>5, <1>6, <1>7, <1>9, <1>11 DEF ListInv

LEMMA RemoveAtIs ==
  ASSUME NEW S, NEW s \in Seq(S), NEW k \in 1 .. Len(s)
  PROVE  /\ RemoveAt(s, k) \in Seq(S)
         /\ Len(RemoveAt(s, k)) = Len(s) - 1
         /\ \A j \in 1 .. Len(s) - 1 : RemoveAt(s, k)[j] = IF j < k THEN s[j] ELSE s[j + 1]
<1>. DEFINE before == SubSeq(s, 1, k - 1)
            after == SubSeq(s, k + 1, Len(s))
<1>1. Len(s) \in Nat /\ k - 1 \in Int /\ k + 1 \in Int /\ \A j \in 1 .. Len(s) : s[j] \in S
  OBVIOUS
<1>2. /\ before \in Seq(S) /\ Len(before) = k - 1
      /\ \A j \in 1 .. k - 1 : before[j] = s[j]
  <2>1. \A j \in 1 .. k - 1 : s[j] \in S
    BY <1>1
  <2>2. /\ before \in Seq(S) /\ Len(before) = IF 1 <= k - 1 THEN (k - 1) - 1 + 1 ELSE 0
        /\ \A j \in 1 .. (k - 1) - 1 + 1 : before[j] = s[1 + j - 1]
    BY <1>1, <2>1, SubSeqProperties
  <2>. HIDE DEF before
  <2>. QED  BY <1>1, <2>2
<1>3. /\ after \in Seq(S) /\ Len(after) = Len(s) - k
      /\ \A j \in 1 .. Len(s) - k : after[j] = s[k + j]
  <2>1. \A j \in k + 1 .. Len(s) : s[j] \in S
    BY <1>1
  <2>2. /\ after \in Seq(S) /\ Len(after) = IF k + 1 <= Len(s) THEN Len(s) - (k + 1) + 1 ELSE 0
        /\ \A j \in 1 .. Len(s) - (k + 1) + 1 : after[j] = s[(k + 1) + j - 1]
    BY <1>1, <2>1, SubSeqProperties
  <2>. HIDE DEF after
  <2>. QED  BY <1>1, <2>2
<1>. HIDE DEF before, after
<1>4. /\ before \o after \in Seq(S)
      /\ Len(before \o after) = Len(before) + Len(after)
      /\ \A j \in 1 .. Len(before) + Len(after) :
           (before \o after)[j] = IF j <= Len(before) THEN before[j] ELSE after[j - Len(before)]
  BY <1>2, <1>3, ConcatProperties
<1>5. RemoveAt(s, k) = before \o after
  BY DEF RemoveAt, before, after
<1>6. ASSUME NEW j \in 1 .. Len(s) - 1
      PROVE  (before \o after)[j] = IF j < k THEN s[j] ELSE s[j + 1]
  <2>1. CASE j < k
    <3>1. j \in 1 .. k - 1
      BY <2>1
    <3>. QED  BY <1>1, <1>2, <1>3, <1>4, <2>1, <3>1
  <2>2. CASE ~(j < k)
    <3>1. j - (k - 1) \in 1 .. Len(s) - k /\ k + (j - (k - 1)) = j + 1 /\ ~(j <= k - 1)
      BY <1>1, <2>2
    <3>2. after[j - (k - 1)] = s[j + 1]
      BY <1>3, <3>1
    <3>. QED  BY <1>1, <1>2, <1>3, <1>4, <2>2, <3>1, <3>2
  <2>. QED  BY <2>1, <2>2
<1>7. Len(before) + Len(after) = Len(s) - 1
  BY <1>1, <1>2, <1>3
<1>. QED  BY <1>4, <1>5, <1>6, <1>7

LEMMA Finds ==
  ASSUME RegistryInv, NEW i \in Instances, DeregisterFind(i)
  PROVE  ListInv' /\ moving' \in Nat /\ registered' \in Seq(Instances)
<1>. USE DEF Slices
<1>1. PICK k \in 1 .. current.len :
        moving' = k /\ registered' = RemoveAt(registered, k)
  BY DEF DeregisterFind
<1>2. /\ moving = 0 /\ UNCHANGED <<arrays, current>>
      /\ registered \in Seq(Instances) /\ current.len \in Nat
      /\ Len(registered) = current.len
      /\ \A j \in 1 .. current.len : registered[j] = arrays[current.array][j]
  BY DEF DeregisterFind, Unlocked, RegistryInv, RegistryTypes, ListInv
<1>3. /\ registered' \in Seq(Instances)
      /\ Len(registered') = current.len - 1
      /\ \A j \in 1 .. current.len - 1 :
           registered'[j] = IF j < k THEN registered[j] ELSE registered[j + 1]
  <2>1. k \in 1 .. Len(registered)
    BY <1>2
  <2>2. /\ RemoveAt(registered, k) \in Seq(Instances)
        /\ Len(RemoveAt(registered, k)) = Len(registered) - 1
        /\ \A j \in 1 .. Len(registered) - 1 :
             RemoveAt(registered, k)[j] = IF j < k THEN registered[j] ELSE registered[j + 1]
    BY <1>2, <2>1, RemoveAtIs
  <2>. QED  BY <1>1, <1>2, <2>2
<1>4. \A j \in 1 .. current.len - 1 :
        registered'[j] = IF j < k THEN arrays[current.array][j] ELSE arrays[current.array][j + 1]
  <2>1. \A j \in 1 .. current.len - 1 : j \in 1 .. current.len /\ j + 1 \in 1 .. current.len
    BY <1>2
  <2>. QED  BY <1>2, <1>3, <2>1
<1>5. Filled(current)'
  BY <1>2 DEF RegistryInv, ListInv, Filled
<1>. QED
  BY <1>1, <1>2, <1>3, <1>4, <1>5 DEF ListInv, RegistryInv

LEMMA Moves ==
  ASSUME RegistryInv, DeregisterMove
  PROVE  ListInv' /\ Keeps /\ arrays' \in Seq(Seq(Slots)) /\ moving' \in Nat
<1>. USE RegistryAssumption DEF Slices
<1>. DEFINE a == current.array
            i == arrays[a][moving + 1]
<1>1. /\ arrays \in Seq(Seq(Slots)) /\ registered \in Seq(Instances)
      /\ current.len \in Nat /\ moving \in 1 .. current.len - 1
      /\ moving' = moving + 1 /\ UNCHANGED <<current, registered>>
      /\ arrays' = [arrays EXCEPT ![a][moving] = i]
  BY DEF RegistryInv, RegistryTypes, DeregisterMove
<1>2. /\ a \in 1 .. Len(arrays) /\ DOMAIN arrays = 1 .. Len(arrays)
      /\ arrays[a] \in Seq(Slots) /\ Len(arrays[a]) \in Nat
      /\ current.len <= Len(arrays[a])
      /\ \A k \in 1 .. current.len : arrays[a][k] # Nil
  BY <1>1 DEF RegistryInv, ListInv, Filled
<1>3. /\ moving \in 1 .. Len(arrays[a]) /\ moving + 1 \in 1 .. current.len
      /\ moving + 1 \in 1 .. Len(arrays[a])
  BY <1>1, <1>2
<1>4. i \in Slots /\ i # Nil
  BY <1>2, <1>3
<1>. HIDE DEF a, i
<1>5. /\ arrays' \in Seq(Seq(Slots))
      /\ Len(arrays') = Len(arrays)
      /\ \A b \in 1 .. Len(arrays) :
           /\ Len(arrays'[b]) = Len(arrays[b])
           /\ \A k \in 1 .. Len(arrays[b]) :
                arrays'[b][k] = IF b = a /\ k = moving THEN i ELSE arrays[b][k]
  BY <1>1, <1>2, <1>3, <1>4, WriteSlot
<1>6. DOMAIN arrays' = DOMAIN arrays
  BY <1>2, <1>5, LenProperties
<1>7. Keeps
  BY <1>1, <1>2, <1>4, <1>5, <1>6 DEF Keeps, Filled
<1>8. Filled(current)'
  BY <1>1, <1>7 DEF Keeps, RegistryInv, RegistryTypes, ListInv, Filled
<1>9. /\ Len(registered) = current.len - 1
      /\ \A k \in 1 .. current.len - 1 :
           registered[k] = IF k < moving THEN arrays[a][k] ELSE arrays[a][k + 1]
  BY <1>1 DEF RegistryInv, ListInv, a
<1>10. \A k \in 1 .. current.len - 1 :
         registered[k] = IF k < moving + 1 THEN arrays'[a][k] ELSE arrays'[a][k + 1]
  <2>1. \A k \in 1 .. current.len : k \in 1 .. Len(arrays[a])
    BY <1>1, <1>2
  <2>2. \A k \in 1 .. current.len : arrays'[a][k] = IF k = moving THEN i ELSE arrays[a][k]
    BY <1>2, <1>5, <2>1
  <2>3. ASSUME NEW k \in 1 .. current.len - 1
        PROVE  registered[k] = IF k < moving + 1 THEN arrays'[a][k] ELSE arrays'[a][k + 1]
    <3>1. k \in 1 .. current.len /\ k + 1 \in 1 .. current.len
      BY <1>1
    <3>2. CASE k < moving
      BY <1>1, <1>9, <2>2, <3>1, <3>2
    <3>3. CASE k = moving
      BY <1>1, <1>9, <2>2, <3>1, <3>3 DEF i
    <3>4. CASE k > moving
      BY <1>1, <1>9, <2>2, <3>1, <3>4
    <3>. QED  BY <1>1, <3>2, <3>3, <3>4
  <2>. QED  BY <2>3
<1>11. /\ moving' \in Nat /\ moving' # 0 /\ moving' <= current.len
       /\ current.array \in 0 .. Len(arrays')
  BY <1>1, <1>2, <1>5 DEF a
<1>12. \A k \in 1 .. Len(registered') :
         registered'[k] = IF moving' = 0 \/ k < moving' THEN arrays'[current'.array][k]
                          ELSE arrays'[current'.array][k + 1]
  BY <1>1, <1>9, <1>10, <1>11 DEF a
<1>13. ListInv'
  BY <1>1, <1>8, <1>9, <1>11, <1>12 DEF ListInv
<1>. QED  BY <1>5, <1>7, <1>11, <1>13

LEMMA IsDone ==
  ASSUME RegistryInv, DeregisterDone
  PROVE  ListInv' /\ current' \in Slices
<1>. USE DEF Slices
<1>1. /\ current.len \in Nat /\ moving = current.len /\ moving # 0 /\ moving' = 0
      /\ UNCHANGED <<arrays, registered>>
      /\ current' = [array |-> current.array, len |-> current.len - 1]
  BY DEF DeregisterDone, Slice, RegistryInv, RegistryTypes
<1>2. current' \in Slices
  BY <1>1 DEF RegistryInv, RegistryTypes
<1>3. Filled(current)'
  BY <1>1 DEF RegistryInv, RegistryTypes, ListInv, Filled
<1>. QED  BY <1>1, <1>2, <1>3 DEF RegistryInv, RegistryTypes, ListInv

\* A watcher gets the new list or is marked as having missed it.
LEMMA Notifies ==
  ASSUME RegistryTypes, current' \in Slices, notifyWatchers
  PROVE  /\ channel' \in [Watchers -> Seq(Slices)]
         /\ \A w \in Watchers :
              channel'[w] = channel[w] \/ channel'[w] = Append(channel[w], current')
         /\ \A w \in watching :
              w \in missed' \/ channel'[w] = Append(channel[w], current')
<1>1. \A w \in Watchers : channel[w] \in Seq(Slices) /\ Append(channel[w], current') \in Seq(Slices)
  BY DEF RegistryTypes
<1>2. channel' \in [Watchers -> Seq(Slices)]
  BY <1>1 DEF notifyWatchers
<1>. QED  BY <1>1, <1>2 DEF notifyWatchers, RegistryTypes

\* What an update does to the list, the arrays and the channels.
LEMMA UpdatesKeep ==
  ASSUME RegistryInv, Updates
  PROVE  /\ RegistryInv' /\ Keeps
         /\ UNCHANGED watching
         /\ UNCHANGED <<current, channel, missed>> \/ notifyWatchers
<1>. USE DEF RegistryInv
<1>1. ASSUME UNCHANGED arrays PROVE Keeps
  BY <1>1 DEF Keeps, Filled
<1>2. ASSUME NEW i \in Instances, Register(i)
      PROVE  RegistryInv' /\ Keeps
  <2>1. Append(registered, i) \in Seq(Instances) /\ moving' \in Nat
    BY <1>2 DEF Register, RegistryTypes
  <2>2. ListInv' /\ Keeps /\ arrays' \in Seq(Seq(Slots)) /\ current' \in Slices
    BY <1>2, AppendsInPlace, AppendsToCopy DEF Register, Unlocked
  <2>. QED  BY <1>2, <2>1, <2>2, Notifies DEF Register, RegistryTypes
<1>3. ASSUME NEW i \in Instances, DeregisterUnknown(i)
      PROVE  RegistryInv' /\ Keeps
  BY <1>1, <1>3, Notifies DEF DeregisterUnknown, RegistryTypes, ListInv, Filled
<1>4. ASSUME NEW i \in Instances, DeregisterFind(i)
      PROVE  RegistryInv' /\ Keeps
  BY <1>1, <1>4, Finds DEF DeregisterFind, RegistryTypes
<1>5. CASE DeregisterMove
  BY <1>5, Moves DEF DeregisterMove, RegistryTypes
<1>6. CASE DeregisterDone
  BY <1>1, <1>6, IsDone, Notifies DEF DeregisterDone, RegistryTypes
<1>. QED
  BY <1>2, <1>3, <1>4, <1>5, <1>6
  DEF Updates, Register, DeregisterUnknown, DeregisterFind, DeregisterMove, DeregisterDone

-----------------------------------------------------------------------------
(* The client's steps *)

\* The client reads arrays and never writes them.
LEMMA ClientOnlyReads ==
  ASSUME [Next]_vars, ~ (Updates /\ UNCHANGED clientVars)
  PROVE  UNCHANGED <<arrays, current, moving, registered, updates, missed>>
BY DEF Next, vars, StartDiscover, StartWatch, Watch, WatchLoop, LoopReceive, Receive, LoopReadOld,
       LoopReadNew, LoopRemove, CallAllowed, Call, CallSnapshot, CallSelect, CallLookup, CallCreate,
       CallExchange, CallBackoff, Close, registryVars

\* Only StartWatch and LoopReceive touch a channel.
LEMMA ClientChannel ==
  ASSUME [Next]_vars, ~ (Updates /\ UNCHANGED clientVars), ~ StartWatch, ~ LoopReceive
  PROVE  UNCHANGED <<watching, channel>>
BY DEF Next, vars, StartDiscover, WatchLoop, LoopReadOld, LoopReadNew, LoopRemove, CallAllowed,
       Call, CallSnapshot, CallSelect, CallLookup, CallCreate, CallExchange, CallBackoff, Close,
       registryVars

LEMMA RegistryInvariant == Spec => []RegistryInv
<1>. USE RegistryAssumption, ClientAssumption
<1>1. Init => RegistryInv
  <2>. SUFFICES ASSUME Init PROVE RegistryInv
    OBVIOUS
  <2>. USE DEF Init, RegistryInit, RegistryInv, NoSlice, Slice, Slices
  <2>1. /\ moving = 0 /\ watching = {} /\ registered = Initial
        /\ channel \in [Watchers -> Seq(Slices)]
    OBVIOUS
  <2>2. CASE Initial = <<>>
    <3>1. /\ arrays = <<>> /\ current = [array |-> 0, len |-> 0] /\ Len(arrays) = 0
          /\ arrays \in Seq(Seq(Slots)) /\ Len(registered) = 0
      BY <2>2
    <3>. QED  BY <2>1, <3>1 DEF RegistryTypes, ListInv, Filled
  <2>3. CASE Initial # <<>>
    <3>1. Initial \in Seq(Slots) /\ Len(Initial) \in Nat
      BY DEF Slots
    <3>2. <<Initial>> \in Seq(Seq(Slots)) /\ Len(<<Initial>>) = 1 /\ <<Initial>>[1] = Initial
      BY <3>1
    <3>3. arrays = <<Initial>> /\ current = [array |-> 1, len |-> Len(Initial)]
      BY <2>3
    <3>4. RegistryTypes
      BY <2>1, <3>1, <3>2, <3>3 DEF RegistryTypes
    <3>5. Filled(current)
      BY <3>1, <3>2, <3>3 DEF Filled
    <3>. QED  BY <2>1, <3>1, <3>2, <3>3, <3>4, <3>5 DEF ListInv
  <2>. QED  BY <2>2, <2>3
<1>2. RegistryInv /\ [Next]_vars => RegistryInv'
  <2>. SUFFICES ASSUME RegistryInv, [Next]_vars PROVE RegistryInv'
    OBVIOUS
  <2>1. CASE Updates
    BY <2>1, UpdatesKeep
  <2>2. ASSUME UNCHANGED <<arrays, current, moving, registered>>, watching' \subseteq Watchers,
               channel' \in [Watchers -> Seq(Slices)]
        PROVE  RegistryInv'
    BY <2>2 DEF RegistryInv, RegistryTypes, ListInv, Filled
  <2>3. CASE StartWatch
    <3>1. <<current>> \in Seq(Slices)
      BY DEF RegistryInv, RegistryTypes
    <3>. QED
      BY <2>2, <2>3, <3>1 DEF StartWatch, Watch, RegistryInv, RegistryTypes
  <2>4. CASE LoopReceive
    <3>1. Tail(channel[Client]) \in Seq(Slices)
      BY <2>4 DEF LoopReceive, Receive, RegistryInv, RegistryTypes
    <3>. QED
      BY <2>2, <2>4, <3>1 DEF LoopReceive, Receive, RegistryInv, RegistryTypes
  <2>. QED
    BY <2>1, <2>2, <2>3, <2>4, ClientOnlyReads, ClientChannel DEF RegistryInv, RegistryTypes
<1>. QED  BY <1>1, <1>2, PTL DEF Spec

-----------------------------------------------------------------------------
(* No nil instance *)

\* The slices that hold instances only.
Sound == {s \in Slices : Filled(s)}

\* All the slices that the registry has handed out are sound.
NilInv ==
  /\ instances \in Sound
  /\ old \in Sound
  /\ snapshot \in [Callers -> Sound]
  /\ \A w \in Watchers : \A k \in 1 .. Len(channel[w]) : channel[w][k] \in Sound

LEMMA NilInvariant == Spec => []NilInv
<1>. USE RegistryAssumption, ClientAssumption
<1>1. Init => NilInv
  BY DEF Init, RegistryInit, NilInv, Sound, Filled, NoSlice, Slice, Slices
<1>2. RegistryInv /\ RegistryInv' /\ NilInv /\ [Next]_vars => NilInv'
  <2>. SUFFICES ASSUME RegistryInv, RegistryInv', NilInv, [Next]_vars PROVE NilInv'
    OBVIOUS
  <2>. USE DEF NilInv
  <2>1. current \in Sound /\ current' \in Sound'
    BY DEF RegistryInv, RegistryTypes, ListInv, Sound, Slices
  <2>2. channel \in [Watchers -> Seq(Slices)]
    BY DEF RegistryInv, RegistryTypes
  <2>3. CASE Updates /\ UNCHANGED clientVars
    <3>1. \A s \in Sound : s \in Sound'
      BY <2>3, UpdatesKeep DEF Keeps, Sound
    <3>2. \A w \in Watchers :
            channel'[w] = channel[w] \/ channel'[w] = Append(channel[w], current')
      BY <2>3, UpdatesKeep, Notifies DEF RegistryInv, RegistryTypes
    <3>3. ASSUME NEW w \in Watchers, NEW k \in 1 .. Len(channel'[w])
          PROVE  channel'[w][k] \in Sound'
      <4>1. channel[w] \in Seq(Slices) /\ current' \in Slices
        BY <2>1, <2>2 DEF Sound
      <4>2. CASE channel'[w] = channel[w]
        BY <3>1, <3>3, <4>2
      <4>3. CASE channel'[w] = Append(channel[w], current')
        <5>1. Len(channel'[w]) = Len(channel[w]) + 1 /\ Len(channel[w]) \in Nat
          BY <4>1, <4>3
        <5>2. CASE k = Len(channel[w]) + 1
          BY <2>1, <4>1, <4>3, <5>1, <5>2
        <5>3. CASE k # Len(channel[w]) + 1
          <6>1. k \in 1 .. Len(channel[w])
            BY <3>3, <5>1, <5>3
          <6>. QED  BY <3>1, <4>1, <4>3, <6>1
        <5>. QED  BY <5>2, <5>3
      <4>. QED  BY <3>2, <4>2, <4>3
    <3>. QED
      BY <2>3, <3>1, <3>3 DEF clientVars
  <2>4. CASE ~ (Updates /\ UNCHANGED clientVars)
    <3>1. Sound' = Sound
      BY <2>4, ClientOnlyReads DEF Sound, Filled
    <3>2. ASSUME UNCHANGED channel, ~ LoopReceive PROVE NilInv'
      <4>1. NoSlice \in Sound
        BY DEF Sound, NoSlice, Slice, Slices, Filled
      <4>2. instances' \in {instances, current} /\ old' \in {old, NoSlice}
        BY <2>4, <3>2
        DEF Next, vars, StartDiscover, StartWatch, WatchLoop, LoopReadOld, LoopReadNew,
            LoopRemove, CallAllowed, Call, CallSnapshot, CallSelect, CallLookup, CallCreate, CallExchange,
            CallBackoff, Close, loopVars
      <4>3. \/ UNCHANGED snapshot
            \/ \E c \in Callers : \/ snapshot' = [snapshot EXCEPT ![c] = NoSlice]
                                 \/ snapshot' = [snapshot EXCEPT ![c] = instances]
        BY <2>4
        DEF Next, vars, StartDiscover, StartWatch, WatchLoop, LoopReceive, LoopReadOld,
            LoopReadNew, LoopRemove, CallAllowed, Call, CallSnapshot, CallSelect, CallLookup,
            CallCreate, CallExchange, CallBackoff, Close, Failed, Return, callVars
      <4>. QED  BY <2>1, <3>1, <3>2, <4>1, <4>2, <4>3
    <3>3. CASE StartWatch
      <4>1. channel' = [channel EXCEPT ![Client] = <<current>>] /\ UNCHANGED <<instances, old, snapshot>>
        BY <3>3 DEF StartWatch, Watch, loopVars, callVars
      <4>. QED  BY <2>1, <2>2, <3>1, <4>1
    <3>4. CASE LoopReceive
      <4>1. /\ channel[Client] # <<>> /\ channel[Client] \in Seq(Slices)
            /\ channel' = [channel EXCEPT ![Client] = Tail(@)]
            /\ instances' = Head(channel[Client]) /\ old' = instances
            /\ UNCHANGED snapshot
        BY <2>2, <3>4 DEF LoopReceive, Receive, callVars
      <4>2. instances' \in Sound
        BY <4>1
      <4>3. \A k \in 1 .. Len(channel'[Client]) : channel'[Client][k] \in Sound
        BY <2>2, <4>1
      <4>. QED  BY <2>2, <3>1, <4>1, <4>2, <4>3
    <3>. QED  BY <2>4, <3>2, <3>3, <3>4, ClientChannel
  <2>. QED  BY <2>3, <2>4
<1>. QED  BY <1>1, <1>2, RegistryInvariant, PTL DEF Spec

\* The property ListsSound of the run pc_race: whoever reads a list while the
\* registry grows it or moves its elements in place meets an instance in every slot,
\* and the list is what the calls made so far amount to (registry.go:77, 94).
THEOREM ListsStaySound == Spec => []ListsSound
<1>1. RegistryInv /\ NilInv => ListsSound
  <2>. SUFFICES ASSUME RegistryInv, NilInv PROVE ListsSound
    OBVIOUS
  <2>1. NoNilInstance
    <3>1. \A w \in Watchers : DOMAIN channel[w] = 1 .. Len(channel[w])
      BY LenProperties DEF RegistryInv, RegistryTypes
    <3>. QED  BY <3>1 DEF RegistryInv, ListInv, NilInv, Sound, NoNilInstance, ListsFilled
  <2>2. ASSUME Unlocked PROVE Contents(current) = registered
    <3>1. Contents(current) \in Seq(Slots) /\ registered \in Seq(Slots)
      BY ContentsAre DEF RegistryInv, RegistryTypes, Slots
    <3>2. Len(Contents(current)) = Len(registered)
      BY <2>2, ContentsAre DEF RegistryInv, ListInv, Unlocked
    <3>3. \A k \in 1 .. Len(Contents(current)) : Contents(current)[k] = registered[k]
      BY <2>2, ContentsAre DEF RegistryInv, ListInv, Unlocked
    <3>. QED  BY <3>1, <3>2, <3>3, SeqEqual
  <2>. QED  BY <2>1, <2>2 DEF ListsSound, ListFaithful
<1>. QED  BY <1>1, RegistryInvariant, NilInvariant, PTL

-----------------------------------------------------------------------------
(* The client's list in step with the registry's *)

\* The list that the client will have when it has taken what is on its way.
Newest ==
  IF channel[Client] = <<>> THEN instances ELSE channel[Client][Len(channel[Client])]

\* The client watches from Start on, and a notification it did not miss is the
\* last in its channel.
SyncInv ==
  /\ started = "running" <=> Client \in watching
  /\ started = "running" /\ Client \notin missed => Newest = current

\* A list behind the first one keeps the last one as it is.
LEMMA TailKeepsLast ==
  ASSUME NEW S, NEW s \in Seq(S), s # <<>>
  PROVE  IF Len(s) = 1 THEN Tail(s) = <<>> /\ Head(s) = s[Len(s)]
         ELSE Tail(s) # <<>> /\ Tail(s)[Len(Tail(s))] = s[Len(s)]
<1>1. Len(s) \in Nat /\ Len(s) # 0
  OBVIOUS
<1>2. /\ Tail(s) \in Seq(S) /\ Len(Tail(s)) = Len(s) - 1
      /\ \A i \in 1 .. Len(Tail(s)) : Tail(s)[i] = s[i + 1]
  BY HeadTailProperties
<1>3. CASE Len(s) = 1
  <2>1. Tail(s) = <<>>
    <3>1. Len(Tail(s)) = 0
      BY <1>2, <1>3
    <3>2. \A t \in Seq(S) : t # <<>> => Len(t) # 0
      BY EmptySeq
    <3>. QED  BY <1>2, <3>1, <3>2
  <2>2. Head(s) = s[1]
    OBVIOUS
  <2>. QED  BY <1>3, <2>1, <2>2
<1>4. CASE Len(s) # 1
  <2>1. Len(s) - 1 \in 1 .. Len(Tail(s)) /\ (Len(s) - 1) + 1 = Len(s)
    BY <1>1, <1>2, <1>4
  <2>2. Tail(s)[Len(s) - 1] = s[Len(s)]
    BY <1>2, <2>1
  <2>3. Tail(s) # <<>>
    BY <1>1, <1>2, <1>4
  <2>. QED  BY <1>2, <1>4, <2>2, <2>3
<1>. QED  BY <1>3, <1>4

LEMMA SyncInvariant == Spec => []SyncInv
<1>. USE ClientAssumption DEF SyncInv
<1>1. Init => SyncInv
  BY DEF Init, RegistryInit
<1>2. RegistryInv /\ RegistryInv' /\ SyncInv /\ [Next]_vars => SyncInv'
  <2>. SUFFICES ASSUME RegistryInv, RegistryInv', SyncInv, [Next]_vars PROVE SyncInv'
    OBVIOUS
  <2>1. channel[Client] \in Seq(Slices) /\ current \in Slices /\ current' \in Slices
    BY DEF RegistryInv, RegistryTypes
  <2>2. CASE Updates /\ UNCHANGED clientVars
    <3>1. UNCHANGED <<started, instances, watching>>
      BY <2>2, UpdatesKeep DEF clientVars
    <3>2. CASE UNCHANGED <<current, channel, missed>>
      BY <3>1, <3>2 DEF Newest
    <3>3. CASE notifyWatchers
      <4>1. ASSUME channel'[Client] = Append(channel[Client], current')
            PROVE  Newest' = current'
        <5>1. channel'[Client] # <<>> /\ channel'[Client][Len(channel'[Client])] = current'
          BY <2>1, <4>1
        <5>. QED  BY <5>1 DEF Newest
      <4>. QED  BY <3>1, <3>3, <4>1, Notifies DEF RegistryInv, RegistryTypes
    <3>. QED  BY <2>2, <3>2, <3>3, UpdatesKeep
  <2>3. CASE ~ (Updates /\ UNCHANGED clientVars)
    <3>1. UNCHANGED <<current, missed>>
      BY <2>3, ClientOnlyReads
    <3>2. CASE StartWatch
      <4>1. channel'[Client] = <<current>> /\ started' = "running" /\ Client \in watching'
        BY <3>2 DEF StartWatch, Watch, RegistryInv, RegistryTypes
      <4>2. Newest' = current
        BY <4>1 DEF Newest
      <4>. QED  BY <3>1, <4>1, <4>2
    <3>3. CASE LoopReceive
      <4>1. /\ channel[Client] # <<>> /\ channel'[Client] = Tail(channel[Client])
            /\ instances' = Head(channel[Client]) /\ UNCHANGED <<started, watching>>
        BY <3>3 DEF LoopReceive, Receive, RegistryInv, RegistryTypes
      <4>2. Newest' = Newest
        BY <2>1, <4>1, TailKeepsLast DEF Newest
      <4>. QED  BY <3>1, <4>1, <4>2
    <3>4. CASE ~ StartWatch /\ ~ LoopReceive
      <4>1. UNCHANGED <<watching, channel>>
        BY <2>3, <3>4, ClientChannel
      <4>2. \/ UNCHANGED <<started, instances>>
            \/ started = "new" /\ started' = "discovered"
        BY <2>3, <3>4
        DEF Next, vars, StartDiscover, WatchLoop, LoopReadOld, LoopReadNew, LoopRemove,
            CallAllowed, Call, CallSnapshot, CallSelect, CallLookup, CallCreate, CallExchange,
            CallBackoff, Close
      <4>. QED  BY <3>1, <4>1, <4>2 DEF Newest
    <3>. QED  BY <3>2, <3>3, <3>4
  <2>. QED  BY <2>2, <2>3
<1>. QED  BY <1>1, <1>2, RegistryInvariant, PTL DEF Spec

\* The property ListInSync of the run pc_race: between Discover and Watch, and from
\* the registry to the client, no list is lost but the one a full channel drops
\* (pooled_client.go:175, registry.go:130).
THEOREM ListStaysInSync == Spec => []ListInSync
<1>1. SyncInv => ListInSync
  BY DEF SyncInv, Newest, ListInSync
<1>. QED  BY <1>1, SyncInvariant, PTL
=============================================================================
