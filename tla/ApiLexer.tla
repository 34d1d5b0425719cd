------------------------------ MODULE ApiLexer ------------------------------
(***************************************************************************)
(* dsl/lexer/lexer.go over words instead of characters: a text is a        *)
(* sequence of lexemes, with the white space between them left out.        *)
(* Numbers, and a word that the file ends in, are left out too: the .api   *)
(* files of the repository have neither.                                   *)
(***************************************************************************)
EXTENDS Naturals, Sequences, SequencesExt

Word(w) == [kind |-> "Word", text |-> w, inside |-> <<>>]
Quoted(s) == [kind |-> "Quoted", text |-> s, inside |-> <<>>]
Mark(m) == [kind |-> "Mark", text |-> m, inside |-> <<>>]
Comment(lexemes) == [kind |-> "Comment", text |-> "", inside |-> lexemes]

Keywords == {"syntax", "info", "type", "server", "service", "handler", "doc", "grpc", "returns"}
Marks == {"(", ")", "{", "}", "[", "]", "=", ",", ":", "/", ".", "-", "@"}

Token(type, value) == [type |-> type, value |-> value]
EOF == Token("EOF", "")

IdentOrKeyword(w) == Token(IF w \in Keywords THEN "Keyword" ELSE "Ident", w)

\* A mark is its own type; any other character is an error token.
OfMark(m) == Token(IF m \in Marks THEN m ELSE "Error", m)

TokenOf(lexeme) ==
  CASE lexeme.kind = "Word" -> IdentOrKeyword(lexeme.text)
    [] lexeme.kind = "Quoted" -> Token("String", lexeme.text)
    [] lexeme.kind = "Mark" -> OfMark(lexeme.text)

\* skipComments skips one comment before a token.
Skipped(text) ==
  LET skipped[i \in 1..Len(text)] == text[i].kind = "Comment" /\ (i = 1 \/ ~skipped[i - 1])
  IN skipped

\* A comment right after it is read: two slashes, then what is in it.
Read(lexeme) ==
  IF lexeme.kind = "Comment"
  THEN <<OfMark("/"), OfMark("/")>> \o [i \in 1..Len(lexeme.inside) |-> TokenOf(lexeme.inside[i])]
  ELSE <<TokenOf(lexeme)>>

Lex(text) == FlattenSeq([i \in 1..Len(text) |-> IF Skipped(text)[i] THEN <<>> ELSE Read(text[i])])
=============================================================================
