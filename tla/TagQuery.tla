------------------------------ MODULE TagQuery ------------------------------
(***************************************************************************)
(* The tags of a user on their way from the database to the program:       *)
(* Postgres writes ARRAY_AGG as the text of an array, ParseTags takes the  *)
(* text apart again.  A text is a sequence of symbols; a name has one      *)
(* letter for each run of characters that mean nothing to either side.     *)
(***************************************************************************)
EXTENDS Naturals, Sequences, SequencesExt

Special == {"comma", "space"}   \* characters that make Postgres quote a name
NullText == <<"NULL">>

(* Names without the other characters that Postgres quotes or escapes.     *)
TagName == Seq(STRING \ {"quote", "backslash", "open", "close"})

(* An element of an array as Postgres writes it: in quotes if it is empty, *)
(* has special characters or could be taken for the null value.            *)
Plain(name) ==
  name \notin {<<>>, NullText} /\ \A k \in DOMAIN name : name[k] \notin Special
ElementText(name) ==
  IF Plain(name) THEN name ELSE <<"quote">> \o name \o <<"quote">>

(* ARRAY_AGG(DISTINCT T.name ...) over the LEFT JOINs: a user without tags *)
(* has one row whose T.name is null.                                       *)
ArrayText(tags) ==
  LET elements == IF tags = {} THEN {NullText} ELSE {ElementText(n) : n \in tags}
  IN  <<"open">> \o Tail(FlattenSeq(SetToSeq({<<"comma">> \o e : e \in elements}))) \o <<"close">>

(* The pieces that getline cuts out of a text at its commas.               *)
Pieces(text) ==
  LET ends   == 1..Len(text)
      comma(k) == k \in ends /\ text[k] = "comma"
  IN  {SubSeq(text, p[1], p[2]) : p \in
         {q \in ends \X ends :
            /\ q[1] <= q[2]
            /\ \A k \in q[1]..q[2] : ~comma(k)
            /\ q[1] = 1 \/ comma(q[1] - 1)
            /\ q[2] = Len(text) \/ comma(q[2] + 1)}}

(* Mutant: the closing brace stays.                                        *)
ParseTagsToEnd(text) == Pieces(SubSeq(text, 2, Len(text)))

(* ParseTags: the braces go, and empty pieces.                             *)
ParseTags(text) == Pieces(SubSeq(text, 2, Len(text) - 1))
=============================================================================
