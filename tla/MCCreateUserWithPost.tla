------------------------ MODULE MCCreateUserWithPost ------------------------
(* Two runs of the program, with the same email or an empty one, among     *)
(* users with any tags of five: a plain one, one of two words, one with a  *)
(* comma, one called NULL, and one without a name.  One such user has each *)
(* set of tags.                                                            *)
EXTENDS CreateUserWithPost

CONSTANTS r1, r2, e1

Names == {<<"a">>, <<"b", "space", "c">>, <<"d", "comma", "e">>, NullText, <<>>}
MCGuests == {<<"user", tags>> : tags \in SUBSET Names}
MCGuestTags == [u \in MCGuests |-> u[2]]
=============================================================================
