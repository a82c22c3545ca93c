-------------------------- MODULE MCMessageStore --------------------------
(***************************************************************************)
(* Instances of MessageStore for TLC: a client posts a word, another posts *)
(* a Delete or an Error behavior for the same word.  The word asks for one *)
(* stem, with a behavior, or for two records of it, without.               *)
(***************************************************************************)
EXTENDS MessageStore, TLC

CONSTANTS word, other, c1, j1, j2

MCKeyOf == [j \in Jobs |-> IF j \in {j1, j2} THEN word ELSE other]

\* A note, and the word among the results.
Note == ("notes" :> ListOf(<<Text>>)) @@ ("result" :> MapOf("word" :> Text))
MCNewValues == {Note}

AsksFor(news) == [k \in Keys |-> IF k = word THEN news ELSE <<>>]
New(persist) == [key |-> other, persist |-> persist, values |-> Note]
AsksForStem == AsksFor(<<New(TRUE)>>)
AsksForRecords == AsksFor(<<New(FALSE), New(FALSE)>>)

Post(type, values) == [key |-> word, type |-> type, values |-> values]
WordAnd(values, type, later) ==
    [c \in Clients |-> IF c = c1 THEN Post("Persist", values) ELSE Post(type, later)]
\* Makes no script.
Nested == MapOf("stems" :> ListOf(<<Text>>))
WordAndDelete == WordAnd(NoValues, "Delete", NoValues)
WordAndError == WordAnd("result" :> Nested, "Error", "result" :> Text)

\* Results that make a script, and others that make none.
Texts == [k \in Keys |-> {Text}]
StemIsNull == [k \in Keys |-> IF k = word THEN {Text} ELSE {Null}]

Symmetry == Permutations(Workers)
=============================================================================
