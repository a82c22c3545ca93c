----------------------------- MODULE MessageKey -----------------------------
(***************************************************************************)
(* The parsing of message keys, //resource/context/key or context/key: the *)
(* constructor of MessageKey, and NewMessage.makeKey.                      *)
(*                                                                         *)
(* A key is a sequence of slashes and words.  Documents are named after    *)
(* the aggregate root key, locks after the key as it was spelled.          *)
(***************************************************************************)
EXTENDS Naturals, Sequences, SequencesExt

CONSTANT DefaultResource \* DEFAULT_RESOURCE_NAME, as words

Slash == "/"

\* String.indexOf: the first slash at or after i, 0 if there is none.
indexOf(s, i) ==
    LET slashes == {n \in i .. Len(s) : s[n] = Slash}
    IN  IF slashes = {} THEN 0 ELSE Min(slashes)

From(s, i) == SubSeq(s, i, Len(s))

namesResource(s) == IsPrefix(<<Slash, Slash>>, s)

\* substring fails without a slash after the resource.
endsInResource(s) == namesResource(s) /\ indexOf(s, 3) = 0

resourceName(s) ==
    IF namesResource(s) THEN SubSeq(s, 3, indexOf(s, 3) - 1) ELSE DefaultResource

\* Without the resource, and without one leading slash.
aggregateRootKey(s) ==
    LET path == IF namesResource(s) THEN From(s, indexOf(s, 3) + 1) ELSE s
    IN  IF IsPrefix(<<Slash>>, path) THEN Tail(path) ELSE path

\* Whether the constructor throws.
malformed(s) == endsInResource(s) \/ indexOf(aggregateRootKey(s), 1) = 0

userContext(s) ==
    LET root == aggregateRootKey(s) IN SubSeq(root, 1, indexOf(root, 1) - 1)

\* The key a behavior of a message with key s gives the new message userKey.
makeKey(s, userKey) ==
    <<Slash, Slash>> \o resourceName(s) \o <<Slash>> \o userContext(s)
    \o <<Slash>> \o userKey
=============================================================================
