------------------------------- MODULE MCUsers -------------------------------
(***************************************************************************)
(* Instances of Users for TLC: one context and one message, whose key has  *)
(* several spellings, and keys that are refused.                           *)
(***************************************************************************)
EXTENDS Users

CONSTANTS host, rival, guest, t1, t2, t3, t4, t5

File == <<"file">>
Words == <<"words">>
Plain == <<"words", Slash, "fox">>
Rooted == <<Slash, "words", Slash, "fox">>
Full == makeKey(Plain, <<"fox">>)
Elsewhere == <<Slash, Slash, "s3", Slash, "words", Slash, "fox">>
Unfinished == <<Slash, Slash, "words">>
NoSlash == <<Slash, "fox">>

MCSpellings == {Plain, Rooted, Full, Elsewhere, Unfinished, NoSlash}
MCResources == {File}

Register(a, c) == [type |-> "register", authentication |-> a, context |-> c]
Store(a, type, key, secure) ==
    [type |-> type, authentication |-> a, key |-> key, secure |-> secure]
Asked(r1, r2, r3, r4, r5) ==
    [t \in Threads |-> CASE t = t1 -> r1 [] t = t2 -> r2 [] t = t3 -> r3
                         [] t = t4 -> r4 [] t = t5 -> r5]

\* A host and a rival register the context; a guest stores a message that the
\* host deletes under another spelling.
Deleting ==
    Asked(Register(host, Words), Store(host, "Delete", Full, TRUE),
          Register(rival, Words), Store(guest, "Persist", Rooted, FALSE),
          Store(guest, "Error", Unfinished, FALSE))

\* A message is stored, and read by one who does not own it; another adds an
\* Error behavior.
Reading ==
    Asked(Register(host, Words), Store(host, "Persist", Plain, TRUE),
          Store(guest, "Get", Full, FALSE), Store(rival, "Error", Plain, FALSE),
          Store(rival, "Get", NoSlash, FALSE))

\* A host registers three times, and so does a rival.
Repeating ==
    Asked(Register(host, Words), Register(host, Words), Register(host, NoContext),
          Register(rival, NoContext), Store(rival, "Error", Elsewhere, TRUE))

AllWorkloads == {Deleting, Reading, Repeating}

\* A guest stores a message in the context of a host and then registers.
GuestRegisters ==
    {Asked(Register(host, Words), Store(guest, "Persist", Rooted, FALSE),
           Register(guest, NoContext), Store(rival, "Get", NoSlash, TRUE),
           Store(rival, "Get", Unfinished, TRUE))}
=============================================================================
