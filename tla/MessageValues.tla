---------------------------- MODULE MessageValues ----------------------------
(***************************************************************************)
(* The values of a message, by name: Message.mergeValues, which merges     *)
(* what is stored into what is there, and JavaScriptProcessorTemplate,     *)
(* which renders them into the script of a behavior.                       *)
(*                                                                         *)
(* A value is told apart by what the two do with it.  A text is one that   *)
(* valueString puts between quotes; lists are nested in a list at most.    *)
(***************************************************************************)
EXTENDS Naturals, Sequences

Null == [type |-> "null"]
Text == [type |-> "text"]
Number(n) == [type |-> "number", n |-> n]
ListOf(items) == [type |-> "list", items |-> items]
MapOf(entries) == [type |-> "map", entries |-> entries]

NoValues == [n \in {} |-> Null]

-----------------------------------------------------------------------------
(* Message.mergeValues                                                     *)

Containers == {"list", "map"}

\* getClass of a null, whether it comes or is there.
mergeFails(values, incoming) ==
    \E n \in DOMAIN values \cap DOMAIN incoming :
        \/ incoming[n] = Null
        \/ incoming[n].type \in Containers /\ values[n] = Null

\* Map.putAll
putAll(entries, incoming) ==
    [n \in DOMAIN entries \cup DOMAIN incoming |->
        IF n \in DOMAIN incoming THEN incoming[n] ELSE entries[n]]

\* Maps and lists are added to, everything else is replaced.
mergedValue(old, new) ==
    CASE old.type = "map" /\ new.type = "map"   -> MapOf(putAll(old.entries, new.entries))
      [] old.type = "list" /\ new.type = "list" -> ListOf(old.items \o new.items)
      [] OTHER                                  -> new

\* Mutant: lists are replaced too.
mergeByReplacing(values, incoming) == putAll(values, incoming)

mergeValues(values, incoming) ==
    putAll(values,
           [n \in DOMAIN incoming |-> IF n \in DOMAIN values
                                      THEN mergedValue(values[n], incoming[n])
                                      ELSE incoming[n]])

-----------------------------------------------------------------------------
(* JavaScriptProcessorTemplate.makeJavaScript, valueString                 *)

isPlain(v) == v.type \in {"text", "number"}

\* What valueString makes of an entry of a map is a script: undefined for null,
\* but text is not quoted within it.
isEntry(v) ==
    \/ v = Null \/ isPlain(v)
    \/ v.type = "list" /\ \A i \in DOMAIN v.items : v.items[i].type = "number"
    \/ v.type = "map" /\ DOMAIN v.entries = {}

\* Within a list nested in a list only plain values.
isItem(v) ==
    \/ isPlain(v)
    \/ v.type = "map" /\ \A n \in DOMAIN v.entries : isEntry(v.entries[n])
    \/ v.type = "list" /\ \A i \in DOMAIN v.items : isPlain(v.items[i])

\* Whether a value makes a script that runs.
isScript(v) ==
    \/ isItem(v)
    \/ v.type = "list" /\ \A i \in DOMAIN v.items : isItem(v.items[i])

renders(values) == \A n \in DOMAIN values : isScript(values[n])
=============================================================================
