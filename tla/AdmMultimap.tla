---------------------------- MODULE AdmMultimap ----------------------------
(***************************************************************************)
(* What a map of os/src/adm_os_map.c promises: the pairs in the order they *)
(* were added, looked up by the first that matches, and an iteration that  *)
(* goes round and round them.  AdmMap (the linked list) implements it.     *)
(***************************************************************************)
EXTENDS Integers, Sequences

CONSTANTS Key, Value, NULL

VARIABLES
  contents,   \* the <<key, value>> pairs
  unique,     \* a key may be there only once
  at,         \* how many pairs the present pass of the iteration has returned
  answer      \* the last call that answers, and what it answered

mvars == <<contents, unique, at, answer>>

Yes(asked, key, value) == [asked |-> asked, ok |-> TRUE, key |-> key, value |-> value]
No(asked)              == [asked |-> asked, ok |-> FALSE, key |-> NULL, value |-> NULL]

Init ==
  /\ contents = <<>> /\ unique = FALSE /\ at = 0
  /\ answer = No("nothing")

Matches(k) == {i \in DOMAIN contents : contents[i][1] = k}
First(k)   == CHOOSE i \in Matches(k) : \A j \in Matches(k) : i <= j

Create(dups) ==
  /\ contents = <<>>
  /\ \/ unique' = ~ dups /\ answer' = Yes("create", NULL, NULL)
     \/ unique' = unique /\ answer' = No("create")
  /\ UNCHANGED <<contents, at>>

Add(k, v) ==
  /\ ~ (unique /\ Matches(k) # {})
  /\ contents' = Append(contents, <<k, v>>)
  /\ answer' = Yes("add", NULL, NULL)
  /\ UNCHANGED <<unique, at>>

\* The key is there already, or there is no memory.
AddRefused ==
  /\ answer' = No("add")
  /\ UNCHANGED <<contents, unique, at>>

Find(k) ==
  /\ answer' = IF Matches(k) = {} THEN No("find")
               ELSE Yes("find", NULL, contents[First(k)][2])
  /\ UNCHANGED <<contents, unique, at>>

Set(k, v) ==
  /\ IF Matches(k) = {}
     THEN contents' = contents /\ answer' = No("set")
     ELSE /\ contents' = [contents EXCEPT ![First(k)] = <<k, v>>]
          /\ answer' = Yes("set", NULL, NULL)
  /\ UNCHANGED <<unique, at>>

\* Every pair with the key goes; the iteration keeps its place, provided the
\* pair it returns next stays.
Without(k, pairs) == SelectSeq(pairs, LAMBDA p : p[1] # k)
Remove(k) ==
  /\ at > 0 => contents[at + 1][1] # k
  /\ contents' = Without(k, contents)
  /\ at' = Len(Without(k, SubSeq(contents, 1, at)))
  /\ UNCHANGED <<unique, answer>>

RemoveAll ==
  /\ at = 0
  /\ contents' = <<>>
  /\ UNCHANGED <<unique, at, answer>>

GetSize ==
  /\ answer' = Yes("getSize", NULL, Len(contents))
  /\ UNCHANGED <<contents, unique, at>>

GetNext ==
  /\ IF contents = <<>>
     THEN at' = at /\ answer' = No("getNext")
     ELSE /\ answer' = Yes("getNext", contents[at + 1][1], contents[at + 1][2])
          /\ at' = (at + 1) % Len(contents)
  /\ UNCHANGED <<contents, unique>>

\* The caller begins a pass.
Rewind == at' = 0 /\ UNCHANGED <<contents, unique, answer>>

Next ==
  \/ \E dups \in BOOLEAN : Create(dups)
  \/ \E k \in Key, v \in Value : Add(k, v) \/ Set(k, v)
  \/ \E k \in Key : Find(k) \/ Remove(k)
  \/ AddRefused \/ RemoveAll \/ GetSize \/ GetNext \/ Rewind

Spec == Init /\ [][Next]_mvars
=============================================================================
