------------------------------- MODULE AdmMap -------------------------------
(***************************************************************************)
(* One map of os/src/adm_os_map.c and the caller that owns it: a singly    *)
(* linked list of pairs.  A call that only reads, or changes one place, is *)
(* one step.  The loops of removeItem, setNull and removeAll take a step   *)
(* for each pair they look at; p, the pointer to a pointer they walk with, *)
(* is named by the pair whose next field it points to, NULL for the head.  *)
(*                                                                         *)
(* The caller owns the iterator and knows how long it is good for: it      *)
(* removes no pair the iterator points to, and hands removeItem a key of   *)
(* its own, not the one stored in the pair that is to be freed.  After     *)
(* adm_map_destroy it forgets the handle (the function does not clear it). *)
(***************************************************************************)
EXTENDS Integers, Sequences, FiniteSets

CONSTANTS
  Pair,          \* the addresses of pairs
  FreeFunc,      \* a freeFunc is given: the map owns its keys and values
  Key, Value,    \* keys are equal when compareFunc returns 0
  MaxDisplaced,  \* bound: how often adm_map_set replaces a stored pair
  NULL

ASSUME MapAssumption ==
  /\ Pair \subseteq Nat /\ NULL \notin Pair \cup Key \cup Value
  /\ FreeFunc \in BOOLEAN /\ MaxDisplaced \in Nat

VARIABLES
  live,       \* the caller has a handle
  allowDuplicates,
  head, size,
  next, pair, \* the fields of a pair: next, and <<key, value>>
  cells,      \* the addresses that are allocated
  iter,       \* the caller's iterator
  loop,       \* the loop that is running: operation, key and p
  answer,     \* the last call that answers, and what it answered
  owned,      \* keys and values (counted together) handed to the map, not freed
  displaced,  \* those that adm_map_set has overwritten
  lost        \* the pairs adm_map_setNull has unlinked

map   == <<live, allowDuplicates>>
list  == <<head, size, next, pair, cells>>
freed == <<owned, displaced, lost>>
vars  == <<map, list, freed, iter, loop, answer>>

Idle == [op |-> "idle", key |-> NULL, p |-> NULL]

Yes(asked, key, value) == [asked |-> asked, ok |-> TRUE, key |-> key, value |-> value]
No(asked)              == [asked |-> asked, ok |-> FALSE, key |-> NULL, value |-> NULL]

Init ==
  /\ live = FALSE /\ allowDuplicates = TRUE
  /\ head = NULL /\ size = 0
  /\ next = [a \in Pair |-> NULL] /\ pair = [a \in Pair |-> <<NULL, NULL>>]
  /\ cells = {} /\ iter = NULL /\ loop = Idle
  /\ answer = No("nothing")
  /\ owned = 0 /\ displaced = 0 /\ lost = {}

-----------------------------------------------------------------------------
(* Following the pointers *)

\* The pairs from an address on.
From == LET from[a \in Pair \cup {NULL}] ==
              IF a = NULL THEN <<>> ELSE <<a>> \o from[next[a]]
        IN  from
Chain == From[head]

Matching(k) == {i \in DOMAIN Chain : pair[Chain[i]][1] = k}

\* findPair: the first pair with the key, or NULL.
findPair(k) ==
  IF Matching(k) = {} THEN NULL
  ELSE Chain[CHOOSE i \in Matching(k) : \A j \in Matching(k) : i <= j]

\* adm_malloc: which free address it returns makes no difference, so the
\* smallest.
Free == Pair \ cells
Fresh == CHOOSE a \in Free : \A b \in Free : a <= b

Deref(p) == IF p = NULL THEN head ELSE next[p]

\* *p = (*p)->next; nobody looks at the unlinked pair again, whose fields are
\* set to NULL here.
Unlink(p) ==
  LET gone == Deref(p) IN
  /\ pair' = [pair EXCEPT ![gone] = <<NULL, NULL>>]
  /\ IF p = NULL
     THEN head' = next[gone] /\ next' = [next EXCEPT ![gone] = NULL]
     ELSE head' = head /\ next' = [next EXCEPT ![p] = next[gone], ![gone] = NULL]

\* What one key and value count for.
One == IF FreeFunc THEN 1 ELSE 0

-----------------------------------------------------------------------------
(* Calls that are one step *)

Calling == loop = Idle

Create(dups) ==
  /\ Calling /\ ~ live
  /\ \/ /\ live' = TRUE /\ allowDuplicates' = dups
        /\ answer' = Yes("create", NULL, NULL)
     \/ answer' = No("create") /\ UNCHANGED map
  /\ UNCHANGED <<list, freed, iter, loop>>

\* Faulty: the new pair is put in front.
AddInFront(k, v) ==
  /\ Calling /\ live
  /\ ~ allowDuplicates => findPair(k) = NULL
  /\ Free # {}
  /\ cells' = cells \cup {Fresh}
  /\ pair' = [pair EXCEPT ![Fresh] = <<k, v>>]
  /\ head' = Fresh /\ next' = [next EXCEPT ![Fresh] = head]
  /\ size' = size + 1 /\ owned' = owned + One
  /\ answer' = Yes("add", NULL, NULL)
  /\ UNCHANGED <<map, iter, loop, displaced, lost>>

Add(k, v) ==
  /\ Calling /\ live
  /\ ~ allowDuplicates => findPair(k) = NULL
  /\ Free # {}
  /\ cells' = cells \cup {Fresh}
  /\ pair' = [pair EXCEPT ![Fresh] = <<k, v>>]
  /\ IF head = NULL THEN head' = Fresh /\ next' = next
     ELSE head' = head /\ next' = [next EXCEPT ![Chain[Len(Chain)]] = Fresh]
  /\ size' = size + 1 /\ owned' = owned + One
  /\ answer' = Yes("add", NULL, NULL)
  /\ UNCHANGED <<map, iter, loop, displaced, lost>>

\* No map, the key is there already, or no memory.
AddRefused ==
  /\ Calling
  /\ answer' = No("add")
  /\ UNCHANGED <<map, list, freed, iter, loop>>

Find(k) ==
  /\ Calling
  /\ answer' = IF findPair(k) = NULL THEN No("find")
               ELSE Yes("find", NULL, pair[findPair(k)][2])
  /\ UNCHANGED <<map, list, freed, iter, loop>>

\* The new key and value take the place of the old, which nobody frees.
Set(k, v) ==
  /\ Calling /\ displaced < MaxDisplaced
  /\ IF findPair(k) = NULL
     THEN answer' = No("set") /\ UNCHANGED <<pair, owned, displaced>>
     ELSE /\ pair' = [pair EXCEPT ![findPair(k)] = <<k, v>>]
          /\ owned' = owned + One /\ displaced' = displaced + One
          /\ answer' = Yes("set", NULL, NULL)
  /\ UNCHANGED <<map, head, size, next, cells, iter, loop, lost>>

GetSize ==
  /\ Calling
  /\ answer' = Yes("getSize", NULL, size)
  /\ UNCHANGED <<map, list, freed, iter, loop>>

\* An iterator of NULL stands for the first pair: the pass begins again.
GetNext ==
  /\ Calling
  /\ LET p == IF iter = NULL THEN head ELSE iter
     IN  IF p = NULL THEN iter' = iter /\ answer' = No("getNext")
         ELSE iter' = next[p] /\ answer' = Yes("getNext", pair[p][1], pair[p][2])
  /\ UNCHANGED <<map, list, freed, loop>>

\* The caller sets its iterator to NULL to begin a pass.
Rewind ==
  /\ Calling /\ iter' = NULL
  /\ UNCHANGED <<map, list, freed, loop, answer>>

-----------------------------------------------------------------------------
(* The loops: removeItem, setNull, removeAll, destroy *)

\* The loop begins with p pointing to the head.
Begin(op, k) ==
  /\ Calling
  /\ loop' = [op |-> op, key |-> k, p |-> NULL]
  /\ UNCHANGED <<map, list, freed, iter, answer>>

\* The pair the iterator points to is not one that goes.
RemoveItem(k) == (iter # NULL => pair[iter][1] # k) /\ Begin("removeItem", k)
SetNull(k)    == (iter # NULL => pair[iter][1] # k) /\ Begin("setNull", k)
RemoveAll     == iter = NULL /\ Begin("removeAll", NULL)
Destroy       == iter = NULL /\ live /\ Begin("destroy", NULL)

Here == Deref(loop.p)

\* Faulty: the walk does not go on to the next pair.
KeepPairStuck ==
  /\ loop.op \in {"removeItem", "setNull"}
  /\ Here # NULL /\ pair[Here][1] # loop.key
  /\ UNCHANGED vars

\* Faulty: the size is decreased for each pair looked at.
KeepPairCounted ==
  /\ loop.op \in {"removeItem", "setNull"}
  /\ Here # NULL /\ pair[Here][1] # loop.key
  /\ loop' = [loop EXCEPT !.p = Here] /\ size' = size - 1
  /\ UNCHANGED <<map, head, next, pair, cells, freed, iter, answer>>

KeepPair ==
  /\ loop.op \in {"removeItem", "setNull"}
  /\ Here # NULL /\ pair[Here][1] # loop.key
  /\ loop' = [loop EXCEPT !.p = Here]
  /\ UNCHANGED <<map, list, freed, iter, answer>>

\* Faulty: removeItem unlinks the pair and does not free it.
UnlinkPairKept ==
  /\ loop.op \in {"removeItem", "setNull"}
  /\ Here # NULL /\ pair[Here][1] = loop.key
  /\ Unlink(loop.p)
  /\ owned' = owned - One /\ size' = size - 1
  /\ lost' = IF loop.op = "setNull" THEN lost \cup {Here} ELSE lost
  /\ UNCHANGED <<map, cells, iter, loop, answer, displaced>>

\* freeFunc frees key and value; only removeItem frees the pair as well.
UnlinkPair ==
  /\ loop.op \in {"removeItem", "setNull"}
  /\ Here # NULL /\ pair[Here][1] = loop.key
  /\ Unlink(loop.p)
  /\ owned' = owned - One /\ size' = size - 1
  /\ IF loop.op = "setNull"
     THEN lost' = lost \cup {Here} /\ cells' = cells
     ELSE cells' = cells \ {Here} /\ lost' = lost
  /\ UNCHANGED <<map, iter, loop, answer, displaced>>

WalkEnds ==
  /\ loop.op \in {"removeItem", "setNull"} /\ Here = NULL
  /\ loop' = Idle
  /\ UNCHANGED <<map, list, freed, iter, answer>>

DropHead ==
  /\ loop.op \in {"removeAll", "destroy"} /\ head # NULL
  /\ Unlink(NULL) /\ cells' = cells \ {head}
  /\ owned' = owned - One
  /\ UNCHANGED <<map, size, iter, loop, answer, displaced, lost>>

ListEmpty ==
  /\ loop.op \in {"removeAll", "destroy"} /\ head = NULL
  /\ size' = 0
  /\ live' = (live /\ loop.op # "destroy")
  /\ loop' = Idle
  /\ UNCHANGED <<allowDuplicates, head, next, pair, cells, freed,
                 iter, answer>>

LoopStep == KeepPair \/ UnlinkPair \/ WalkEnds \/ DropHead \/ ListEmpty

Next ==
  \/ \E dups \in BOOLEAN : Create(dups)
  \/ \E k \in Key, v \in Value : Add(k, v) \/ Set(k, v)
  \/ \E k \in Key : Find(k) \/ RemoveItem(k) \/ SetNull(k)
  \/ AddRefused \/ GetSize \/ GetNext \/ Rewind \/ RemoveAll \/ Destroy
  \/ LoopStep

Spec     == Init /\ [][Next]_vars
FairSpec == Spec /\ WF_vars(LoopStep)

-----------------------------------------------------------------------------
(* Properties *)

\* Type invariant; in particular the size never goes below zero.
TypeOK ==
  /\ live \in BOOLEAN /\ allowDuplicates \in BOOLEAN
  /\ head \in Pair \cup {NULL} /\ size \in Nat /\ cells \subseteq Pair
  /\ next \in [Pair -> Pair \cup {NULL}]
  /\ pair \in [Pair -> (Key \X Value) \cup {<<NULL, NULL>>}]
  /\ iter \in Pair \cup {NULL}
  /\ loop \in [op : {"idle", "removeItem", "setNull", "removeAll", "destroy"},
               key : Key \cup {NULL}, p : Pair \cup {NULL}]
  /\ owned \in Nat /\ displaced \in Nat /\ lost \subseteq Pair

\* Nothing is lost but what two functions are seen to lose: the allocated
\* pairs are the linked ones and those adm_map_setNull unlinked without
\* freeing them, and the keys and values not yet freed are those of the linked
\* pairs and those adm_map_set wrote over.  Holds in the middle of a loop too.
Accounted ==
  /\ cells = {Chain[i] : i \in DOMAIN Chain} \cup lost
  /\ \A i \in DOMAIN Chain : Chain[i] \notin lost
  /\ owned = One * Len(Chain) + displaced

\* What a loop that is running will leave: the pairs it is past, and those of
\* the rest that stay.
Staying ==
  IF loop.op \in {"removeAll", "destroy"} THEN <<>>
  ELSE LET past == CHOOSE n \in 0 .. Len(Chain) :
                     IF loop.p = NULL THEN n = 0 ELSE n > 0 /\ Chain[n] = loop.p
       IN  SubSeq(Chain, 1, past)
             \o SelectSeq(SubSeq(Chain, past + 1, Len(Chain)),
                          LAMBDA a : pair[a][1] # loop.key)

\* The linked list implements AdmMultimap, a removal taking effect when it
\* begins; with it the iteration returns every pair once in the order they
\* were added, also when pairs are added or removed during the pass.
Multimap == INSTANCE AdmMultimap WITH
              contents <- [i \in DOMAIN Staying |-> pair[Staying[i]]],
              unique   <- ~ allowDuplicates,
              at       <- IF iter = NULL THEN 0
                          ELSE (CHOOSE i \in DOMAIN Staying : Staying[i] = iter) - 1
MultimapSpec == Multimap!Spec

\* Every loop ends: the walk with p neither stays where it is nor goes in a
\* circle.
LoopEnds == loop # Idle ~> loop = Idle
=============================================================================
