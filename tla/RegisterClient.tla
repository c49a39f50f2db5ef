--------------------------- MODULE RegisterClient ---------------------------
(***************************************************************************)
(* The registration request of httpdemo.c: test01 builds the request as a  *)
(* cJSON tree and prints it, posts it with libcurl, which hands the answer *)
(* to responseCallback piece by piece, and parses the answer.  Every       *)
(* allocation may fail, the transfer may fail at any point, and the server *)
(* may answer with any document, or never.                                 *)
(***************************************************************************)
EXTENDS Naturals, Sequences, FiniteSets, SequencesExt

CONSTANTS
  MaxPieces,    \* bound: pieces of one answer
  Success,      \* the status 10000
  OtherStatus,  \* any other number
  NULL          \* a member that is missing or of the wrong type

ASSUME ClientAssumption ==
  /\ MaxPieces \in Nat \ {0}
  /\ Success # OtherStatus /\ NULL \notin {Success, OtherStatus}

\* What the program allocates; a pointer bears the name of what it points to.
Resource == {"request", "printed", "chunk", "curl", "headers", "answer"}

\* The members a function adds to the request, in its order.
CommonFields   == <<"root", "commandType", "sign", "deviceId", "timestamp">>
RegisterFields == <<"payload", "vin">>

\* The members parseRegisterRsp looks up, in its order; status is a number.
AnswerFields == <<"json", "payload", "status", "msg", "data", "deviceId", "secret">>

\* An answer of the server: the well-formed members and the status.
Answer == [has : SUBSET (ToSet(AnswerFields) \ {"status"}),
           status : {Success, OtherStatus, NULL}]

VARIABLES
  pc,        \* the step the program is at
  next,      \* index of the next member to add or look up
  heap,      \* what is allocated
  ptr,       \* the pointers that are not NULL
  badFree,   \* a pointer was freed whose object was gone
  answer,    \* what the server answers, in how many pieces
  arrived,   \* pieces the server has sent
  memory,    \* stChunk.memory: the pieces collected so far
  response,  \* responseBody of test01: the pieces in it
  performs,  \* calls of curl_easy_perform
  iRet,      \* result of the function that runs: "ok" or "err"
  status,    \* *piRemoteStatus
  filled     \* the members of stRegInfo that are set

vars == <<pc, next, heap, ptr, badFree, answer, arrived, memory, response,
          performs, iRet, status, filled>>
transfer == <<answer, arrived, memory, response, performs>>
result   == <<status, filled>>

Init ==
  /\ pc = "common" /\ next = 1
  /\ heap = {} /\ ptr = {} /\ badFree = FALSE
  /\ answer \in [doc : Answer, pieces : 1 .. MaxPieces]
  /\ arrived = 0 /\ memory = <<>> /\ response = <<>> /\ performs = 0
  /\ iRet = "ok" /\ status = NULL /\ filled = {}

Alloc(r) == heap' = heap \cup {r} /\ ptr' = ptr \cup {r}

\* free, cJSON_Delete, curl_easy_cleanup ...: nothing for a NULL pointer.  The
\* pointers in gone are local to a function that returns, or set to NULL.
Release(rs, gone) ==
  /\ heap' = heap \ (rs \cap ptr)
  /\ badFree' = (badFree \/ ~ (rs \cap ptr) \subseteq heap)
  /\ ptr' = ptr \ gone

-----------------------------------------------------------------------------
(* Building the request *)

\* createCommonReqJsonVal: the root, then one member after the other.
AddCommon ==
  /\ pc = "common"
  /\ IF next = 1 THEN Alloc("request") ELSE UNCHANGED <<heap, ptr>>
  /\ IF next = Len(CommonFields)
     THEN pc' = "register" /\ next' = 1
     ELSE next' = next + 1 /\ UNCHANGED pc
  /\ UNCHANGED <<badFree, iRet, transfer, result>>
\* Faulty: the deleted tree is returned.
CommonFailsDangling ==
  /\ pc = "common"
  /\ Release({"request"}, {})
  /\ pc' = "registerFailed" /\ next' = 1
  /\ UNCHANGED <<iRet, transfer, result>>

\* It deletes the tree and returns NULL, so its caller deletes nothing.
CommonFails ==
  /\ pc = "common"
  /\ Release({"request"}, {"request"})
  /\ pc' = "registerFailed" /\ next' = 1
  /\ UNCHANGED <<iRet, transfer, result>>

\* createRegisterReqJsonVal: payload and vin.
AddRegister ==
  /\ pc = "register"
  /\ IF next = Len(RegisterFields)
     THEN pc' = "print" /\ next' = 1
     ELSE next' = next + 1 /\ UNCHANGED pc
  /\ UNCHANGED <<heap, ptr, badFree, iRet, transfer, result>>

AddRegisterFails ==
  /\ pc = "register"
  /\ pc' = "registerFailed" /\ next' = 1
  /\ UNCHANGED <<heap, ptr, badFree, iRet, transfer, result>>

RegisterFailed ==
  /\ pc = "registerFailed"
  /\ Release({"request"}, {"request"})
  /\ pc' = "built" /\ iRet' = "err"
  /\ UNCHANGED <<next, transfer, result>>

\* createRegisterReqStr: the text of the tree.
PrintJson ==
  /\ pc = "print"
  /\ \/ Alloc("printed") /\ UNCHANGED iRet
     \/ iRet' = "err" /\ UNCHANGED <<heap, ptr>>
  /\ pc' = "built"
  /\ UNCHANGED <<next, badFree, transfer, result>>

Built ==
  /\ pc = "built"
  /\ Release({"request", "printed"}, {"request", "printed"})
  /\ pc' = IF iRet = "ok" THEN "setup" ELSE "ended"
  /\ UNCHANGED <<next, iRet, transfer, result>>

-----------------------------------------------------------------------------
(* postJsonReport *)

\* The memory, the handle and the headers, in this order.
SetupOrder == <<"chunk", "curl", "headers">>

Setup ==
  /\ pc = "setup"
  /\ Alloc(SetupOrder[next])
  /\ IF next = Len(SetupOrder)
     THEN pc' = "perform" /\ next' = 1
     ELSE next' = next + 1 /\ UNCHANGED pc
  /\ UNCHANGED <<badFree, iRet, transfer, result>>
\* Faulty: a return instead of the break.
SetupFailsAtOnce ==
  /\ pc = "setup"
  /\ pc' = "ended" /\ next' = 1 /\ iRet' = "err"
  /\ UNCHANGED <<heap, ptr, badFree, transfer, result>>

SetupFails ==
  /\ pc = "setup"
  /\ pc' = "cleanup" /\ next' = 1 /\ iRet' = "err"
  /\ UNCHANGED <<heap, ptr, badFree, transfer, result>>

Perform ==
  /\ pc = "perform"
  /\ performs' = performs + 1
  /\ pc' = "transfer"
  /\ UNCHANGED <<next, heap, ptr, badFree, answer, arrived, memory, response,
                 iRet, result>>
\* Faulty: a piece replaces those before it.
responseCallbackReplaces ==
  /\ pc = "transfer"
  /\ arrived < answer.pieces
  /\ arrived' = arrived + 1
  /\ memory' = <<arrived + 1>>
  /\ UNCHANGED <<pc, next, heap, ptr, badFree, answer, response, performs, iRet,
                 result>>

\* libcurl calls responseCallback with a piece, which appends it.
responseCallback ==
  /\ pc = "transfer"
  /\ arrived < answer.pieces
  /\ arrived' = arrived + 1
  /\ memory' = Append(memory, arrived + 1)
  /\ UNCHANGED <<pc, next, heap, ptr, badFree, answer, response, performs, iRet,
                 result>>

\* Faulty: no limit to the time.
TransferFailsLate ==
  /\ pc = "transfer"
  /\ arrived = answer.pieces
  /\ iRet' = "err"
  /\ pc' = "cleanup"
  /\ UNCHANGED <<next, heap, ptr, badFree, transfer, result>>

\* The callback cannot enlarge the memory and returns 0, which makes libcurl
\* give up; or the time is up (CURLOPT_TIMEOUT), the connection is lost, or
\* the server answers with an HTTP error (CURLOPT_FAILONERROR).
TransferFails ==
  /\ pc = "transfer"
  /\ iRet' = "err"
  /\ pc' = "cleanup"
  /\ UNCHANGED <<next, heap, ptr, badFree, transfer, result>>

TransferEnds ==
  /\ pc = "transfer"
  /\ arrived = answer.pieces
  /\ response' = memory
  /\ pc' = "cleanup"
  /\ UNCHANGED <<next, heap, ptr, badFree, answer, arrived, memory, performs,
                 iRet, result>>

Cleanup ==
  /\ pc = "cleanup"
  /\ Release(ToSet(SetupOrder), ToSet(SetupOrder))
  /\ pc' = IF iRet = "ok" THEN "parse" ELSE "ended"
  /\ UNCHANGED <<next, iRet, transfer, result>>

-----------------------------------------------------------------------------
(* parseRegisterRsp *)

\* The text parses only if it is the whole document.
Whole == [i \in 1 .. answer.pieces |-> i]
Found(field) ==
  CASE field = "json"   -> "json" \in answer.doc.has /\ response = Whole
    [] field = "status" -> answer.doc.status # NULL
    [] OTHER            -> field \in answer.doc.has

\* Faulty: the parsing goes on after the last member.
ParseFieldOverruns ==
  LET field == AnswerFields[next]  IN
  /\ pc = "parse"
  /\ Found(field)
  /\ IF field = "json" THEN Alloc("answer") ELSE UNCHANGED <<heap, ptr>>
  /\ status' = IF field = "status" THEN answer.doc.status ELSE status
  /\ filled' = filled \cup ({field} \cap {"deviceId", "secret"})
  /\ IF field = "status" /\ status' # Success
     THEN pc' = "parsed" /\ next' = 1
     ELSE next' = next + 1 /\ UNCHANGED pc
  /\ UNCHANGED <<badFree, iRet, transfer>>

\* One lookup.  A status other than 10000 ends the parsing but is no error.
ParseField ==
  LET field == AnswerFields[next]  IN
  /\ pc = "parse"
  /\ Found(field)
  /\ IF field = "json" THEN Alloc("answer") ELSE UNCHANGED <<heap, ptr>>
  /\ status' = IF field = "status" THEN answer.doc.status ELSE status
  /\ filled' = filled \cup ({field} \cap {"deviceId", "secret"})
  /\ IF next = Len(AnswerFields) \/ (field = "status" /\ status' # Success)
     THEN pc' = "parsed" /\ next' = 1
     ELSE next' = next + 1 /\ UNCHANGED pc
  /\ UNCHANGED <<badFree, iRet, transfer>>
\* Faulty: a missing member ends the parsing without an error.
ParseFailsUnnoticed ==
  /\ pc = "parse"
  /\ ~ Found(AnswerFields[next])
  /\ pc' = "parsed" /\ next' = 1
  /\ UNCHANGED <<heap, ptr, badFree, iRet, transfer, result>>

ParseFails ==
  /\ pc = "parse"
  /\ ~ Found(AnswerFields[next])
  /\ iRet' = "err"
  /\ pc' = "parsed" /\ next' = 1
  /\ UNCHANGED <<heap, ptr, badFree, transfer, result>>

\* cJSON_Parse may also run out of memory, and then leaves nothing behind.
ParseNoMemory ==
  /\ pc = "parse" /\ next = 1
  /\ iRet' = "err"
  /\ pc' = "parsed"
  /\ UNCHANGED <<next, heap, ptr, badFree, transfer, result>>

Parsed ==
  /\ pc = "parsed"
  /\ Release({"answer"}, {"answer"})
  /\ pc' = "ended"
  /\ UNCHANGED <<next, iRet, transfer, result>>

-----------------------------------------------------------------------------

Program ==
  \/ AddCommon \/ CommonFails \/ AddRegister \/ AddRegisterFails \/ RegisterFailed
  \/ PrintJson \/ Built \/ Setup \/ SetupFails \/ Perform \/ TransferFails
  \/ TransferEnds \/ Cleanup \/ ParseField \/ ParseFails \/ ParseNoMemory \/ Parsed

Next == Program \/ responseCallback

Spec == Init /\ [][Next]_vars

\* The program keeps running, and libcurl's timeout ends a transfer that does
\* not end; nothing is asked of the server.
FairSpec == Spec /\ WF_vars(Program)

-----------------------------------------------------------------------------
(* Properties *)

\* Types; a member that is looked up is one of the answer's.
TypeOK ==
  /\ pc \in {"common", "register", "registerFailed", "print", "built", "setup",
             "perform", "transfer", "cleanup", "parse", "parsed", "ended"}
  /\ next \in 1 .. Len(AnswerFields)
  /\ heap \subseteq Resource /\ ptr \subseteq Resource
  /\ arrived \in 0 .. answer.pieces
  /\ performs \in Nat
  /\ iRet \in {"ok", "err"}
  /\ filled \subseteq {"deviceId", "secret"}

\* Whatever fails and wherever, what was allocated is freed when test01
\* returns, and until then something points to it.
NoLeak ==
  /\ heap \subseteq ptr
  /\ pc = "ended" => heap = {}

\* Nothing is freed twice, although createCommonReqJsonVal and both its
\* callers delete the tree when a member cannot be added.
FreedOnce == ~ badFree

\* The parser is given the whole answer, its pieces in order: an answer that
\* was cut off by an error or a timeout is not parsed.
WholeAnswer == pc = "parse" => response = Whole

\* test01 prints success for a status of 10000 only with both the deviceId and
\* the secret in stRegInfo, and for another status with neither.
InfoComplete ==
  pc = "ended" /\ iRet = "ok" =>
    filled = IF status = Success THEN {"deviceId", "secret"} ELSE {}

\* test01 returns, even if the server never answers.
Ends == <>(pc = "ended")

\* "The number of retries of the request is 3": a request that fails has been
\* sent four times.
FailsAfterRetries ==
  pc = "cleanup" /\ iRet = "err" /\ performs > 0 => performs = 4

=============================================================================
