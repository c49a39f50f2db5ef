------------------------ MODULE RegisterClientProofs ------------------------
(***************************************************************************)
(* Proofs about RegisterClient, for answers in any number of pieces.       *)
(***************************************************************************)
EXTENDS RegisterClient, TLAPS

Building  == {"common", "register", "registerFailed", "print"}
Posting   == {"setup", "perform", "transfer", "cleanup"}
Returning == {"parsed", "ended"}
Points    == Building \cup {"built"} \cup Posting \cup {"parse"} \cup Returning

\* The place in each loop, and what can be allocated where: a function that
\* fails leaves nothing of its own behind for the next.
HeapInv ==
  /\ pc \in Points
  /\ next \in 1 .. 7
  /\ pc = "common" => next <= 5
  /\ pc = "register" => next <= 2
  /\ pc = "setup" => next <= 3
  /\ pc \notin {"common", "register", "setup", "parse"} => next = 1
  /\ ptr = heap /\ ~ badFree
  /\ pc \in Building => heap \subseteq {"request"}
  /\ pc = "built"    => heap \subseteq {"request", "printed"}
  /\ pc \in Posting  => heap \subseteq {"chunk", "curl", "headers"}
  /\ pc \in {"parse", "parsed"} => heap \subseteq {"answer"}
  /\ pc = "ended" => heap = {}

\* What has arrived is collected in order, and what is parsed is all of it.
AnswerInv ==
  /\ answer.pieces \in Nat
  /\ arrived \in 0 .. answer.pieces
  /\ memory = [i \in 1 .. arrived |-> i]
  /\ performs \in 0 .. 1
  /\ pc \in Building \cup {"built", "setup", "perform"} => performs = 0
  /\ iRet \in {"ok", "err"}
  /\ pc \in {"common", "register", "print", "setup", "perform", "transfer", "parse"}
       => iRet = "ok"
  /\ pc = "parse" \/ (pc = "cleanup" /\ iRet = "ok") => response = Whole

\* The members of stRegInfo are set one after the other, after the status.
InfoInv ==
  /\ filled \subseteq {"deviceId", "secret"}
  /\ pc \notin {"parse"} \cup Returning => filled = {}
  /\ pc = "parse" => filled = IF next = 7 THEN {"deviceId"} ELSE {}
  /\ pc = "parse" /\ next > 3 => status = Success
  /\ pc \in Returning /\ iRet = "ok" =>
       filled = IF status = Success THEN {"deviceId", "secret"} ELSE {}

ClientInv == HeapInv /\ AnswerInv /\ InfoInv

-----------------------------------------------------------------------------

LEMMA SetupFacts ==
  /\ Len(SetupOrder) = 3
  /\ \A i \in 1 .. 3 : SetupOrder[i] \in {"chunk", "curl", "headers"}
  /\ ToSet(SetupOrder) = {"chunk", "curl", "headers"}
<1>1. SetupOrder[1] = "chunk" /\ SetupOrder[2] = "curl" /\ SetupOrder[3] = "headers"
  BY DEF SetupOrder
<1>2. Len(SetupOrder) = 3 /\ DOMAIN SetupOrder = 1 .. 3
  BY DEF SetupOrder
<1> QED BY <1>1, <1>2 DEF ToSet

LEMMA FieldFacts ==
  /\ Len(CommonFields) = 5 /\ Len(RegisterFields) = 2 /\ Len(AnswerFields) = 7
  /\ AnswerFields[1] = "json" /\ AnswerFields[2] = "payload"
  /\ AnswerFields[3] = "status" /\ AnswerFields[4] = "msg"
  /\ AnswerFields[5] = "data" /\ AnswerFields[6] = "deviceId"
  /\ AnswerFields[7] = "secret"
BY DEF CommonFields, RegisterFields, AnswerFields

\* While the pointers are those to what is allocated, releasing through them
\* keeps it so and frees nothing twice.
LEMMA ReleaseFacts ==
  ASSUME ptr = heap, ~ badFree, NEW rs, Release(rs, rs)
  PROVE  heap' = heap \ rs /\ ptr' = heap' /\ ~ badFree'
<1>1. rs \cap ptr \subseteq heap /\ heap \ (rs \cap ptr) = heap \ rs
  OBVIOUS
<1> QED BY <1>1 DEF Release

LEMMA ClientInit == Init => ClientInv
<1> SUFFICES ASSUME Init PROVE ClientInv
  OBVIOUS
<1>1. HeapInv
  BY DEF Init, HeapInv, Points, Building, Posting, Returning
<1>2. AnswerInv
  <2>1. answer.pieces \in Nat
    BY ClientAssumption DEF Init
  <2>2. memory = [i \in 1 .. arrived |-> i]
    BY DEF Init
  <2> QED BY <2>1, <2>2 DEF Init, AnswerInv, Building
<1>3. InfoInv
  BY DEF Init, InfoInv, Returning
<1> QED BY <1>1, <1>2, <1>3 DEF ClientInv

LEMMA HeapStep ==
  ASSUME HeapInv, [Next]_vars
  PROVE  HeapInv'
<1> USE DEF HeapInv, Points, Building, Posting, Returning, transfer, result, Alloc, Release
<1>1. CASE AddCommon
  BY <1>1, FieldFacts DEF AddCommon
<1>2. CASE CommonFails
  <2>1. heap' = {} /\ ptr' = {} /\ ~ badFree'
    BY <1>2, ReleaseFacts DEF CommonFails
  <2> QED BY <1>2, <2>1 DEF CommonFails
<1>3. CASE AddRegister
  BY <1>3, FieldFacts DEF AddRegister
<1>4. CASE AddRegisterFails
  BY <1>4 DEF AddRegisterFails
<1>5. CASE RegisterFailed
  BY <1>5 DEF RegisterFailed
<1>6. CASE PrintJson
  BY <1>6 DEF PrintJson
<1>7. CASE Built
  <2>1. heap' = {} /\ ptr' = {} /\ ~ badFree'
    BY <1>7, ReleaseFacts DEF Built
  <2> QED BY <1>7, <2>1 DEF Built
<1>8. CASE Setup
  BY <1>8, SetupFacts DEF Setup
<1>9. CASE SetupFails
  BY <1>9 DEF SetupFails
<1>10. CASE Perform
  BY <1>10 DEF Perform
<1>11. CASE TransferFails
  BY <1>11 DEF TransferFails
<1>12. CASE TransferEnds
  BY <1>12 DEF TransferEnds
<1>13. CASE Cleanup
  BY <1>13, SetupFacts DEF Cleanup
<1>14. CASE ParseField
  <2>1. UNCHANGED badFree /\ ptr' = heap' /\ heap' \subseteq {"answer"}
    BY <1>14 DEF ParseField
  <2>2. \/ pc' = "parsed" /\ next' = 1
        \/ pc' = "parse" /\ next' = next + 1 /\ next < 7
    BY <1>14, FieldFacts DEF ParseField
  <2> QED BY <2>1, <2>2
<1>15. CASE ParseFails
  BY <1>15 DEF ParseFails
<1>16. CASE ParseNoMemory
  BY <1>16 DEF ParseNoMemory
<1>17. CASE Parsed
  BY <1>17 DEF Parsed
<1>18. CASE responseCallback
  BY <1>18 DEF responseCallback
<1>19. CASE UNCHANGED vars
  BY <1>19 DEF vars, transfer, result
<1> QED
  BY <1>1, <1>2, <1>3, <1>4, <1>5, <1>6, <1>7, <1>8, <1>9, <1>10, <1>11,
     <1>12, <1>13, <1>14, <1>15, <1>16, <1>17, <1>18, <1>19
     DEF Next, Program

LEMMA AnswerStep ==
  ASSUME HeapInv, AnswerInv, [Next]_vars
  PROVE  AnswerInv'
<1> USE DEF HeapInv, AnswerInv, Points, Building, Posting, Returning, transfer, result, Whole
<1>1. CASE AddCommon
  BY <1>1, FieldFacts DEF AddCommon
<1>2. CASE CommonFails
  BY <1>2 DEF CommonFails
<1>3. CASE AddRegister
  BY <1>3, FieldFacts DEF AddRegister
<1>4. CASE AddRegisterFails
  BY <1>4 DEF AddRegisterFails
<1>5. CASE RegisterFailed
  BY <1>5 DEF RegisterFailed
<1>6. CASE PrintJson
  BY <1>6 DEF PrintJson
<1>7. CASE Built
  BY <1>7 DEF Built
<1>8. CASE Setup
  BY <1>8 DEF Setup
<1>9. CASE SetupFails
  BY <1>9 DEF SetupFails
<1>10. CASE Perform
  BY <1>10 DEF Perform
<1>11. CASE TransferFails
  BY <1>11 DEF TransferFails
<1>12. CASE TransferEnds
  BY <1>12 DEF TransferEnds
<1>13. CASE Cleanup
  BY <1>13 DEF Cleanup
<1>14. CASE ParseField
  BY <1>14, FieldFacts DEF ParseField
<1>15. CASE ParseFails
  BY <1>15 DEF ParseFails
<1>16. CASE ParseNoMemory
  BY <1>16 DEF ParseNoMemory
<1>17. CASE Parsed
  BY <1>17 DEF Parsed
<1>18. CASE responseCallback
  BY <1>18 DEF responseCallback
<1>19. CASE UNCHANGED vars
  BY <1>19 DEF vars, transfer, result
<1> QED
  BY <1>1, <1>2, <1>3, <1>4, <1>5, <1>6, <1>7, <1>8, <1>9, <1>10, <1>11,
     <1>12, <1>13, <1>14, <1>15, <1>16, <1>17, <1>18, <1>19
     DEF Next, Program

LEMMA InfoStep ==
  ASSUME HeapInv, AnswerInv, InfoInv, [Next]_vars
  PROVE  InfoInv'
<1> USE DEF HeapInv, AnswerInv, InfoInv, Points, Building, Posting, Returning, transfer, result
<1>1. CASE AddCommon
  BY <1>1, FieldFacts DEF AddCommon
<1>2. CASE CommonFails
  BY <1>2 DEF CommonFails
<1>3. CASE AddRegister
  BY <1>3, FieldFacts DEF AddRegister
<1>4. CASE AddRegisterFails
  BY <1>4 DEF AddRegisterFails
<1>5. CASE RegisterFailed
  BY <1>5 DEF RegisterFailed
<1>6. CASE PrintJson
  BY <1>6 DEF PrintJson
<1>7. CASE Built
  BY <1>7 DEF Built
<1>8. CASE Setup
  BY <1>8 DEF Setup
<1>9. CASE SetupFails
  BY <1>9 DEF SetupFails
<1>10. CASE Perform
  BY <1>10 DEF Perform
<1>11. CASE TransferFails
  BY <1>11 DEF TransferFails
<1>12. CASE TransferEnds
  BY <1>12 DEF TransferEnds
<1>13. CASE Cleanup
  BY <1>13 DEF Cleanup
<1>14. CASE ParseField
  <2>1. CASE next \in {1, 2, 4, 5}
    <3>1. UNCHANGED <<status, filled, iRet>>
      BY <1>14, <2>1, FieldFacts DEF ParseField
    <3>2. pc' = "parse" /\ next' = next + 1
      BY <1>14, <2>1, FieldFacts DEF ParseField
    <3>3. /\ filled = {} /\ next' \in {2, 3, 5, 6} /\ pc' \notin Returning
          /\ next' > 3 => status = Success
      BY <1>14, <2>1, <3>2 DEF ParseField
    <3> QED BY <3>1, <3>2, <3>3
  <2>2. CASE next = 3
    <3>1. filled' = {}
      BY <1>14, <2>2, FieldFacts DEF ParseField
    <3>2. \/ pc' = "parsed" /\ status' # Success
          \/ pc' = "parse" /\ next' = 4 /\ status' = Success
      BY <1>14, <2>2, FieldFacts DEF ParseField
    <3> QED BY <3>1, <3>2
  <2>3. CASE next = 6
    <3>1. filled = {} /\ filled' = {"deviceId"}
      BY <1>14, <2>3, FieldFacts DEF ParseField
    <3>2. pc' = "parse" /\ next' = 7 /\ status' = Success
      BY <1>14, <2>3, FieldFacts DEF ParseField
    <3> QED BY <3>1, <3>2
  <2>4. CASE next = 7
    <3>1. filled = {"deviceId"} /\ filled' = {"deviceId", "secret"}
      BY <1>14, <2>4, FieldFacts DEF ParseField
    <3>2. pc' = "parsed" /\ status' = Success
      BY <1>14, <2>4, FieldFacts DEF ParseField
    <3> QED BY <3>1, <3>2
  <2> QED BY <2>1, <2>2, <2>3, <2>4
<1>15. CASE ParseFails
  BY <1>15, FieldFacts DEF ParseFails
<1>16. CASE ParseNoMemory
  BY <1>16 DEF ParseNoMemory
<1>17. CASE Parsed
  BY <1>17 DEF Parsed
<1>18. CASE responseCallback
  BY <1>18 DEF responseCallback
<1>19. CASE UNCHANGED vars
  BY <1>19 DEF vars, transfer, result
<1> QED
  BY <1>1, <1>2, <1>3, <1>4, <1>5, <1>6, <1>7, <1>8, <1>9, <1>10, <1>11,
     <1>12, <1>13, <1>14, <1>15, <1>16, <1>17, <1>18, <1>19
     DEF Next, Program

LEMMA ClientStep == ClientInv /\ [Next]_vars => ClientInv'
BY HeapStep, AnswerStep, InfoStep DEF ClientInv

LEMMA ClientInvariant == Spec => []ClientInv
BY ClientInit, ClientStep, PTL DEF Spec

-----------------------------------------------------------------------------

\* Types, for answers in any number of pieces.
THEOREM ClientTypes == Spec => []TypeOK
<1>1. ClientInv => TypeOK
  BY FieldFacts DEF ClientInv, HeapInv, AnswerInv, InfoInv, TypeOK, Resource,
         Points, Building, Posting, Returning
<1> QED BY <1>1, ClientInvariant, PTL

\* Wherever test01, postJsonReport or parseRegisterRsp fails, everything is
\* freed when it returns, and nothing becomes unreachable before.
THEOREM NothingLeaks == Spec => []NoLeak
<1>1. ClientInv => NoLeak
  BY DEF ClientInv, HeapInv, NoLeak
<1> QED BY <1>1, ClientInvariant, PTL

\* The three places that delete the request never free it twice, nor does any
\* other cleanup.
THEOREM NothingFreedTwice == Spec => []FreedOnce
<1>1. ClientInv => FreedOnce
  BY DEF ClientInv, HeapInv, FreedOnce
<1> QED BY <1>1, ClientInvariant, PTL

\* However many pieces libcurl hands to responseCallback, and whenever the
\* transfer fails, parseRegisterRsp sees the whole answer or none.
THEOREM OnlyWholeAnswers == Spec => []WholeAnswer
<1>1. ClientInv => WholeAnswer
  BY DEF ClientInv, AnswerInv, WholeAnswer
<1> QED BY <1>1, ClientInvariant, PTL

\* A success is reported with both members of stRegInfo or, for another
\* status, with neither.
THEOREM InfoIsComplete == Spec => []InfoComplete
<1>1. ClientInv => InfoComplete
  BY DEF ClientInv, InfoInv, InfoComplete, Returning
<1> QED BY <1>1, ClientInvariant, PTL
=============================================================================
