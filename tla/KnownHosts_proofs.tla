-------------------------- MODULE KnownHosts_proofs --------------------------
(***************************************************************************)
(* What holds of KnownHosts for every set of hosts, keys and requests.     *)
(***************************************************************************)
EXTENDS KnownHosts, TLAPS

LEMMA ScannedType ==
  ASSUME NEW h \in Hosts, NEW offer \in SUBSET Keys
  PROVE  Scanned(h, offer) \subseteq Line
  BY DEF Scanned, Line

LEMMA TypeStep == TypeOK /\ [Next]_vars => TypeOK'
<1> SUFFICES ASSUME TypeOK, [Next]_vars PROVE TypeOK'
  OBVIOUS
<1> USE KeysAssumption, NoHostAssumption, ByHandAssumption
        DEF TypeOK, Line, Step, requestVars, histVars, GoTo
<1>1. ASSUME NEW r \in Requests, NEW h \in Hosts,
            NEW offer \in SUBSET Keys, ShowKeys(r, h, offer)
     PROVE  TypeOK'
  <2>1. Scanned(h, offer) \subseteq Line
    BY ScannedType
  <2>. QED
    BY <1>1, <2>1 DEF ShowKeys, ShowKeysThen
<1>2. ASSUME NEW r \in Requests, Abandon(r) PROVE TypeOK'
  BY <1>2 DEF Abandon, Done
<1>3. ASSUME NEW r \in Requests, NEW h \in Hosts,
            NEW offer \in SUBSET Keys, Accept(r, h, offer)
     PROVE  TypeOK'
  <2>1. Scanned(h, offer) \subseteq Line
    BY ScannedType
  <2>. QED
    BY <1>3, <2>1 DEF Accept
<1>4. ASSUME NEW r \in Requests, ScanFails(r) PROVE TypeOK'
  BY <1>4 DEF ScanFails, Done
<1>5. ASSUME NEW r \in Requests, ReadExisting(r) PROVE TypeOK'
  BY <1>5 DEF ReadExisting
<1>6. ASSUME NEW r \in Requests, AppendMissing(r) PROVE TypeOK'
  BY <1>6 DEF AppendMissing, AppendTo
<1>7. ASSUME NEW r \in Requests, RecordTrust(r) PROVE TypeOK'
  BY <1>7 DEF RecordTrust, Done
<1>8. ASSUME NEW r \in Requests, NEW h \in Hosts, ReadForForget(r, h)
     PROVE  TypeOK'
  BY <1>8 DEF ReadForForget
<1>9. ASSUME NEW r \in Requests, Truncate(r) PROVE TypeOK'
  BY <1>9 DEF Truncate
<1>10. ASSUME NEW r \in Requests, WriteBack(r) PROVE TypeOK'
  <2>1. Kept(r) \subseteq Line
    BY <1>10 DEF WriteBack, Kept
  <2>2. file' \subseteq Line /\ standing' \subseteq Line
    BY <1>10, <2>1 DEF WriteBack, Of
  <2>3. UNCHANGED <<trail, approved, unseen, placed, stale, died>>
    BY <1>10 DEF WriteBack
  <2>4. Done(r)
    BY <1>10 DEF WriteBack
  <2>. QED
    BY <2>2, <2>3, <2>4 DEF Done
<1>11. ASSUME NEW r \in Requests, Dies(r) PROVE TypeOK'
  BY <1>11 DEF Dies, Done
<1>12. ASSUME NEW r \in Requests, WriteAway(r) PROVE TypeOK'
  BY <1>12 DEF WriteAway, Done
<1>13. ASSUME NEW lines \in SUBSET ByHand, Replace(lines) PROVE TypeOK'
  BY <1>13 DEF Replace
<1>14. CASE UNCHANGED vars
  BY <1>14 DEF vars
<1>. QED
  BY <1>1, <1>2, <1>3, <1>4, <1>5, <1>6, <1>7,
     <1>8, <1>9, <1>10, <1>11, <1>12, <1>13, <1>14
     DEF Next, Serving

\* Every variable keeps its type.
THEOREM TypesAreCorrect == Spec => []TypeOK
<1>1. Init => TypeOK
  BY DEF Init, TypeOK, Step, Line
<1>. QED
  BY <1>1, TypeStep, PTL DEF Spec

----------------------------------------------------------------------------
(* Where the lines come from.  What a request has read or is about to write  *)
(* has a reason as well, so no interleaving and no death brings in another.  *)

HaveReason(lines) ==
    \A l \in lines : l \in approved \cup placed \/ l.host \in unseen

AcceptedInv ==
    /\ HaveReason(file)
    /\ \A r \in Requests : HaveReason(view[r]) /\ HaveReason(keys[r])

LEMMA AcceptedStep == TypeOK /\ AcceptedInv /\ [Next]_vars => AcceptedInv'
<1> SUFFICES ASSUME TypeOK, AcceptedInv, [Next]_vars PROVE AcceptedInv'
  OBVIOUS
<1> USE DEF TypeOK, AcceptedInv, HaveReason, requestVars, histVars, GoTo
<1>1. ASSUME NEW r \in Requests, NEW h \in Hosts,
            NEW offer \in SUBSET Keys, ShowKeys(r, h, offer)
     PROVE  AcceptedInv'
  BY <1>1 DEF ShowKeys, ShowKeysThen, Scanned
<1>2. ASSUME NEW r \in Requests, Abandon(r) PROVE AcceptedInv'
  BY <1>2 DEF Abandon, Done
<1>3. ASSUME NEW r \in Requests, NEW h \in Hosts,
            NEW offer \in SUBSET Keys, Accept(r, h, offer)
     PROVE  AcceptedInv'
  BY <1>3 DEF Accept, Scanned
<1>4. ASSUME NEW r \in Requests, ScanFails(r) PROVE AcceptedInv'
  BY <1>4 DEF ScanFails, Done
<1>5. ASSUME NEW r \in Requests, ReadExisting(r) PROVE AcceptedInv'
  BY <1>5 DEF ReadExisting
<1>6. ASSUME NEW r \in Requests, AppendMissing(r) PROVE AcceptedInv'
  BY <1>6 DEF AppendMissing, AppendTo
<1>7. ASSUME NEW r \in Requests, RecordTrust(r) PROVE AcceptedInv'
  BY <1>7 DEF RecordTrust, Done
<1>8. ASSUME NEW r \in Requests, NEW h \in Hosts, ReadForForget(r, h)
     PROVE  AcceptedInv'
  BY <1>8 DEF ReadForForget
<1>9. ASSUME NEW r \in Requests, Truncate(r) PROVE AcceptedInv'
  BY <1>9 DEF Truncate
<1>10. ASSUME NEW r \in Requests, WriteBack(r) PROVE AcceptedInv'
  BY <1>10 DEF WriteBack, Kept, Of, Done
<1>11. ASSUME NEW r \in Requests, Dies(r) PROVE AcceptedInv'
  BY <1>11 DEF Dies, Done
<1>12. ASSUME NEW r \in Requests, WriteAway(r) PROVE AcceptedInv'
  BY <1>12 DEF WriteAway, Done
<1>13. ASSUME NEW lines \in SUBSET ByHand, Replace(lines) PROVE AcceptedInv'
  BY <1>13 DEF Replace
<1>14. CASE UNCHANGED vars
  BY <1>14 DEF vars
<1>. QED
  BY <1>1, <1>2, <1>3, <1>4, <1>5, <1>6, <1>7,
     <1>8, <1>9, <1>10, <1>11, <1>12, <1>13, <1>14
     DEF Next, Serving

\* A line is on file because a page showed it to somebody who accepted, or because
\* its host once offered, on acceptance, a key no page had shown, or by hand.
THEOREM WhatIsTrustedWasShown == Spec => []KeysWereShown
<1>1. Init => AcceptedInv
  BY DEF Init, AcceptedInv, HaveReason
<1>2. AcceptedInv => KeysWereShown
  BY DEF AcceptedInv, HaveReason, KeysWereShown
<1>. QED
  BY <1>1, <1>2, AcceptedStep, TypesAreCorrect, PTL DEF Spec

----------------------------------------------------------------------------
(* The file is what people decided.  While a request is rewriting it, what   *)
(* the file should hold is what that one request has read.                   *)

Sound == ~stale /\ "truncated" \notin died

DecidedInv ==
    Sound =>
        /\ ~BeingRewritten => file = standing
        /\ \A r \in Requests : pc[r] = "truncated" => file = {} /\ view[r] = standing
        /\ \A q, r \in Requests : pc[q] = "truncated" /\ pc[r] = "truncated" => q = r

LEMMA DecidedStep == TypeOK /\ DecidedInv /\ [Next]_vars => DecidedInv'
<1> SUFFICES ASSUME TypeOK, DecidedInv, [Next]_vars PROVE DecidedInv'
  OBVIOUS
<1> USE DEF TypeOK, DecidedInv, Sound, BeingRewritten, requestVars, histVars,
        GoTo
<1>1. ASSUME NEW r \in Requests, NEW h \in Hosts,
            NEW offer \in SUBSET Keys, ShowKeys(r, h, offer)
     PROVE  DecidedInv'
  BY <1>1 DEF ShowKeys, ShowKeysThen, Scanned
<1>2. ASSUME NEW r \in Requests, Abandon(r) PROVE DecidedInv'
  BY <1>2 DEF Abandon, Done
<1>3. ASSUME NEW r \in Requests, NEW h \in Hosts,
            NEW offer \in SUBSET Keys, Accept(r, h, offer)
     PROVE  DecidedInv'
  BY <1>3 DEF Accept, Scanned
<1>4. ASSUME NEW r \in Requests, ScanFails(r) PROVE DecidedInv'
  BY <1>4 DEF ScanFails, Done
<1>5. ASSUME NEW r \in Requests, ReadExisting(r) PROVE DecidedInv'
  BY <1>5 DEF ReadExisting
<1>6. ASSUME NEW r \in Requests, AppendMissing(r) PROVE DecidedInv'
  BY <1>6 DEF AppendMissing, AppendTo
<1>7. ASSUME NEW r \in Requests, RecordTrust(r) PROVE DecidedInv'
  BY <1>7 DEF RecordTrust, Done
<1>8. ASSUME NEW r \in Requests, NEW h \in Hosts, ReadForForget(r, h)
     PROVE  DecidedInv'
  BY <1>8 DEF ReadForForget
<1>9. ASSUME NEW r \in Requests, Truncate(r) PROVE DecidedInv'
  BY <1>9 DEF Truncate
<1>10. ASSUME NEW r \in Requests, WriteBack(r) PROVE DecidedInv'
  BY <1>10 DEF WriteBack, Kept, Of, Done
<1>11. ASSUME NEW r \in Requests, Dies(r) PROVE DecidedInv'
  BY <1>11 DEF Dies, Done
<1>12. ASSUME NEW r \in Requests, WriteAway(r) PROVE DecidedInv'
  BY <1>12 DEF WriteAway, Done
<1>13. ASSUME NEW lines \in SUBSET ByHand, Replace(lines) PROVE DecidedInv'
  BY <1>13 DEF Replace
<1>14. CASE UNCHANGED vars
  BY <1>14 DEF vars
<1>. QED
  BY <1>1, <1>2, <1>3, <1>4, <1>5, <1>6, <1>7,
     <1>8, <1>9, <1>10, <1>11, <1>12, <1>13, <1>14
     DEF Next, Serving

\* trust and forget do what they say, as long as no forget writes back a reading
\* the file has moved on from and none dies half way.
THEOREM FileFollowsDecisions == Spec => []FileIsAsDecided
<1>1. Init => DecidedInv
  BY DEF Init, DecidedInv, BeingRewritten
<1>2. DecidedInv => FileIsAsDecided
  BY DEF DecidedInv, Sound, FileIsAsDecided
<1>. QED
  BY <1>1, <1>2, DecidedStep, TypesAreCorrect, PTL DEF Spec

----------------------------------------------------------------------------
(* The trail.  A line is on it, or the request that appended it has yet to   *)
(* record it, or it came by hand; what others have read of the file is no    *)
(* exception.                                                                *)

ToRecord == UNION {keys[r] : r \in {q \in Requests : pc[q] = "appended"}}

RecordedInv ==
    "appended" \notin died =>
        /\ file \subseteq trail \cup placed \cup ToRecord
        /\ \A r \in Requests : view[r] \subseteq trail \cup placed \cup ToRecord

LEMMA RecordedStep == TypeOK /\ RecordedInv /\ [Next]_vars => RecordedInv'
<1> SUFFICES ASSUME TypeOK, RecordedInv, [Next]_vars PROVE RecordedInv'
  OBVIOUS
<1> USE DEF TypeOK, RecordedInv, ToRecord, requestVars, histVars, GoTo
<1>1. ASSUME NEW r \in Requests, NEW h \in Hosts,
            NEW offer \in SUBSET Keys, ShowKeys(r, h, offer)
     PROVE  RecordedInv'
  BY <1>1 DEF ShowKeys, ShowKeysThen, Scanned
<1>2. ASSUME NEW r \in Requests, Abandon(r) PROVE RecordedInv'
  BY <1>2 DEF Abandon, Done
<1>3. ASSUME NEW r \in Requests, NEW h \in Hosts,
            NEW offer \in SUBSET Keys, Accept(r, h, offer)
     PROVE  RecordedInv'
  BY <1>3 DEF Accept, Scanned
<1>4. ASSUME NEW r \in Requests, ScanFails(r) PROVE RecordedInv'
  BY <1>4 DEF ScanFails, Done
<1>5. ASSUME NEW r \in Requests, ReadExisting(r) PROVE RecordedInv'
  BY <1>5 DEF ReadExisting
<1>6. ASSUME NEW r \in Requests, AppendMissing(r) PROVE RecordedInv'
  BY <1>6 DEF AppendMissing, AppendTo
<1>7. ASSUME NEW r \in Requests, RecordTrust(r) PROVE RecordedInv'
  BY <1>7 DEF RecordTrust, Done
<1>8. ASSUME NEW r \in Requests, NEW h \in Hosts, ReadForForget(r, h)
     PROVE  RecordedInv'
  BY <1>8 DEF ReadForForget
<1>9. ASSUME NEW r \in Requests, Truncate(r) PROVE RecordedInv'
  BY <1>9 DEF Truncate
<1>10. ASSUME NEW r \in Requests, WriteBack(r) PROVE RecordedInv'
  BY <1>10 DEF WriteBack, Kept, Of, Done
<1>11. ASSUME NEW r \in Requests, Dies(r) PROVE RecordedInv'
  BY <1>11 DEF Dies, Done
<1>12. ASSUME NEW r \in Requests, WriteAway(r) PROVE RecordedInv'
  BY <1>12 DEF WriteAway, Done
<1>13. ASSUME NEW lines \in SUBSET ByHand, Replace(lines) PROVE RecordedInv'
  BY <1>13 DEF Replace
<1>14. CASE UNCHANGED vars
  BY <1>14 DEF vars
<1>. QED
  BY <1>1, <1>2, <1>3, <1>4, <1>5, <1>6, <1>7,
     <1>8, <1>9, <1>10, <1>11, <1>12, <1>13, <1>14
     DEF Next, Serving

\* Every key on file is on the audit trail whenever no request is being served,
\* unless a process died between writing a key and recording it.
THEOREM TrustedIsRecorded == Spec => []TrustIsRecorded
<1>1. Init => RecordedInv
  BY DEF Init, RecordedInv
<1>2. RecordedInv => TrustIsRecorded
  BY DEF RecordedInv, TrustIsRecorded, ToRecord, Quiet
<1>. QED
  BY <1>1, <1>2, RecordedStep, TypesAreCorrect, PTL DEF Spec
=============================================================================
