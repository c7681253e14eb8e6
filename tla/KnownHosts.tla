----------------------------- MODULE KnownHosts -----------------------------
(***************************************************************************)
(* The host keys the platform trusts: one known_hosts file in the          *)
(* workspace, read by every worker and changed by the requests of two      *)
(* screens.  Accepting scans the host, shows what it offered, and on the   *)
(* second request scans it again and appends; forgetting reads the file,   *)
(* drops the host's lines and writes the rest back.  Nothing locks the     *)
(* file, several web processes serve requests, and one may die at any      *)
(* step.  A host may offer other keys at each scan.  The file lies in the  *)
(* workspace, so the file explorer can delete it, rename it away and       *)
(* rename another file to its name.                                        *)
(*                                                                         *)
(* A line is a host (an address and a port) and a key.  The order of lines *)
(* and their repetition are left out: trust and forget look at each line   *)
(* by itself.                                                              *)
(***************************************************************************)
EXTENDS FiniteSets

CONSTANTS
    Hosts,        \* addresses and ports
    Keys,         \* public keys hosts may offer
    Unreadable,   \* keys ssh-keygen cannot describe
    ByHand,       \* lines of the text files that may be renamed to known_hosts
    Requests,     \* requests the web processes serve at the same time
    NoHost        \* what a request that is not being served is about

ASSUME KeysAssumption    == Unreadable \subseteq Keys
ASSUME NoHostAssumption  == NoHost \notin Hosts
ASSUME ByHandAssumption  == ByHand \subseteq [host : Hosts, key : Keys]

VARIABLES
    file,      \* the lines of known_hosts
    pc,        \* pc[r]       where request r is
    host,      \* host[r]     the address of the server it is about
    shown,     \* shown[r]    lines whose fingerprints the page shows
    keys,      \* keys[r]     lines scanned when the person accepted
    view,      \* view[r]     the content of the file it has read
    trail,     \* lines the audit trail knows as accepted
    approved,  \* history: lines a page showed before its reader accepted, of hosts not in unseen
    unseen,    \* history: hosts that offered, on acceptance, what no page had shown
    placed,    \* history: lines that came with a file renamed to known_hosts
    standing,  \* history: lines accepted and not forgotten since
    stale,     \* history: a request changed the file after its reading was outdated
    died       \* history: the steps at which requests died with work half done

requestVars == <<pc, host, shown, keys, view>>
histVars    == <<approved, unseen, placed, standing, stale, died>>
vars == <<file, pc, host, shown, keys, view, trail, approved, unseen, placed,
          standing, stale, died>>

Line == [host : Hosts, key : Keys]

Of(lines, h) == {l \in lines : l.host = h}

\* The lines a scan returns of the keys a host offers at that moment: those
\* ssh-keygen can put a fingerprint to.
Scanned(h, offer) == [host : {h}, key : offer \ Unreadable]

Init ==
    /\ file = {}
    /\ pc    = [r \in Requests |-> "idle"]
    /\ host  = [r \in Requests |-> NoHost]
    /\ shown = [r \in Requests |-> {}]
    /\ keys  = [r \in Requests |-> {}]
    /\ view  = [r \in Requests |-> {}]
    /\ trail = {}
    /\ approved = {} /\ unseen = {} /\ placed = {} /\ standing = {}
    /\ stale = FALSE /\ died = {}

\* Another request is between emptying the file and filling it again.
BeingRewritten == \E q \in Requests : pc[q] = "truncated"

GoTo(r, step) == pc' = [pc EXCEPT ![r] = step]

Done(r) ==
    /\ pc'    = [pc EXCEPT ![r] = "idle"]
    /\ host'  = [host EXCEPT ![r] = NoHost]
    /\ shown' = [shown EXCEPT ![r] = {}]
    /\ keys'  = [keys EXCEPT ![r] = {}]
    /\ view'  = [view EXCEPT ![r] = {}]

----------------------------------------------------------------------------
(* server_trust *)

\* The page: scan raises when the host offers no key at all, and nothing is shown.
ShowKeysThen(r, h, offer, step) ==
    /\ pc[r] = "idle"
    /\ offer # {}
    /\ host'  = [host EXCEPT ![r] = h]
    /\ shown' = [shown EXCEPT ![r] = Scanned(h, offer)]
    /\ GoTo(r, step)
    /\ UNCHANGED <<file, keys, view, trail, histVars>>

\* Mutant: the page itself goes on to accept, as ssh does on first use.
ShowKeysAndAccept(r, h, offer) ==
    /\ pc[r] = "idle"
    /\ offer # {}
    /\ host' = [host EXCEPT ![r] = h]
    /\ keys' = [keys EXCEPT ![r] = Scanned(h, offer)]
    /\ GoTo(r, "scanned")
    /\ UNCHANGED <<file, shown, view, trail, histVars>>

ShowKeys(r, h, offer) == ShowKeysThen(r, h, offer, "shown")

\* The person never answers.
Abandon(r) ==
    /\ pc[r] = "shown"
    /\ Done(r)
    /\ UNCHANGED <<file, trail, histVars>>

\* The person accepts: the host is scanned again, and what it offers now is
\* what will be written.  Nothing asks whether a page was shown before.
Accept(r, h, offer) ==
    /\ \/ pc[r] = "idle"
       \/ pc[r] = "shown" /\ host[r] = h
    /\ offer # {}
    /\ host' = [host EXCEPT ![r] = h]
    /\ keys' = [keys EXCEPT ![r] = Scanned(h, offer)]
    /\ unseen' = unseen \cup (IF Scanned(h, offer) \subseteq shown[r] THEN {} ELSE {h})
    /\ approved' = {l \in approved \cup shown[r] : l.host \notin unseen'}
    /\ GoTo(r, "scanned")
    /\ UNCHANGED <<file, shown, view, trail, placed, standing, stale, died>>

\* The host offers nothing any more, or cannot be reached: back to its page.
ScanFails(r) ==
    /\ pc[r] = "shown"
    /\ Done(r)
    /\ UNCHANGED <<file, trail, histVars>>

\* trust: which of the keys are on file already ...
ReadExisting(r) ==
    /\ pc[r] = "scanned"
    /\ view' = [view EXCEPT ![r] = file]
    /\ GoTo(r, "existing")
    /\ UNCHANGED <<file, host, shown, keys, trail, histVars>>

\* ... and the others are appended, in one write.
AppendTo(r, base) ==
    /\ pc[r] = "existing"
    /\ file' = base \cup (keys[r] \ view[r])
    /\ standing' = standing \cup keys[r]
    /\ stale' = (stale \/ BeingRewritten \/ ~(view[r] \subseteq file))
    /\ GoTo(r, "appended")
    /\ UNCHANGED <<host, shown, keys, view, trail, approved, unseen, placed, died>>

\* Mutant: the file is rewritten from what was read instead of appended to.
RewriteWhatWasRead(r) == AppendTo(r, view[r])

AppendMissing(r) == AppendTo(r, file)

\* Mutant: the event names the fingerprints of the page instead of those written.
RecordWhatWasShown(r) ==
    /\ pc[r] = "appended"
    /\ trail' = trail \cup shown[r]
    /\ Done(r)
    /\ UNCHANGED <<file, histVars>>

RecordTrust(r) ==
    /\ pc[r] = "appended"
    /\ trail' = trail \cup keys[r]
    /\ Done(r)
    /\ UNCHANGED <<file, histVars>>

----------------------------------------------------------------------------
(* server_forget *)

ReadForForget(r, h) ==
    /\ pc[r] = "idle"
    /\ host' = [host EXCEPT ![r] = h]
    /\ view' = [view EXCEPT ![r] = file]
    /\ GoTo(r, "forgetting")
    /\ UNCHANGED <<file, shown, keys, trail, histVars>>

\* write_text opens the file for writing, which empties it ...
Truncate(r) ==
    /\ pc[r] = "forgetting"
    /\ file' = {}
    /\ stale' = (stale \/ BeingRewritten \/ view[r] # file)
    /\ GoTo(r, "truncated")
    /\ UNCHANGED <<host, shown, keys, view, trail, approved, unseen, placed,
                   standing, died>>

Kept(r) == view[r] \ Of(view[r], host[r])

\* ... and what is kept is written from its beginning, over whatever another
\* request has put there since: of that, the end may stick out, and all of it
\* stays when there is nothing to write.
WriteBack(r) ==
    /\ pc[r] = "truncated"
    /\ \E rest \in SUBSET file :
          /\ Kept(r) = {} => rest = file
          /\ file' = Kept(r) \cup rest
    /\ standing' = standing \ Of(standing, host[r])
    /\ Done(r)
    /\ UNCHANGED <<trail, approved, unseen, placed, stale, died>>

\* The file it opened has been taken from its place: what it writes is lost.
WriteAway(r) ==
    /\ pc[r] = "unlinked"
    /\ Done(r)
    /\ UNCHANGED <<file, trail, histVars>>

----------------------------------------------------------------------------
(* The file explorer.  It opens no file without an extension, but deletes and *)
(* renames any: the file goes, and a text file may take its name.             *)

Replace(lines) ==
    /\ file' = lines
    /\ standing' = lines
    /\ placed' = placed \cup lines
    /\ pc' = [r \in Requests |-> IF pc[r] = "truncated" THEN "unlinked" ELSE pc[r]]
    /\ UNCHANGED <<host, shown, keys, view, trail, approved, unseen, stale, died>>

----------------------------------------------------------------------------

\* The process dies, or the insert of the event raises, for an X-Request-ID that does
\* not fit its column.
Dies(r) ==
    /\ pc[r] \notin {"idle", "shown"}
    /\ died' = died \cup ({pc[r]} \cap {"appended", "truncated"})
    /\ Done(r)
    /\ UNCHANGED <<file, trail, approved, unseen, placed, standing, stale>>

Serving(r) ==
    \/ \E h \in Hosts, offer \in SUBSET Keys : ShowKeys(r, h, offer)
    \/ \E h \in Hosts, offer \in SUBSET Keys : Accept(r, h, offer)
    \/ \E h \in Hosts : ReadForForget(r, h)
    \/ Abandon(r) \/ ScanFails(r)
    \/ ReadExisting(r) \/ AppendMissing(r) \/ RecordTrust(r)
    \/ Truncate(r) \/ WriteBack(r) \/ WriteAway(r)
    \/ Dies(r)

Next ==
    \/ \E r \in Requests : Serving(r)
    \/ \E lines \in SUBSET ByHand : Replace(lines)

Spec == Init /\ [][Next]_vars

----------------------------------------------------------------------------
(* Properties *)

Step == {"idle", "shown", "scanned", "existing", "appended", "forgetting", "truncated",
         "unlinked"}

TypeOK ==
    /\ file \subseteq Line
    /\ pc    \in [Requests -> Step]
    /\ host  \in [Requests -> Hosts \cup {NoHost}]
    /\ \A r \in Requests : pc[r] = "idle" <=> host[r] = NoHost
    /\ shown \in [Requests -> SUBSET Line]
    /\ keys  \in [Requests -> SUBSET Line]
    /\ view  \in [Requests -> SUBSET Line]
    /\ trail \subseteq Line
    /\ approved \subseteq Line /\ unseen \subseteq Hosts
    /\ placed \subseteq Line /\ standing \subseteq Line
    /\ stale \in BOOLEAN /\ died \subseteq Step

Quiet == \A r \in Requests : pc[r] \in {"idle", "shown"}

\* "The fingerprint is fetched, shown to a person, and only written ... when they
\* accept it": whatever requests overlap and wherever they die, a line is on file
\* because a page showed it to somebody who accepted, or came with a file put in
\* place by hand.  Only where a host once offered, on acceptance, a key its page had
\* not shown, or was accepted without a page, is the written line the second scan's.
KeysWereShown ==
    \A l \in file : l \in approved \cup placed \/ l.host \in unseen

\* trust and forget do exactly what they say, to the named host and to no other:
\* the file holds what was accepted, or put there by hand, and not forgotten since,
\* however many accept at the same time.  Only forgetting is in the way: it must not write back what it
\* read before the file changed, nor die between emptying and filling it.
FileIsAsDecided ==
    ~stale /\ "truncated" \notin died /\ ~BeingRewritten => file = standing

\* "So trust is explicit and it is recorded": when no request is being served,
\* every key on file is one the audit trail knows of, however requests overlapped,
\* unless one ended between writing the key and recording it, or the key came with a
\* file renamed in the explorer, whose event names the file alone.
TrustIsRecorded == Quiet /\ "appended" \notin died => file \subseteq trail \cup placed
=============================================================================
