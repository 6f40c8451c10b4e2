----------------------------- MODULE ConfigMode -----------------------------
(***************************************************************************)
(* The badge in configuration mode and the page in the browser: one thread   *)
(* that serves one connection after the other, and a page that has several   *)
(* open.                                                                     *)
(***************************************************************************)
EXTENDS BadgePage

Init == ServerInit /\ PageInit

Handle ==
  \/ \E n \in 0..Len(WifiForm(client.net, client.pw)) : SaveWifi(n)
  \/ \E kind \in {"add", "delete"}, n \in 0..MaxChannels : ChangeChannels(kind, n)
  \/ \E n \in 0..Len(Multipart(client.picture)) : UploadBadge(n)
  \/ JustAnswer

ServerStep == Accept \/ AcceptGone(Waiting) \/ ReadLine \/ LineTimeout \/ Handle
Serve      == ServerStep /\ UNCHANGED pageVars
Tested     == (\E connected \in BOOLEAN : WifiTested(connected)) /\ UNCHANGED pageVars
Restart    == ServerReset /\ UNCHANGED pageVars

User ==
  \/ ClickScan \/ \E pw \in Passwords : ClickConnect(pw)
  \/ \E kind \in {"add", "delete"} : ClickChannel(kind)
  \/ \E i \in -1..(Len(Networks) - 1) : SelectNet(i)
  \/ \E picture \in Pictures : Upload(picture)
  \/ Reload

Callback ==
  \/ \E a \in answers : \/ OnScan(a) \/ OnConnect(a) \/ OnChannels(a) \/ OnUnreadable(a)
                        \/ OnChanged(a) \/ OnStatus(a) \/ OnUploaded(a) \/ Ignore(a)
  \/ \E r \in outstanding : OnFailure(r) \/ UploadFailed(r)

Next ==
  \/ Serve \/ Tested \/ Restart
  \/ User \/ Callback \/ Poll \/ OpenAhead
  \/ \E a \in answers : AnswerLost(a)

Spec == Init /\ [][Next]_vars

\* The loop of initialConfig runs on and the browser calls what it has to call.
\* That a network answers at all is not assumed.
FairSpec == Spec /\ WF_vars(Serve) /\ WF_vars(Callback)

-----------------------------------------------------------------------------
(* Correctness *)

Kinds   == Locking \cup {"status", "upload"}
Ids     == Nat \ {0}
TypeOK ==
  /\ \A i \in DOMAIN backlog : backlog[i] = NoClient \/ (backlog[i].id \in Ids /\ backlog[i].kind \in Kinds)
  /\ server \in {"idle", "line", "body", "wifiTest"}
  /\ client = NoClient => server \in {"idle", "line"}
  /\ server = "idle" => client = NoClient
  /\ answers \subseteq [id : Ids, kind : Kinds, ok : BOOLEAN, n : 0..(MaxChannels + Len(Networks))]
  /\ channels \in 0..MaxChannels /\ oddChannels \in 0..channels
  /\ locked \in BOOLEAN /\ statusDue \in BOOLEAN /\ lost \in BOOLEAN
  /\ scanRes \in [of : {"none", "networks", "channels"}, n : Nat]
  /\ options \in {0, Len(Networks)} /\ netSelect \in -1..(options - 1)
  /\ outstanding \subseteq [id : Ids, kind : Kinds]
  \* no two connections of the page are mixed up
  /\ \A r1, r2 \in outstanding : r1.id = r2.id => r1 = r2
  /\ \A a \in answers : a.id \notin {backlog[i].id : i \in DOMAIN backlog} \cup {client.id}

\* What changes the badge, or makes it scan, is asked for one at a time by the page
\* that is shown: of the requests the lock is for there is never more than one whose
\* callback this page waits for, and while there is one it is locked, whatever the
\* answers' order and whichever are lost.  Requests of a page loaded before have no
\* callback any more: the lock knows nothing of them, though the badge may still
\* serve one.
OneAtATime ==
  LET asked == {r \in outstanding : r.kind \in Locking}
  IN  Cardinality(asked) <= 1 /\ (asked # {} => locked)

\* The configuration that is tested is the one in the file, as the next start will
\* read it: what was typed has gone through jQuery's encoding, the badge's decoding
\* and encoding, and the decoding of the next start.  If the body came in whole it
\* is what the page posted; if not, it is a beginning of it.
ConfIsPosted ==
  /\ tested # NoTest =>
       GetKey(wifiConf, Ssid) = tested.net /\ GetKey(wifiConf, Pw) = tested.pw
  /\ server = "wifiTest" =>
       /\ tested.net = client.net
       /\ IsPrefix(tested.pw, client.pw)
       /\ faults = 0 => tested.pw = client.pw

\* badge.bmp is the picture that was uploaded, to the byte, however much of it looks
\* like the end of it; and if the body was not there yet when the handler read it,
\* it is a beginning of the picture and nothing else.
UploadExact ==
  /\ IsPrefix(bmp, uploaded.picture)
  /\ uploaded.whole => bmp = uploaded.picture

\* The page does not stay locked: it can be used again, unless the callback that
\* unlocks it is never called, of which there are three causes and no other: its
\* answer was lost, it is a list the page cannot parse, or the click threw before the
\* request was sent (lost).  This is so if no connection stays silent for ever and
\* every network tried does answer: for neither has the server a timeout.
Stuck == server = "wifiTest" \/ (server = "line" /\ client.kind = "silent")
PageUnlocks == []<>~Stuck => (locked ~> (~locked \/ lost))

-----------------------------------------------------------------------------
(* What the page says *)

\* "Error connecting to selected WiFi" (badge.js): the network that is tried is the
\* one the user has selected.
TriesSelected ==
  \A i \in DOMAIN backlog : backlog[i].kind = "wifi" => backlog[i].net = backlog[i].selected

\* "Successfully connected!  The configuration is saved and will be used"
\* (badge.js): what is saved is what was tested.
SavedAsTested ==
  \A a \in answers : a.kind = "wifi" /\ a.ok =>
    GetKey(wifiConf, Ssid) = tested.net /\ GetKey(wifiConf, Pw) = tested.pw
=============================================================================
