----------------------------- MODULE BadgePage -----------------------------
(***************************************************************************)
(* The configuration page in the browser (badge.js): the user's clicks, the  *)
(* lock that is to keep them one at a time, the requests they send and the   *)
(* callbacks of the answers.  A request that fails calls back to nothing.    *)
(***************************************************************************)
EXTENDS WebServer

VARIABLES
  locked,       \* badge.js: locked
  scanRes,      \* badge.js: scanRes, and whose list it is
  options,      \* how many networks net-select offers
  netSelect,    \* the one selected, -1 where there is none
  rows,         \* how many channels the table shows
  outstanding,  \* requests whose callback has not been called
  statusDue,    \* the timer of updateWifiStatus runs
  clicks,
  lost          \* history: since the page was loaded, a callback that would unlock it
                \* is never called, because the answer was lost or is a list that cannot
                \* be parsed, or the click threw after it locked

lists    == <<scanRes, options, netSelect, rows>>
pageVars == <<locked, lists, outstanding, statusDue, clicks, lost>>
vars     == <<serverVars, faults, pageVars>>

NoScan == [of |-> "none", n |-> 0]
Locking == {"scan", "wifi", "add", "delete", "channels"}

Waiting    == {r.id : r \in outstanding}
Connected  == {backlog[i].id : i \in DOMAIN backlog} \cup {client.id} \cup {a.id : a \in answers}
Fresh(used) == CHOOSE i \in 1..(Cardinality(used) + 1) :
                 i \notin used /\ (1..(i - 1)) \subseteq used
FreshId     == Fresh(Waiting \cup Connected)
NextId      == Fresh(Waiting \cup Connected \cup {FreshId})

\* A request leaves the page, on a connection of its own.
Send(request) ==
  /\ backlog' = Append(backlog, request)
  /\ outstanding' = outstanding \cup {[id |-> request.id, kind |-> request.kind]}
  /\ UNCHANGED <<server, client, answers, files, tested, uploaded, faults>>

-----------------------------------------------------------------------------
(* Clicks *)

Click     == clicks < MaxClicks /\ clicks' = clicks + 1
FreeClick == Click /\ ~locked

ClickScan ==
  /\ FreeClick
  /\ locked' = TRUE
  /\ options' = 0 /\ netSelect' = -1
  /\ Send(Request(FreshId, "scan"))
  /\ UNCHANGED <<scanRes, rows, statusDue, lost>>

\* scanRes[$('#net-select').val()].ssid: of a channel there is no ssid, which jQuery
\* posts as an empty text, and of an element that is not there it throws.
Throws       == netSelect = -1 \/ netSelect >= scanRes.n
SelectedSsid == IF scanRes.of = "networks" THEN Networks[netSelect + 1] ELSE <<>>

ClickConnect(pw) ==
  /\ FreeClick
  /\ locked' = TRUE
  /\ IF Throws
     THEN lost' = TRUE /\ UNCHANGED <<serverVars, faults, outstanding>>
     ELSE /\ Send([Request(FreshId, "wifi") EXCEPT
                     !.net = SelectedSsid, !.pw = pw, !.selected = Networks[netSelect + 1]])
          /\ UNCHANGED lost
  /\ UNCHANGED <<lists, statusDue>>

ClickChannel_NoLock(kind) ==
  /\ FreeClick
  /\ kind = "delete" => rows > 0
  /\ Send(Request(FreshId, kind))
  /\ UNCHANGED <<locked, lists, statusDue, lost>>
ClickChannel(kind) ==
  /\ FreeClick
  /\ kind = "delete" => rows > 0
  /\ locked' = TRUE
  /\ Send(Request(FreshId, kind))
  /\ UNCHANGED <<lists, statusDue, lost>>

\* The lock does not hold the list of the networks ...
SelectNet(i) ==
  /\ i \in -1..(options - 1) /\ i # netSelect
  /\ netSelect' = i
  /\ UNCHANGED <<serverVars, faults, locked, scanRes, options, rows, outstanding, statusDue,
                 clicks, lost>>

\* ... nor the form of the upload, which is none of the script's.
Upload(picture) ==
  /\ Click
  /\ Send([Request(FreshId, "upload") EXCEPT !.picture = picture])
  /\ UNCHANGED <<locked, lists, statusDue, lost>>

-----------------------------------------------------------------------------
(* The page is loaded: by the user, or as the answer to an upload.  It asks for *)
(* the state of the WiFi and then, under the lock, for the list of the channels; *)
(* the requests of the page before have no callback any more.                   *)

OnLoad(status, list) == <<Request(status, "status"), Request(list, "channels")>>
Loading(status, list) == {[id |-> status, kind |-> "status"], [id |-> list, kind |-> "channels"]}

Ready ==
  /\ locked' = TRUE /\ scanRes' = NoScan /\ options' = 0 /\ netSelect' = -1 /\ rows' = 0
  /\ backlog' = backlog \o OnLoad(FreshId, NextId)
  /\ outstanding' = Loading(FreshId, NextId)
  /\ statusDue' = FALSE /\ lost' = FALSE
  /\ UNCHANGED <<server, client, files, tested, uploaded>>

Reload == Click /\ Ready /\ UNCHANGED <<answers, faults>>

\* updateWifiStatus; the timer starts again while the page is locked.
Poll ==
  /\ statusDue /\ ~locked
  /\ statusDue' = FALSE
  /\ Send(Request(FreshId, "status"))
  /\ UNCHANGED <<locked, lists, clicks, lost>>

\* The browser opens a connection ahead of need and sends nothing over it.
OpenAhead ==
  /\ Fault
  /\ backlog' = Append(backlog, NoClient)
  /\ UNCHANGED <<server, client, answers, files, tested, uploaded, pageVars>>

-----------------------------------------------------------------------------
(* Answers, in the order they come *)

Answered(a) ==
  /\ a \in answers /\ [id |-> a.id, kind |-> a.kind] \in outstanding
  /\ answers' = answers \ {a}
Done(a) == outstanding' = outstanding \ {[id |-> a.id, kind |-> a.kind]}

Unlocks == locked' = FALSE /\ UNCHANGED <<backlog, server, client, files, tested, uploaded, faults>>

OnScan(a) ==
  /\ a.kind = "scan" /\ a.ok /\ Answered(a) /\ Done(a) /\ Unlocks
  /\ scanRes' = [of |-> "networks", n |-> a.n]
  /\ options' = a.n /\ netSelect' = -1
  /\ UNCHANGED <<rows, statusDue, clicks, lost>>

OnConnect(a) ==
  /\ a.kind = "wifi" /\ Answered(a) /\ Done(a) /\ Unlocks
  /\ UNCHANGED <<lists, statusDue, clicks, lost>>

\* scanRes = res, of loadChannels too
OnChannels_UnlocksPerRow(a) ==
  /\ a.kind = "channels" /\ a.ok /\ Answered(a) /\ Done(a)
  /\ locked' = (locked /\ a.n = 0)
  /\ scanRes' = [of |-> "channels", n |-> a.n]
  /\ rows' = a.n
  /\ UNCHANGED <<backlog, server, client, files, tested, uploaded, faults, options, netSelect,
                 statusDue, clicks, lost>>
OnChannels(a) ==
  /\ a.kind = "channels" /\ a.ok /\ Answered(a) /\ Done(a) /\ Unlocks
  /\ scanRes' = [of |-> "channels", n |-> a.n]
  /\ rows' = a.n
  /\ UNCHANGED <<options, netSelect, statusDue, clicks, lost>>

\* $.getJSON cannot parse the list and calls back to nothing.
OnUnreadable(a) ==
  /\ a.kind \in {"scan", "channels"} /\ ~a.ok /\ Answered(a) /\ Done(a)
  /\ lost' = TRUE
  /\ UNCHANGED <<backlog, server, client, files, tested, uploaded, faults, locked, lists,
                 statusDue, clicks>>

\* unlock, and loadChannels, which locks again.
OnChanged(a) ==
  /\ a.kind \in {"add", "delete"} /\ Answered(a)
  /\ locked' = TRUE
  /\ backlog' = Append(backlog, Request(FreshId, "channels"))
  /\ outstanding' = (outstanding \ {[id |-> a.id, kind |-> a.kind]})
                      \cup {[id |-> FreshId, kind |-> "channels"]}
  /\ UNCHANGED <<server, client, files, tested, uploaded, faults, lists, statusDue, clicks, lost>>

OnStatus(a) ==
  /\ a.kind = "status" /\ Answered(a) /\ Done(a)
  /\ statusDue' = TRUE
  /\ UNCHANGED <<backlog, server, client, files, tested, uploaded, faults, locked, lists,
                 clicks, lost>>

OnUploaded(a) ==
  /\ a.kind = "upload" /\ Answered(a) /\ Ready
  /\ UNCHANGED <<clicks, faults>>

\* To a page that is gone.
Ignore(a) ==
  /\ a \in answers /\ [id |-> a.id, kind |-> a.kind] \notin outstanding
  /\ answers' = answers \ {a}
  /\ UNCHANGED <<backlog, server, client, files, tested, uploaded, faults, pageVars>>

AnswerLost(a) ==
  /\ a \in answers /\ Fault
  /\ answers' = answers \ {a}
  /\ UNCHANGED <<backlog, server, client, files, tested, uploaded, pageVars>>

\* The connection is closed without an answer: there is no handler for it.  The
\* browser has an error to show for an upload, and the user goes back to the page.
Failed(r) == r \in outstanding /\ r.id \notin Connected
UploadFailed(r) ==
  /\ Failed(r) /\ r.kind = "upload" /\ Ready
  /\ UNCHANGED <<answers, clicks, faults>>
OnFailure(r) ==
  /\ Failed(r) /\ r.kind # "upload"
  /\ outstanding' = outstanding \ {r}
  /\ lost' = (lost \/ r.kind \in Locking)
  /\ UNCHANGED <<serverVars, faults, locked, lists, statusDue, clicks>>

\* The page has just been loaded.
PageInit ==
  /\ locked = TRUE /\ scanRes = NoScan /\ options = 0 /\ netSelect = -1 /\ rows = 0
  /\ backlog = OnLoad(1, 2) /\ outstanding = Loading(1, 2)
  /\ statusDue = FALSE /\ clicks = 0 /\ lost = FALSE
=============================================================================
