----------------------------- MODULE WebServer -----------------------------
(***************************************************************************)
(* The badge in configuration mode (initialConfig): one loop that takes one  *)
(* connection after the other, reads a request, lets the handler of its URL  *)
(* do its work and answers.  Of the answers there is kept what the page      *)
(* makes of them.                                                           *)
(***************************************************************************)
EXTENDS UrlEncode, Kmp, FiniteSets

CONSTANTS
  Networks,     \* what a scan finds: a sequence of names
  Passwords,    \* what the user may type
  Pictures,     \* what the user may upload
  MaxChannels,  \* bound: notification channels
  MaxClicks,    \* bound: what the user does with the page
  MaxFaults     \* bound: see Fault

ASSUME NetworksAssumption == Networks \in Seq(Seq(STRING)) /\ Passwords \subseteq Seq(STRING)
\* Those without a quote or a backslash in the name; for the others see Readable.
ASSUME NamesAssumption ==
  \A i \in DOMAIN Networks : \A j \in DOMAIN Networks[i] : Networks[i][j] \notin {"\"", "\\"}
ASSUME BoundsAssumption   == MaxChannels \in Nat /\ MaxClicks \in Nat /\ MaxFaults \in Nat

VARIABLES
  backlog,    \* connections the server has not taken yet
  server,     \* "idle", "line", "body" or "wifiTest"
  client,     \* the connection it works on
  answers,    \* on their way to the page
  wifiConf,   \* /wifi.conf
  tested,     \* the network and password of the last test
  channels,   \* how many notification channels there are
  oddChannels, \* and how many of them have a quote or a backslash in host or url
  bmp,        \* /badge.bmp
  uploaded,   \* history: the picture that goes into it, and whether all of it came
  faults

files      == <<wifiConf, channels, oddChannels, bmp>>
serverVars == <<backlog, server, client, answers, files, tested, uploaded>>

\* A connection and what is sent over it; id 0 belongs to one that stays silent.
Request(id, kind) ==
  [id |-> id, kind |-> kind, net |-> <<>>, pw |-> <<>>, selected |-> <<>>, picture |-> <<>>]

NoClient == Request(0, "silent")
NoTest   == [net |-> NoValue, pw |-> NoValue]

ServerInit ==
  /\ server = "idle" /\ client = NoClient
  /\ answers = {}
  /\ wifiConf = <<>> /\ tested = NoTest
  /\ channels = 0 /\ oddChannels = 0
  /\ bmp = <<>> /\ uploaded = [picture |-> <<>>, whole |-> TRUE]
  /\ faults = 0

Fault == faults < MaxFaults /\ faults' = faults + 1

Net == <<"net">>   \* the names of the keys are single characters here
Pw  == <<"pw">>
Ssid == <<"ssid">>

WifiForm(net, pw) == ParamKeyValue(Net, net) \o <<"&">> \o ParamKeyValue(Pw, pw)

SavedConf(net, pw) == WriteKeyValue(Pw, pw) \o WriteKeyValue(Ssid, net)

Boundary == <<"-", "-", "b">>
CRLF     == <<"\r", "\n">>

\* A browser takes a boundary that is not in the picture (RFC 2046); of the prefix of
\* it that the server looks for this has to be true as well.
ASSUME PicturesAssumption ==
  \A picture \in Pictures :
    /\ picture \in Seq(STRING)
    /\ \A i \in 1..(Len(picture) - 4) : SubSeq(picture, i, i + 4) # CRLF \o Boundary

\* The multipart body of an upload.  The server cuts two characters too many from
\* the boundary it is told (here the "c"): it looks for a prefix of it.
Multipart(picture) ==
  LET line == Boundary \o <<"c">>
  IN  line \o CRLF \o <<"h">> \o CRLF \o CRLF \o picture \o CRLF \o line \o <<"-", "-">> \o CRLF

-----------------------------------------------------------------------------
(* doWork *)

Accept ==
  /\ server = "idle" /\ backlog # <<>>
  /\ client' = Head(backlog) /\ backlog' = Tail(backlog)
  /\ server' = "line"
  /\ UNCHANGED <<answers, files, tested, uploaded, faults>>

\* The client has left: it is dropped if nothing of it is there to be read.
AcceptGone(waiting) ==
  /\ server = "idle" /\ backlog # <<>>
  /\ Head(backlog).id \notin waiting
  /\ backlog' = Tail(backlog)
  /\ UNCHANGED <<server, client, answers, files, tested, uploaded, faults>>

\* The request line.  Of a client that is silent none comes, and as long as there
\* was no byte there is no timeout and no look at whether it is still there.
ReadLine ==
  /\ server = "line" /\ client.kind # "silent"
  /\ server' = "body"
  /\ UNCHANGED <<backlog, client, answers, files, tested, uploaded, faults>>

LineTimeout ==
  /\ server = "line" /\ client.kind # "silent"
  /\ Fault
  /\ server' = "idle" /\ client' = NoClient
  /\ UNCHANGED <<backlog, answers, files, tested, uploaded>>

\* ok: what the answer says, of a list whether it can be parsed; n: its elements.
Finish_KeepsClient(ok, n) ==
  /\ answers' = answers \cup {[id |-> client.id, kind |-> client.kind, ok |-> ok, n |-> n]}
  /\ server' = "idle"
  /\ UNCHANGED <<backlog, client>>
Finish(ok, n) ==
  /\ answers' = answers \cup {[id |-> client.id, kind |-> client.kind, ok |-> ok, n |-> n]}
  /\ server' = "idle" /\ client' = NoClient
  /\ UNCHANGED backlog

Handling(kind) == server = "body" /\ client.kind = kind

\* What of a body has arrived when the handler reads it: all, or a fault.  The end
\* of the headers may have been given up as well.
Arrived(body, n) ==
  /\ n \in 0..Len(body)
  /\ IF n = Len(body) THEN UNCHANGED faults ELSE Fault

\* What the handler finds in the first n characters of the form.
Names == Range(Networks) \cup {<<>>}
ReadForm ==
  [net \in Names |-> [pw \in Passwords |-> [n \in 0..Len(WifiForm(net, pw)) |->
     LET body == SubSeq(WifiForm(net, pw), 1, n)
     IN  [net |-> GetKey(body, Net), pw |-> GetKey(body, Pw)]]]]

\* POST /api/conf/wifi: the file is replaced before the network is tried.
SaveWifi(n) ==
  /\ Handling("wifi") /\ Arrived(WifiForm(client.net, client.pw), n)
  /\ LET form == ReadForm[client.net][client.pw][n]
     IN  IF NoValue \in {form.net, form.pw}
         THEN Finish(FALSE, 0) /\ UNCHANGED <<wifiConf, tested>>
         ELSE /\ wifiConf' = SavedConf(form.net, form.pw)
              /\ tested' = form
              /\ server' = "wifiTest"
              /\ UNCHANGED <<backlog, client, answers>>
  /\ UNCHANGED <<channels, oddChannels, bmp, uploaded>>

\* ... until it is connected or refused, however long that takes.
WifiTested(connected) ==
  /\ server = "wifiTest"
  /\ Finish(connected, 0)
  /\ UNCHANGED <<files, tested, uploaded, faults>>

\* POST /api/channels/add and delete (NotificationDB has their steps); nothing is
\* added to a full file system, nor deleted where the number is not in use.  What
\* the user types into host and url, and which channel he deletes, is left open.
ChangeChannels(kind, n) ==
  /\ kind \in {"add", "delete"} /\ Handling(kind)
  /\ n \in {channels, IF kind = "add" THEN channels + 1 ELSE channels - 1}
  /\ n \in 0..MaxChannels
  /\ channels' = n
  /\ oddChannels' \in {m \in 0..n : m - oddChannels \in {0, n - channels}}
  /\ Finish(TRUE, 0)
  /\ UNCHANGED <<wifiConf, bmp, tested, uploaded, faults>>

\* The names of the networks, host and url are printed into the JSON as they are: a
\* quote or a backslash in one of them makes a list that cannot be parsed.  A network
\* with such a name may be in range at any scan.
Readable(kind) == CASE kind = "scan"     -> BOOLEAN
                    [] kind = "channels" -> {oddChannels = 0}
                    [] OTHER             -> {TRUE}

\* What only answers: the scan, the status, the list of the channels.
Listed(kind) == CASE kind = "scan"     -> Len(Networks)
                  [] kind = "channels" -> channels
                  [] OTHER             -> 0
JustAnswer ==
  /\ \E kind \in {"scan", "status", "channels"} : Handling(kind)
  /\ \E readable \in Readable(client.kind) : Finish(readable, Listed(client.kind))
  /\ UNCHANGED <<files, tested, uploaded, faults>>

\* POST /upload_badge: the first boundary, the end of the part's headers, and the
\* picture up to the next boundary; of the first n characters of the body.
ReadUpload ==
  [picture \in Pictures |-> [n \in 0..Len(Multipart(picture)) |->
     LET body   == SubSeq(Multipart(picture), 1, n)
         first  == KmpSearch(Boundary, body)
         header == KmpSearch(CRLF \o CRLF, Rest(body, first))
     IN  [opens |-> first.found /\ header.found,
          part  |-> KmpSearch(CRLF \o Boundary, Rest(Rest(body, first), header)).written]]]

UploadBadge(n) ==
  /\ Handling("upload") /\ Arrived(Multipart(client.picture), n)
  /\ IF ReadUpload[client.picture][n].opens
     THEN /\ bmp' = ReadUpload[client.picture][n].part
          /\ uploaded' = [picture |-> client.picture, whole |-> n = Len(Multipart(client.picture))]
     ELSE UNCHANGED <<bmp, uploaded>>
  /\ Finish(TRUE, 0)
  /\ UNCHANGED <<wifiConf, channels, oddChannels, tested>>

\* The badge is reset and put into configuration mode again: the connections are
\* gone, the files are there ...
ServerReset ==
  /\ Fault
  /\ backlog' = <<>> /\ server' = "idle" /\ client' = NoClient /\ answers' = {}
  /\ UNCHANGED <<channels, oddChannels, bmp, uploaded>>
  /\ \/ UNCHANGED <<wifiConf, tested>>
     \* ... but for the rest of the one that was being written.
     \/ /\ Handling("wifi")
        /\ \E n \in 0..(Len(SavedConf(client.net, client.pw)) - 1) :
             wifiConf' = SubSeq(SavedConf(client.net, client.pw), 1, n)
        /\ tested' = NoTest
=============================================================================
