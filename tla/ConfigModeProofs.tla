------------------------- MODULE ConfigModeProofs -------------------------
(***************************************************************************)
(* The configuration page keeps its requests one at a time and its           *)
(* connections apart, an upload is stored to the byte and the configuration  *)
(* as it was posted, for any networks, passwords, pictures and bounds.       *)
(***************************************************************************)
EXTENDS ConfigMode, BasicLemmas, FiniteSetTheorems

\* The request the lock is for, without counting: there is no other, and the page
\* is locked.  Inductive by itself: only an unlocked page sends one, and the answer
\* that unlocks it is the answer to the one.
LockInv ==
  /\ \A r1, r2 \in outstanding : r1.kind \in Locking /\ r2.kind \in Locking => r1 = r2
  /\ \A r \in outstanding : r.kind \in Locking => locked

LEMMA LockInvIs == LockInv => OneAtATime
<1> DEFINE asked == {r \in outstanding : r.kind \in Locking}
<1>1. SUFFICES ASSUME LockInv PROVE OneAtATime
  OBVIOUS
<1>2. asked # {} => locked
  BY <1>1 DEF LockInv
<1>3. CASE asked = {}
  BY <1>2, <1>3, FS_EmptySet DEF OneAtATime
<1>4. CASE asked # {}
  <2>1. PICK r : r \in asked
    BY <1>4
  <2>2. asked = {r}
    BY <1>1, <2>1 DEF LockInv
  <2>3. Cardinality(asked) = 1
    BY <2>2, FS_Singleton
  <2>4. QED BY <1>2, <2>3 DEF OneAtATime
<1>5. QED BY <1>3, <1>4

\* What can happen to the lock and to what it is for.
LEMMA OneMore ==
  ASSUME LockInv, ~locked, locked', NEW new, outstanding' = outstanding \cup {new}
  PROVE  LockInv'
BY DEF LockInv

LEMMA OneOther ==
  ASSUME LockInv, UNCHANGED locked, NEW new, new.kind \notin Locking,
         outstanding' = outstanding \cup {new}
  PROVE  LockInv'
BY DEF LockInv

LEMMA OneDone ==
  ASSUME LockInv, NEW old \in outstanding, old.kind \in Locking,
         outstanding' = outstanding \ {old}
  PROVE  LockInv'
BY DEF LockInv

LEMMA Fewer ==
  ASSUME LockInv, UNCHANGED locked, outstanding' \subseteq outstanding
  PROVE  LockInv'
BY DEF LockInv

LEMMA Loaded == ASSUME Ready PROVE LockInv'
BY DEF Ready, Loading, LockInv, Locking

LEMMA UserLock == ASSUME LockInv, User PROVE LockInv'
<1>1. CASE ClickScan
  BY <1>1, OneMore DEF ClickScan, FreeClick, Send
<1>2. ASSUME NEW pw \in Passwords, ClickConnect(pw) PROVE LockInv'
  <2>1. CASE Throws
    BY <1>2, <2>1 DEF ClickConnect, FreeClick, LockInv
  <2>2. CASE ~Throws
    BY <1>2, <2>2, OneMore DEF ClickConnect, FreeClick, Send
  <2>3. QED BY <2>1, <2>2
<1>3. ASSUME NEW kind \in {"add", "delete"}, ClickChannel(kind) PROVE LockInv'
  BY <1>3, OneMore DEF ClickChannel, FreeClick, Send
<1>4. ASSUME NEW i, SelectNet(i) PROVE LockInv'
  BY <1>4, Fewer DEF SelectNet
<1>5. ASSUME NEW picture \in Pictures, Upload(picture) PROVE LockInv'
  <2>1. outstanding' = outstanding \cup {[id |-> FreshId, kind |-> "upload"]} /\ UNCHANGED locked
    BY <1>5 DEF Upload, Send, Request
  <2>2. [id |-> FreshId, kind |-> "upload"].kind \notin Locking
    BY DEF Locking
  <2>3. QED BY ONLY LockInv, <2>1, <2>2, OneOther
<1>6. CASE Reload
  BY <1>6, Loaded DEF Reload
<1>7. QED BY <1>1, <1>2, <1>3, <1>4, <1>5, <1>6 DEF User

LEMMA CallbackLock == ASSUME LockInv, Callback PROVE LockInv'
<1>1. ASSUME NEW a \in answers, OnScan(a) \/ OnConnect(a) \/ OnChannels(a) PROVE LockInv'
  BY <1>1, OneDone DEF OnScan, OnConnect, OnChannels, Answered, Done, Locking
<1>2. ASSUME NEW a \in answers, OnChanged(a) PROVE LockInv'
  BY <1>2 DEF OnChanged, Answered, LockInv, Locking
<1>3. ASSUME NEW a \in answers, OnStatus(a) PROVE LockInv'
  BY <1>3, Fewer DEF OnStatus, Done
<1>4. ASSUME NEW a \in answers, OnUploaded(a) PROVE LockInv'
  BY <1>4, Loaded DEF OnUploaded
<1>5. ASSUME NEW a \in answers, Ignore(a) PROVE LockInv'
  BY <1>5, Fewer DEF Ignore, pageVars
<1>6. ASSUME NEW r \in outstanding, OnFailure(r) PROVE LockInv'
  BY <1>6, Fewer DEF OnFailure
<1>7. ASSUME NEW r \in outstanding, UploadFailed(r) PROVE LockInv'
  BY <1>7, Loaded DEF UploadFailed
<1>8. ASSUME NEW a \in answers, OnUnreadable(a) PROVE LockInv'
  BY <1>8, Fewer DEF OnUnreadable, Done
<1>9. QED BY <1>1, <1>2, <1>3, <1>4, <1>5, <1>6, <1>7, <1>8 DEF Callback

\* However the answers are ordered and whichever are lost, of the requests the lock
\* is for there is one at most, and the page is locked while there is (OneAtATime).
THEOREM OneRequestAtATime == Spec => []OneAtATime
<1>1. Init => LockInv
  BY DEF Init, PageInit, Loading, LockInv, Locking
<1>2. LockInv /\ [Next]_vars => LockInv'
  <2>1. SUFFICES ASSUME LockInv, [Next]_vars PROVE LockInv'
    OBVIOUS
  <2>2. CASE UNCHANGED pageVars
    BY <2>1, <2>2, Fewer DEF pageVars
  <2>3. CASE User
    BY <2>1, <2>3, UserLock
  <2>4. CASE Callback
    BY <2>1, <2>4, CallbackLock
  <2>5. CASE Poll
    BY <2>1, <2>5, OneOther DEF Poll, Send, Request, Locking
  <2>6. UNCHANGED pageVars \/ User \/ Callback \/ Poll
    BY <2>1 DEF Next, vars, Serve, Tested, Restart, OpenAhead, AnswerLost
  <2>7. QED BY <2>2, <2>3, <2>4, <2>5, <2>6
<1>3. QED BY <1>1, <1>2, LockInvIs, PTL DEF Spec
-----------------------------------------------------------------------------
\* Connections are told apart by their number, from the page to the answer: those
\* that wait, the one that is served and those answered.
Requests ==
  [id: Nat, kind: Kinds \cup {"silent"}, net: Seq(STRING), pw: Seq(STRING),
   selected: Seq(STRING), picture: Pictures \cup {<<>>}]
\* What is posted with one is what the user may have typed, selected and chosen.
Posted(r) ==
  /\ r.kind = "wifi" => r.net \in Names /\ r.pw \in Passwords
  /\ r.kind = "upload" => r.picture \in Pictures
Sound(r) == r \in Requests /\ (r = NoClient \/ (r.id \in Ids /\ r.kind \in Kinds)) /\ Posted(r)

Apart(queue, c) ==
  /\ queue \in Seq(Requests) /\ \A i \in DOMAIN queue : Sound(queue[i])
  /\ Sound(c)
  /\ \A i, j \in DOMAIN queue : queue[i].id = queue[j].id /\ i # j => queue[i].id = 0
  /\ \A i \in DOMAIN queue : queue[i].id = c.id => c.id = 0

\* No connection of these is one of those answered.
Unanswered(queue, c, as) ==
  \A a \in as : a.id # c.id /\ \A i \in DOMAIN queue : queue[i].id # a.id

ConnectionInv ==
  /\ Apart(backlog, client) /\ Unanswered(backlog, client, answers)
  /\ server \in {"idle", "line", "body", "wifiTest"}
  /\ server \in {"body", "wifiTest"} => client # NoClient
  /\ server = "idle" => client = NoClient
  /\ server = "wifiTest" => client.kind = "wifi"

AnswerInv ==
  /\ IsFiniteSet(answers)
  /\ answers \subseteq [id: Ids, kind: Kinds, ok: BOOLEAN, n: 0..(MaxChannels + Len(Networks))]
  /\ \A a \in answers : a.kind = "scan" => a.n = Len(Networks)
  /\ channels \in 0..MaxChannels /\ oddChannels \in 0..channels

\* What is waited for can be told apart.
Distinct(requests) ==
  /\ IsFiniteSet(requests) /\ requests \subseteq [id: Ids, kind: Kinds]
  /\ \A r1, r2 \in requests : r1.id = r2.id => r1 = r2

PageInv ==
  /\ Distinct(outstanding)
  /\ locked \in BOOLEAN /\ statusDue \in BOOLEAN /\ lost \in BOOLEAN
  /\ scanRes \in [of: {"none", "networks", "channels"}, n: Nat]
  /\ scanRes.of = "networks" => scanRes.n = Len(Networks)
  /\ options \in {0, Len(Networks)} /\ netSelect \in -1..(options - 1)

LEMMA InvIsTypeOK == ConnectionInv /\ AnswerInv /\ PageInv => TypeOK
<1>1. SUFFICES ASSUME ConnectionInv, AnswerInv, PageInv PROVE TypeOK
  OBVIOUS
<1>2. \A i \in DOMAIN backlog : backlog[i] = NoClient \/ (backlog[i].id \in Ids /\ backlog[i].kind \in Kinds)
  BY <1>1 DEF ConnectionInv, Apart, Sound
<1>3. \A a \in answers : a.id \notin {backlog[i].id : i \in DOMAIN backlog} \cup {client.id}
  BY <1>1 DEF ConnectionInv, Unanswered
<1>4. client = NoClient => server \in {"idle", "line"}
  BY <1>1 DEF ConnectionInv
<1>5. QED BY <1>1, <1>2, <1>3, <1>4 DEF ConnectionInv, AnswerInv, PageInv, Distinct, TypeOK

\* The least number that is not in use, of which there is one.
LEMMA FreshIs ==
  ASSUME NEW used, IsFiniteSet(used)
  PROVE  Fresh(used) \in Ids /\ Fresh(used) \notin used
<1> DEFINE n == Cardinality(used)
           T == {i \in Ids : i \notin used}
<1>1. n \in Nat
  BY FS_CardinalityType
<1>2. \A m \in Nat : 1..m \subseteq used => m <= n
  <2>1. SUFFICES ASSUME NEW m \in Nat, 1..m \subseteq used PROVE m <= n
    OBVIOUS
  <2>2. IsFiniteSet(1..m) /\ Cardinality(1..m) = m
    BY FS_Interval
  <2>3. QED BY <2>1, <2>2, FS_Subset
<1>3. T # {}
  <2>1. 1..(n + 1) \subseteq used => n + 1 <= n
    BY <1>1, <1>2
  <2>2. QED BY <1>1, <2>1 DEF Ids
<1>4. PICK i \in T : \A j \in T : i <= j
  BY <1>3, LeastNumber DEF Ids
<1>5. i \in Ids /\ i \notin used /\ 1..(i - 1) \subseteq used
  BY <1>4 DEF Ids
<1>6. i - 1 <= n
  BY <1>2, <1>5 DEF Ids
<1>7. i \in 1..(n + 1)
  BY <1>1, <1>5, <1>6 DEF Ids
<1>8. QED BY <1>1, <1>5, <1>7 DEF Fresh, Ids

\* The numbers of finitely many connections are finitely many.
LEMMA FiniteImage ==
  ASSUME NEW S, IsFiniteSet(S), NEW f, DOMAIN f = S, NEW T, T = {f[x] : x \in S},
         f = [x \in S |-> f[x]]
  PROVE  IsFiniteSet(T)
<1>1. f \in [S -> T] /\ \A t \in T : \E x \in S : f[x] = t
  OBVIOUS
<1>2. f \in Surjection(S, T)
  BY <1>1 DEF Surjection
<1>3. QED BY <1>2, FS_Surjection

LEMMA FreshIds ==
  ASSUME ConnectionInv, AnswerInv, PageInv
  PROVE  /\ FreshId \in Ids /\ NextId \in Ids /\ NextId # FreshId
         /\ \A id \in {FreshId, NextId} :
              /\ id # client.id
              /\ \A i \in DOMAIN backlog : backlog[i].id # id
              /\ \A a \in answers : a.id # id
              /\ \A r \in outstanding : r.id # id
<1>1. IsFiniteSet(Waiting)
  <2> DEFINE f == [r \in outstanding |-> r.id]
  <2>1. DOMAIN f = outstanding /\ f = [r \in outstanding |-> f[r]] /\ Waiting = {f[r] : r \in outstanding}
    BY DEF Waiting
  <2>2. IsFiniteSet(outstanding)
    BY DEF PageInv, Distinct
  <2> HIDE DEF f
  <2>3. QED BY ONLY <2>1, <2>2, FiniteImage
<1>2. IsFiniteSet({a.id : a \in answers})
  <2> DEFINE f == [a \in answers |-> a.id]
             T == {a.id : a \in answers}
  <2>1. DOMAIN f = answers /\ f = [a \in answers |-> f[a]] /\ T = {f[a] : a \in answers}
    OBVIOUS
  <2>2. IsFiniteSet(answers)
    BY DEF AnswerInv
  <2> HIDE DEF f, T
  <2>3. IsFiniteSet(T)
    BY ONLY <2>1, <2>2, FiniteImage
  <2>4. QED BY ONLY <2>3 DEF T
<1>3. IsFiniteSet({backlog[i].id : i \in DOMAIN backlog})
  <2>1. DOMAIN backlog = 1..Len(backlog) /\ Len(backlog) \in Nat
    BY DEF ConnectionInv, Apart
  <2>2. IsFiniteSet(DOMAIN backlog)
    BY <2>1, FS_Interval
  <2> DEFINE f == [i \in DOMAIN backlog |-> backlog[i].id]
             T == {backlog[i].id : i \in DOMAIN backlog}
  <2>3. /\ DOMAIN f = DOMAIN backlog /\ f = [i \in DOMAIN backlog |-> f[i]]
        /\ T = {f[i] : i \in DOMAIN backlog}
    OBVIOUS
  <2> HIDE DEF f, T
  <2>4. IsFiniteSet(T)
    BY ONLY <2>2, <2>3, FiniteImage
  <2>5. QED BY ONLY <2>4 DEF T
<1>4. IsFiniteSet(Waiting \cup Connected)
  BY <1>1, <1>2, <1>3, FS_Singleton, FS_Union DEF Connected
<1>5. IsFiniteSet(Waiting \cup Connected \cup {FreshId})
  BY <1>4, FS_AddElement
<1>6. FreshId \in Ids /\ FreshId \notin Waiting \cup Connected
  BY <1>4, FreshIs DEF FreshId
<1>7. NextId \in Ids /\ NextId \notin Waiting \cup Connected \cup {FreshId}
  BY <1>5, FreshIs DEF NextId
<1>8. QED BY <1>6, <1>7 DEF Waiting, Connected

-----------------------------------------------------------------------------
\* What the steps do with connections: one more in the queue, the first one taken
\* or dropped, the one that is served answered or closed.
LEMMA Queued ==
  ASSUME NEW q, NEW c, NEW as, Apart(q, c), Unanswered(q, c, as), NEW r, Sound(r),
         r # NoClient => /\ r.id # c.id /\ \A i \in DOMAIN q : q[i].id # r.id
                         /\ \A a \in as : a.id # r.id,
         \A a \in as : a.id \in Ids
  PROVE  Apart(Append(q, r), c) /\ Unanswered(Append(q, r), c, as)
<1> DEFINE p == Append(q, r)
<1>1. q \in Seq(Requests) /\ r \in Requests /\ Len(q) \in Nat /\ DOMAIN q = 1..Len(q)
  BY DEF Apart, Sound
<1>2. /\ p \in Seq(Requests) /\ DOMAIN p = DOMAIN q \cup {Len(q) + 1}
      /\ \A i \in DOMAIN q : p[i] = q[i] /\ i # Len(q) + 1
      /\ p[Len(q) + 1] = r
  BY <1>1
<1>3. r = NoClient => r.id = 0
  BY DEF NoClient, Request
<1> HIDE DEF p
<1>4. \A a \in as : a.id # r.id
  BY <1>3 DEF Ids
<1>5. \A i \in DOMAIN p : Sound(p[i])
  BY <1>2 DEF Apart
<1>6. \A i, j \in DOMAIN p : p[i].id = p[j].id /\ i # j => p[i].id = 0
  BY <1>2, <1>3 DEF Apart
<1>7. \A i \in DOMAIN p : p[i].id = c.id => c.id = 0
  BY <1>2, <1>3 DEF Apart
<1>8. Unanswered(p, c, as)
  BY <1>2, <1>4 DEF Unanswered
<1>9. Apart(p, c)
  BY <1>2, <1>5, <1>6, <1>7 DEF Apart
<1>10. QED BY <1>8, <1>9 DEF p

LEMMA NoneFree == Sound(NoClient) /\ NoClient.id = 0 /\ NoClient \in Requests
BY DEF Sound, Posted, NoClient, Request, Requests

LEMMA TakenOrDropped ==
  ASSUME NEW q, NEW c, NEW as, Apart(q, c), Unanswered(q, c, as), q # <<>>
  PROVE  /\ Apart(Tail(q), c) /\ Unanswered(Tail(q), c, as)
         /\ Apart(Tail(q), Head(q)) /\ Unanswered(Tail(q), Head(q), as)
<1>1. q \in Seq(Requests) /\ Len(q) \in Nat \ {0} /\ DOMAIN q = 1..Len(q)
  BY DEF Apart
<1>2. /\ Tail(q) \in Seq(Requests) /\ DOMAIN Tail(q) = 1..(Len(q) - 1)
      /\ \A i \in 1..(Len(q) - 1) : Tail(q)[i] = q[i + 1] /\ i + 1 \in DOMAIN q /\ i + 1 # 1
      /\ Head(q) = q[1] /\ 1 \in DOMAIN q
  BY <1>1
<1>3. \A i, j \in 1..(Len(q) - 1) : i # j => i + 1 # j + 1
  BY <1>1
<1> DEFINE t == Tail(q)
           h == Head(q)
<1> HIDE DEF t, h
<1>4. Apart(t, c)
  BY <1>2, <1>3 DEF Apart, t
<1>5. Apart(t, h)
  BY <1>2, <1>4 DEF Apart, t, h
<1>6. Unanswered(t, c, as) /\ Unanswered(t, h, as)
  BY <1>2 DEF Unanswered, t, h
<1>7. QED BY <1>4, <1>5, <1>6 DEF t, h

LEMMA Closed ==
  ASSUME NEW q, NEW c, NEW as, Apart(q, c), Unanswered(q, c, as), \A a \in as : a.id \in Ids
  PROVE  Apart(q, NoClient) /\ Unanswered(q, NoClient, as)
<1>1. Sound(NoClient) /\ NoClient.id = 0
  BY NoneFree
<1>2. QED BY <1>1 DEF Apart, Unanswered, Ids

LEMMA AnsweredOne ==
  ASSUME ConnectionInv, AnswerInv, server \in {"body", "wifiTest"},
         NEW ok \in BOOLEAN, NEW n \in 0..(MaxChannels + Len(Networks)),
         client.kind = "scan" => n = Len(Networks),
         channels' \in 0..MaxChannels, oddChannels' \in 0..channels',
         Finish(ok, n)
  PROVE  ConnectionInv' /\ AnswerInv'
<1> DEFINE a == [id |-> client.id, kind |-> client.kind, ok |-> ok, n |-> n]
<1>1. client # NoClient /\ client.id \in Ids /\ client.kind \in Kinds
  BY DEF ConnectionInv, Apart, Sound
<1>2. /\ answers' = answers \cup {a} /\ server' = "idle" /\ client' = NoClient
      /\ UNCHANGED backlog
  BY DEF Finish
<1>3. /\ a \in [id: Ids, kind: Kinds, ok: BOOLEAN, n: 0..(MaxChannels + Len(Networks))]
      /\ a.id = client.id /\ a.kind = client.kind /\ a.n = n
  BY <1>1
<1> HIDE DEF a
<1>4. AnswerInv'
  BY <1>2, <1>3, FS_AddElement DEF AnswerInv
<1>5. Unanswered(backlog, NoClient, answers')
  BY <1>1, <1>2, <1>3, NoneFree DEF ConnectionInv, Apart, Unanswered, AnswerInv, Ids
<1>6. Apart(backlog, NoClient)
  BY Closed DEF ConnectionInv, AnswerInv
<1>7. QED BY <1>2, <1>4, <1>5, <1>6 DEF ConnectionInv

LEMMA ServerConnections ==
  ASSUME ConnectionInv, AnswerInv,
         ServerStep \/ (\E connected \in BOOLEAN : WifiTested(connected)) \/ ServerReset
  PROVE  ConnectionInv' /\ AnswerInv'
<1>1. /\ 0 \in 0..(MaxChannels + Len(Networks)) /\ Len(Networks) \in 0..(MaxChannels + Len(Networks))
      /\ \A n \in 0..MaxChannels : n \in 0..(MaxChannels + Len(Networks))
      /\ channels \in 0..MaxChannels /\ oddChannels \in 0..channels
  BY NetworksAssumption, BoundsAssumption DEF AnswerInv
<1>2. /\ Apart(backlog, client) /\ Unanswered(backlog, client, answers)
      /\ \A a \in answers : a.id \in Ids
  BY DEF ConnectionInv, AnswerInv
<1>3. CASE Accept
  BY <1>2, <1>3, TakenOrDropped DEF Accept, ConnectionInv, AnswerInv, files
<1>4. CASE AcceptGone(Waiting)
  BY <1>2, <1>4, TakenOrDropped DEF AcceptGone, ConnectionInv, AnswerInv, files
<1>5. CASE ReadLine
  <2>1. client # NoClient
    BY <1>5 DEF ReadLine, NoClient, Request
  <2>2. QED BY <1>5, <2>1 DEF ReadLine, ConnectionInv, AnswerInv, files
<1>6. CASE LineTimeout
  BY <1>2, <1>6, Closed DEF LineTimeout, ConnectionInv, AnswerInv, files
<1>7. ASSUME NEW n, SaveWifi(n) PROVE ConnectionInv' /\ AnswerInv'
  <2>1. server = "body" /\ client.kind = "wifi" /\ UNCHANGED <<channels, oddChannels>>
    BY <1>7 DEF SaveWifi, Handling
  <2>2. CASE Finish(FALSE, 0)
    BY <1>1, <2>1, <2>2, AnsweredOne
  <2>3. CASE server' = "wifiTest" /\ UNCHANGED <<backlog, client, answers>>
    BY <2>1, <2>3 DEF ConnectionInv, AnswerInv
  <2>4. Finish(FALSE, 0) \/ (server' = "wifiTest" /\ UNCHANGED <<backlog, client, answers>>)
    BY <1>7 DEF SaveWifi
  <2>5. QED BY <2>2, <2>3, <2>4
<1>8. ASSUME NEW kind \in {"add", "delete"}, NEW n \in 0..MaxChannels, ChangeChannels(kind, n)
      PROVE  ConnectionInv' /\ AnswerInv'
  <2>1. /\ server = "body" /\ client.kind # "scan" /\ channels' \in 0..MaxChannels
        /\ oddChannels' \in 0..channels' /\ Finish(TRUE, 0)
    BY <1>8 DEF ChangeChannels, Handling
  <2>2. QED BY <1>1, <2>1, AnsweredOne
<1>9. ASSUME NEW n, UploadBadge(n) PROVE ConnectionInv' /\ AnswerInv'
  <2>1. /\ server = "body" /\ client.kind = "upload" /\ UNCHANGED <<channels, oddChannels>>
        /\ Finish(TRUE, 0)
    BY <1>9 DEF UploadBadge, Handling
  <2>2. QED BY <1>1, <2>1, AnsweredOne
<1>10. CASE JustAnswer
  <2> DEFINE n == Listed(client.kind)
  <2>1. /\ server = "body" /\ UNCHANGED <<channels, oddChannels>>
        /\ \E readable \in BOOLEAN : Finish(readable, n)
    BY <1>10 DEF JustAnswer, Handling, Readable, files
  <2>2. client.kind \in {"scan", "status", "channels"}
    BY <1>10 DEF JustAnswer, Handling
  <2>3. n \in 0..(MaxChannels + Len(Networks)) /\ (client.kind = "scan" => n = Len(Networks))
    BY <1>1, <2>2 DEF Listed
  <2> HIDE DEF n
  <2>4. QED BY <1>1, <2>1, <2>3, AnsweredOne
<1>11. ASSUME NEW connected \in BOOLEAN, WifiTested(connected) PROVE ConnectionInv' /\ AnswerInv'
  <2>1. /\ server = "wifiTest" /\ client.kind # "scan" /\ UNCHANGED <<channels, oddChannels>>
        /\ Finish(connected, 0)
    BY <1>11 DEF WifiTested, ConnectionInv, files
  <2>2. QED BY <1>1, <2>1, AnsweredOne
<1>12. CASE ServerReset
  <2>1. /\ backlog' = <<>> /\ server' = "idle" /\ client' = NoClient /\ answers' = {}
        /\ UNCHANGED <<channels, oddChannels>>
    BY <1>12 DEF ServerReset
  <2>2. Apart(<<>>, NoClient) /\ Unanswered(<<>>, NoClient, {}) /\ IsFiniteSet({})
    BY NoneFree, FS_EmptySet DEF Apart, Unanswered
  <2>3. QED BY <1>1, <2>1, <2>2 DEF ConnectionInv, AnswerInv
<1>13. QED
  BY <1>3, <1>4, <1>5, <1>6, <1>7, <1>8, <1>9, <1>10, <1>11, <1>12 DEF ServerStep, Handle

-----------------------------------------------------------------------------
\* What the page does: it sends, it is loaded anew, it takes an answer.
ConfigInv == ConnectionInv /\ AnswerInv /\ PageInv

\* A request with a number of its own: it can be told from those there are.
LEMMA Sending ==
  ASSUME ConfigInv, NEW r \in Requests, r.id = FreshId, r.kind \in Kinds, Posted(r),
         NEW old, old \subseteq outstanding, NEW as, as \subseteq answers
  PROVE  /\ Apart(Append(backlog, r), client) /\ Unanswered(Append(backlog, r), client, as)
         /\ Distinct(old \cup {[id |-> r.id, kind |-> r.kind]})
<1> DEFINE new == [id |-> r.id, kind |-> r.kind]
           now == old \cup {new}
<1>1. /\ r.id \in Ids /\ r.id # client.id
      /\ \A i \in DOMAIN backlog : backlog[i].id # r.id
      /\ \A a \in answers : a.id # r.id
      /\ \A o \in outstanding : o.id # r.id
  BY FreshIds DEF ConfigInv
<1>2. /\ Apart(backlog, client) /\ Unanswered(backlog, client, as)
      /\ Sound(r) /\ \A a \in as : a.id \in Ids /\ a.id # r.id
  BY <1>1 DEF ConfigInv, ConnectionInv, AnswerInv, Sound, Unanswered
<1>3. Apart(Append(backlog, r), client) /\ Unanswered(Append(backlog, r), client, as)
  BY ONLY <1>1, <1>2, Queued
<1>4. IsFiniteSet(now)
  BY FS_Subset, FS_AddElement DEF ConfigInv, PageInv, Distinct
<1>5. new \in [id: Ids, kind: Kinds] /\ new.id = r.id
  BY <1>1
<1> HIDE DEF new
<1>6. now \subseteq [id: Ids, kind: Kinds]
  BY <1>5 DEF ConfigInv, PageInv, Distinct
<1>7. \A r1, r2 \in now : r1.id = r2.id => r1 = r2
  BY <1>1, <1>5 DEF ConfigInv, PageInv, Distinct
<1>8. Distinct(now)
  BY <1>4, <1>6, <1>7 DEF Distinct
<1>9. QED BY <1>3, <1>8 DEF new

LEMMA RequestIs ==
  ASSUME NEW id \in Nat, NEW kind \in Kinds \cup {"silent"}
  PROVE  /\ Request(id, kind) \in Requests /\ Request(id, kind).id = id
         /\ Request(id, kind).kind = kind
         /\ kind \notin {"wifi", "upload"} => Posted(Request(id, kind))
BY DEF Request, Requests, Posted

\* The connections after a request was sent, and what the page waits for.
LEMMA Sent ==
  ASSUME ConfigInv, NEW r \in Requests, r.id = FreshId, r.kind \in Kinds, Posted(r), Send(r)
  PROVE  ConnectionInv' /\ AnswerInv' /\ Distinct(outstanding')
<1>1. /\ backlog' = Append(backlog, r)
      /\ outstanding' = outstanding \cup {[id |-> r.id, kind |-> r.kind]}
      /\ UNCHANGED <<server, client, answers, channels, oddChannels>>
  BY DEF Send, files
<1>2. /\ Apart(backlog', client) /\ Unanswered(backlog', client, answers)
      /\ Distinct(outstanding')
  <2>1. /\ Apart(Append(backlog, r), client) /\ Unanswered(Append(backlog, r), client, answers)
        /\ Distinct(outstanding \cup {[id |-> r.id, kind |-> r.kind]})
    BY Sending, outstanding \subseteq outstanding, answers \subseteq answers
  <2>2. QED BY <1>1, <2>1
<1>3. ConnectionInv'
  BY <1>1, <1>2 DEF ConfigInv, ConnectionInv
<1>4. AnswerInv'
  BY <1>1 DEF ConfigInv, AnswerInv
<1>5. QED BY <1>2, <1>3, <1>4

\* The page loaded anew, when an answer may have been taken.
LEMMA ReadyKeeps ==
  ASSUME ConfigInv, Ready, answers' \subseteq answers
  PROVE  ConfigInv'
<1> DEFINE s == Request(FreshId, "status")
           l == Request(NextId, "channels")
           p == Append(backlog, s)
           q == Append(p, l)
<1>1. /\ FreshId \in Ids /\ NextId \in Ids /\ NextId # FreshId
      /\ \A id \in {FreshId, NextId} :
              /\ id # client.id
              /\ \A i \in DOMAIN backlog : backlog[i].id # id
              /\ \A a \in answers : a.id # id
  BY FreshIds DEF ConfigInv
<1>2. /\ s \in Requests /\ s.id = FreshId /\ s.kind = "status" /\ Sound(s)
      /\ l \in Requests /\ l.id = NextId /\ l.kind = "channels" /\ Sound(l)
  BY <1>1, RequestIs DEF Ids, Kinds, Locking, Sound
<1> HIDE DEF s, l
<1>3. /\ Apart(backlog, client) /\ Unanswered(backlog, client, answers')
      /\ \A a \in answers' : a.id \in Ids /\ a.id # s.id /\ a.id # l.id
  BY <1>1, <1>2 DEF ConfigInv, ConnectionInv, AnswerInv, Unanswered
<1>4. Apart(p, client) /\ Unanswered(p, client, answers')
  BY <1>1, <1>2, <1>3, Queued
<1>5. \A i \in DOMAIN p : p[i].id # l.id
  <2>1. backlog \in Seq(Requests)
    BY <1>3 DEF Apart
  <2>2. \A i \in DOMAIN p : p[i] = s \/ \E j \in DOMAIN backlog : p[i] = backlog[j]
    BY <1>2, <2>1
  <2>3. QED BY <1>1, <1>2, <2>2
<1>6. Apart(q, client) /\ Unanswered(q, client, answers')
  <2> HIDE DEF p
  <2>1. QED BY <1>1, <1>2, <1>3, <1>4, <1>5, Queued
<1>7. backlog' = q
  <2>1. backlog \in Seq(Requests)
    BY <1>3 DEF Apart
  <2>2. backlog' = backlog \o <<s, l>>
    BY DEF Ready, OnLoad, s, l
  <2>3. QED BY <1>2, <2>1, <2>2
<1>8. ConnectionInv'
  BY <1>6, <1>7 DEF Ready, ConfigInv, ConnectionInv
<1>9. AnswerInv'
  BY FS_Subset DEF Ready, ConfigInv, AnswerInv, files
<1>10. PageInv'
  <2>1. outstanding' = {[id |-> FreshId, kind |-> "status"], [id |-> NextId, kind |-> "channels"]}
    BY DEF Ready, Loading
  <2>2. IsFiniteSet(outstanding')
    <3> DEFINE x == [id |-> FreshId, kind |-> "status"]
               y == [id |-> NextId, kind |-> "channels"]
    <3>1. outstanding' = {x} \cup {y}
      BY <2>1
    <3> HIDE DEF x, y
    <3>2. QED BY ONLY <3>1, FS_Singleton, FS_AddElement
  <2>3. outstanding' \subseteq [id: Ids, kind: Kinds]
    BY <1>1, <2>1 DEF Kinds, Locking
  <2>4. \A r1, r2 \in outstanding' : r1.id = r2.id => r1 = r2
    BY <1>1, <2>1
  <2>5. scanRes' \in [of: {"none", "networks", "channels"}, n: Nat] /\ scanRes'.of # "networks"
    BY DEF Ready, NoScan
  <2>6. options' \in {0, Len(Networks)} /\ netSelect' \in -1..(options' - 1)
    BY DEF Ready
  <2>7. locked' \in BOOLEAN /\ statusDue' \in BOOLEAN /\ lost' \in BOOLEAN
    BY DEF Ready
  <2>8. QED BY ONLY <2>2, <2>3, <2>4, <2>5, <2>6, <2>7 DEF PageInv, Distinct
<1>11. QED BY <1>8, <1>9, <1>10 DEF ConfigInv

LEMMA UserKeeps == ASSUME ConfigInv, User PROVE ConfigInv'
<1>1. FreshId \in Nat
  BY FreshIds DEF ConfigInv, Ids
<1>2. CASE ClickScan
  <2>1. Request(FreshId, "scan") \in Requests /\ Send(Request(FreshId, "scan"))
    BY <1>1, <1>2, RequestIs DEF ClickScan, Kinds, Locking
  <2>2. /\ Request(FreshId, "scan").id = FreshId /\ Request(FreshId, "scan").kind \in Kinds
        /\ Posted(Request(FreshId, "scan"))
    BY <1>1, RequestIs DEF Kinds, Locking
  <2>3. /\ locked' = TRUE /\ options' = 0 /\ netSelect' = -1
        /\ UNCHANGED <<scanRes, statusDue, lost>>
    BY <1>2 DEF ClickScan
  <2>4. netSelect' \in -1..(options' - 1)
    BY <2>3
  <2>5. QED BY <2>1, <2>2, <2>3, <2>4, Sent DEF ConfigInv, PageInv
<1>3. ASSUME NEW pw \in Passwords, ClickConnect(pw) PROVE ConfigInv'
  <2>1. CASE Throws
    BY <1>3, <2>1
       DEF ClickConnect, serverVars, files, lists, ConfigInv, ConnectionInv, AnswerInv, PageInv
  <2>2. CASE ~Throws
    <3> DEFINE r == [Request(FreshId, "wifi") EXCEPT !.net = SelectedSsid, !.pw = pw,
                                                     !.selected = Networks[netSelect + 1]]
    <3>1. netSelect + 1 \in 1..Len(Networks)
      BY <2>2, NetworksAssumption DEF ConfigInv, PageInv, Throws
    <3>2. Networks[netSelect + 1] \in Seq(STRING) /\ SelectedSsid \in Seq(STRING)
      <4>1. Networks[netSelect + 1] \in Seq(STRING)
        BY ONLY <3>1, NetworksAssumption, Member
      <4>2. <<>> \in Seq(STRING)
        OBVIOUS
      <4>3. QED BY ONLY <4>1, <4>2 DEF SelectedSsid
    <3>3. r \in Requests /\ r.id = FreshId /\ r.kind \in Kinds
      BY <1>1, <3>2, NetworksAssumption DEF Request, Requests, Kinds, Locking
    <3>4. Send(r)
      BY <1>3, <2>2 DEF ClickConnect
    <3>7. Posted(r)
      <4>1. SelectedSsid \in Names
        BY <3>1, NetworksAssumption DEF SelectedSsid, Names, Range
      <4>2. r.kind = "wifi" /\ r.net = SelectedSsid /\ r.pw = pw
        BY DEF Request
      <4> HIDE DEF r
      <4>3. QED BY ONLY <4>1, <4>2, pw \in Passwords DEF Posted
    <3>5. locked' = TRUE /\ UNCHANGED <<scanRes, options, netSelect, statusDue, lost>>
      BY <1>3, <2>2 DEF ClickConnect, lists
    <3> HIDE DEF r
    <3>6. QED BY <3>3, <3>4, <3>5, <3>7, Sent DEF ConfigInv, PageInv
  <2>3. QED BY <2>1, <2>2
<1>4. ASSUME NEW kind \in {"add", "delete"}, ClickChannel(kind) PROVE ConfigInv'
  <2>1. /\ Request(FreshId, kind) \in Requests /\ Request(FreshId, kind).id = FreshId
        /\ Request(FreshId, kind).kind \in Kinds /\ Posted(Request(FreshId, kind))
    BY <1>1, RequestIs DEF Kinds, Locking
  <2>2. Send(Request(FreshId, kind))
    BY <1>4 DEF ClickChannel
  <2>3. locked' = TRUE /\ UNCHANGED <<scanRes, options, netSelect, statusDue, lost>>
    BY <1>4 DEF ClickChannel, lists
  <2>4. QED BY <2>1, <2>2, <2>3, Sent DEF ConfigInv, PageInv
<1>5. ASSUME NEW i \in -1..(options - 1), SelectNet(i) PROVE ConfigInv'
  BY <1>5 DEF SelectNet, serverVars, files, ConfigInv, ConnectionInv, AnswerInv, PageInv
<1>6. ASSUME NEW picture \in Pictures, Upload(picture) PROVE ConfigInv'
  <2> DEFINE r == [Request(FreshId, "upload") EXCEPT !.picture = picture]
  <2>1. r \in Requests /\ r.id = FreshId /\ r.kind \in Kinds
    <3>1. r = [id |-> FreshId, kind |-> "upload", net |-> <<>>, pw |-> <<>>, selected |-> <<>>,
               picture |-> picture]
      BY DEF Request
    <3>2. <<>> \in Seq(STRING) /\ "upload" \in Kinds
      BY DEF Kinds
    <3> HIDE DEF r
    <3>3. QED BY <1>1, <3>1, <3>2 DEF Requests
  <2>4. Posted(r)
    BY DEF Request, Posted
  <2>2. Send(r) /\ UNCHANGED <<locked, scanRes, options, netSelect, statusDue, lost>>
    BY <1>6 DEF Upload, lists
  <2> HIDE DEF r
  <2>3. QED BY <2>1, <2>2, <2>4, Sent DEF ConfigInv, PageInv
<1>7. CASE Reload
  BY <1>7, ReadyKeeps DEF Reload
<1>8. QED
  <2>1. ASSUME NEW i \in -1..(Len(Networks) - 1), SelectNet(i) PROVE ConfigInv'
    BY <1>5, <2>1 DEF SelectNet
  <2>2. QED BY <1>2, <1>3, <1>4, <1>6, <1>7, <2>1 DEF User

LEMMA CallbackKeeps == ASSUME ConfigInv, Callback PROVE ConfigInv'
<1>1. ASSUME answers' \subseteq answers, UNCHANGED <<backlog, server, client, channels, oddChannels>>
      PROVE  ConnectionInv' /\ AnswerInv'
  BY <1>1, FS_Subset DEF ConfigInv, ConnectionInv, AnswerInv, Unanswered
<1>2. ASSUME outstanding' \subseteq outstanding
      PROVE  Distinct(outstanding')
  BY <1>2, FS_Subset DEF ConfigInv, PageInv, Distinct
<1>3. \A a \in answers : a.n \in Nat /\ (a.kind = "scan" => a.n = Len(Networks))
  BY NetworksAssumption, BoundsAssumption DEF ConfigInv, AnswerInv
<1>4. ASSUME NEW a \in answers, OnScan(a) PROVE ConfigInv'
  <2>1. /\ answers' \subseteq answers /\ outstanding' \subseteq outstanding
        /\ UNCHANGED <<backlog, server, client, channels, oddChannels>>
    BY <1>4 DEF OnScan, Answered, Done, Unlocks, files
  <2>2. /\ locked' = FALSE /\ UNCHANGED <<statusDue, lost>>
        /\ scanRes' = [of |-> "networks", n |-> Len(Networks)] /\ Len(Networks) \in Nat
        /\ options' = Len(Networks) /\ netSelect' = -1
    BY <1>3, <1>4 DEF OnScan, Unlocks
  <2>3. /\ scanRes' \in [of: {"none", "networks", "channels"}, n: Nat] /\ scanRes'.n = Len(Networks)
        /\ netSelect' \in -1..(options' - 1)
    BY <2>2
  <2>4. QED BY <1>1, <1>2, <2>1, <2>2, <2>3 DEF ConfigInv, PageInv
<1>5. ASSUME NEW a \in answers, OnConnect(a) PROVE ConfigInv'
  <2>1. /\ answers' \subseteq answers /\ outstanding' \subseteq outstanding
        /\ UNCHANGED <<backlog, server, client, channels, oddChannels>>
    BY <1>5 DEF OnConnect, Answered, Done, Unlocks, files
  <2>2. locked' = FALSE /\ UNCHANGED <<scanRes, options, netSelect, statusDue, lost>>
    BY <1>5 DEF OnConnect, Unlocks, lists
  <2>3. QED BY <1>1, <1>2, <2>1, <2>2 DEF ConfigInv, PageInv
<1>6. ASSUME NEW a \in answers, OnChannels(a) PROVE ConfigInv'
  <2>1. /\ answers' \subseteq answers /\ outstanding' \subseteq outstanding
        /\ UNCHANGED <<backlog, server, client, channels, oddChannels>>
    BY <1>6 DEF OnChannels, Answered, Done, Unlocks, files
  <2>2. /\ locked' = FALSE /\ UNCHANGED <<options, netSelect, statusDue, lost>>
        /\ scanRes' = [of |-> "channels", n |-> a.n]
    BY <1>6 DEF OnChannels, Unlocks
  <2>3. QED BY <1>1, <1>2, <1>3, <2>1, <2>2 DEF ConfigInv, PageInv
<1>7. ASSUME NEW a \in answers, OnChanged(a) PROVE ConfigInv'
  <2> DEFINE r == Request(FreshId, "channels")
             old == outstanding \ {[id |-> a.id, kind |-> a.kind]}
  <2>1. r \in Requests /\ r.id = FreshId /\ r.kind = "channels" /\ r.kind \in Kinds /\ Posted(r)
    BY FreshIds, RequestIs DEF ConfigInv, Ids, Kinds, Locking
  <2>2. /\ backlog' = Append(backlog, r) /\ answers' \subseteq answers
        /\ outstanding' = old \cup {[id |-> r.id, kind |-> r.kind]}
    BY <1>7, <2>1 DEF OnChanged, Answered
  <2>3. /\ locked' = TRUE
        /\ UNCHANGED <<server, client, channels, oddChannels, scanRes, options, netSelect,
                       statusDue, lost>>
    BY <1>7 DEF OnChanged, lists, files
  <2>4. old \subseteq outstanding
    OBVIOUS
  <2> HIDE DEF r, old
  <2>5. /\ Apart(backlog', client) /\ Unanswered(backlog', client, answers')
        /\ Distinct(outstanding')
    <3>1. /\ Apart(Append(backlog, r), client) /\ Unanswered(Append(backlog, r), client, answers')
          /\ Distinct(old \cup {[id |-> r.id, kind |-> r.kind]})
      BY <2>1, <2>2, <2>4, Sending
    <3>2. QED BY <2>2, <3>1
  <2>6. ConnectionInv'
    BY <2>3, <2>5 DEF ConfigInv, ConnectionInv
  <2>7. AnswerInv'
    BY <2>2, <2>3, FS_Subset DEF ConfigInv, AnswerInv
  <2>8. PageInv'
    BY <2>3, <2>5 DEF ConfigInv, PageInv
  <2>9. QED BY <2>6, <2>7, <2>8 DEF ConfigInv
<1>8. ASSUME NEW a \in answers, OnStatus(a) PROVE ConfigInv'
  <2>1. /\ answers' \subseteq answers /\ outstanding' \subseteq outstanding
        /\ UNCHANGED <<backlog, server, client, channels, oddChannels>>
    BY <1>8 DEF OnStatus, Answered, Done, files
  <2>2. statusDue' = TRUE /\ UNCHANGED <<scanRes, options, netSelect, locked, lost>>
    BY <1>8 DEF OnStatus, lists
  <2>3. QED BY <1>1, <1>2, <2>1, <2>2 DEF ConfigInv, PageInv
<1>9. ASSUME NEW a \in answers, OnUploaded(a) PROVE ConfigInv'
  BY <1>9, ReadyKeeps DEF OnUploaded, Answered
<1>10. ASSUME NEW a \in answers, Ignore(a) PROVE ConfigInv'
  <2>1. /\ answers' \subseteq answers /\ outstanding' \subseteq outstanding
        /\ UNCHANGED <<backlog, server, client, channels, oddChannels>>
    BY <1>10 DEF Ignore, pageVars, files
  <2>2. UNCHANGED <<scanRes, options, netSelect, locked, lost, statusDue>>
    BY <1>10 DEF Ignore, pageVars, lists
  <2>3. QED BY <1>1, <1>2, <2>1, <2>2 DEF ConfigInv, PageInv
<1>11. ASSUME NEW r \in outstanding, OnFailure(r) PROVE ConfigInv'
  <2>1. /\ answers' \subseteq answers /\ outstanding' \subseteq outstanding
        /\ UNCHANGED <<backlog, server, client, channels, oddChannels>>
    BY <1>11 DEF OnFailure, serverVars, files
  <2>2. lost' \in BOOLEAN /\ UNCHANGED <<scanRes, options, netSelect, locked, statusDue>>
    BY <1>11 DEF OnFailure, lists, ConfigInv, PageInv
  <2>3. QED BY <1>1, <1>2, <2>1, <2>2 DEF ConfigInv, PageInv
<1>12. ASSUME NEW r \in outstanding, UploadFailed(r) PROVE ConfigInv'
  BY <1>12, ReadyKeeps DEF UploadFailed
<1>13. ASSUME NEW a \in answers, OnUnreadable(a) PROVE ConfigInv'
  <2>1. /\ answers' \subseteq answers /\ outstanding' \subseteq outstanding
        /\ UNCHANGED <<backlog, server, client, channels, oddChannels>>
    BY <1>13 DEF OnUnreadable, Answered, Done, files
  <2>2. lost' = TRUE /\ UNCHANGED <<scanRes, options, netSelect, locked, statusDue>>
    BY <1>13 DEF OnUnreadable, lists
  <2>3. QED BY <1>1, <1>2, <2>1, <2>2 DEF ConfigInv, PageInv
<1>14. QED
  BY <1>4, <1>5, <1>6, <1>7, <1>8, <1>9, <1>10, <1>11, <1>12, <1>13 DEF Callback

\* The other steps of the page and of the network between.
LEMMA NetworkKeeps ==
  ASSUME ConfigInv, Poll \/ OpenAhead \/ (\E a \in answers : AnswerLost(a))
  PROVE  ConfigInv'
<1>1. CASE Poll
  <2>1. FreshId \in Nat
    BY FreshIds DEF ConfigInv, Ids
  <2>2. /\ Request(FreshId, "status") \in Requests /\ Request(FreshId, "status").id = FreshId
        /\ Request(FreshId, "status").kind \in Kinds /\ Posted(Request(FreshId, "status"))
    BY <2>1, RequestIs DEF Kinds
  <2>3. /\ Send(Request(FreshId, "status"))
        /\ statusDue' = FALSE /\ UNCHANGED <<locked, scanRes, options, netSelect, lost>>
    BY <1>1 DEF Poll, lists
  <2>4. QED BY <2>2, <2>3, Sent DEF ConfigInv, PageInv
<1>2. CASE OpenAhead
  <2>1. /\ backlog' = Append(backlog, NoClient)
        /\ UNCHANGED <<server, client, answers, channels, oddChannels, outstanding, locked,
                       scanRes, options, netSelect, statusDue, lost>>
    BY <1>2 DEF OpenAhead, files, pageVars, lists
  <2>2. Apart(backlog', client) /\ Unanswered(backlog', client, answers)
    BY <2>1, NoneFree, Queued DEF ConfigInv, ConnectionInv, AnswerInv
  <2>3. QED BY <2>1, <2>2 DEF ConfigInv, ConnectionInv, AnswerInv, PageInv
<1>3. ASSUME NEW a \in answers, AnswerLost(a) PROVE ConfigInv'
  <2>1. /\ answers' \subseteq answers
        /\ UNCHANGED <<backlog, server, client, channels, oddChannels, outstanding, locked,
                       scanRes, options, netSelect, statusDue, lost>>
    BY <1>3 DEF AnswerLost, files, pageVars, lists
  <2>2. QED
    BY <2>1, FS_Subset DEF ConfigInv, ConnectionInv, AnswerInv, PageInv, Unanswered
<1>4. QED BY <1>1, <1>2, <1>3

LEMMA ConfigInvInit == Init => ConfigInv
<1>1. SUFFICES ASSUME Init PROVE ConfigInv
  OBVIOUS
<1> DEFINE s == Request(1, "status")
           l == Request(2, "channels")
<1>2. /\ s \in Requests /\ s.id = 1 /\ s.kind = "status" /\ Sound(s)
      /\ l \in Requests /\ l.id = 2 /\ l.kind = "channels" /\ Sound(l)
  BY RequestIs DEF Ids, Kinds, Locking, Sound
<1>3. backlog = <<s, l>>
  BY <1>1 DEF Init, PageInit, OnLoad
<1> HIDE DEF s, l
<1>4. /\ backlog \in Seq(Requests) /\ DOMAIN backlog = {1, 2} /\ backlog[1] = s /\ backlog[2] = l
  BY <1>2, <1>3
<1>5. /\ server = "idle" /\ client = NoClient /\ answers = {} /\ channels = 0 /\ oddChannels = 0
  BY <1>1 DEF Init, ServerInit
<1>6. Apart(backlog, NoClient) /\ Unanswered(backlog, NoClient, {})
  BY <1>2, <1>4, NoneFree DEF Apart, Unanswered
<1>7. ConnectionInv
  BY <1>5, <1>6 DEF ConnectionInv
<1>8. AnswerInv
  BY <1>5, FS_EmptySet, BoundsAssumption DEF AnswerInv
<1>9. PageInv
  <2> DEFINE x == [id |-> 1, kind |-> "status"]
             y == [id |-> 2, kind |-> "channels"]
  <2>1. x \in [id: Ids, kind: Kinds] /\ y \in [id: Ids, kind: Kinds] /\ x.id # y.id
    BY DEF Ids, Kinds, Locking
  <2>2. outstanding = {x} \cup {y}
    BY <1>1 DEF Init, PageInit, Loading
  <2>3. /\ locked = TRUE /\ statusDue = FALSE /\ lost = FALSE
        /\ scanRes = [of |-> "none", n |-> 0] /\ options = 0 /\ netSelect = -1
    BY <1>1 DEF Init, PageInit, NoScan
  <2> HIDE DEF x, y
  <2>4. IsFiniteSet(outstanding)
    BY ONLY <2>2, FS_Singleton, FS_AddElement
  <2>5. scanRes \in [of: {"none", "networks", "channels"}, n: Nat] /\ scanRes.of # "networks"
    BY <2>3
  <2>6. options \in {0, Len(Networks)} /\ netSelect \in -1..(options - 1)
    BY <2>3
  <2>7. outstanding \subseteq [id: Ids, kind: Kinds]
    BY <2>1, <2>2
  <2>8. \A r1, r2 \in outstanding : r1.id = r2.id => r1 = r2
    BY <2>1, <2>2
  <2>9. QED BY <2>3, <2>4, <2>5, <2>6, <2>7, <2>8 DEF PageInv, Distinct
<1>10. QED BY <1>7, <1>8, <1>9 DEF ConfigInv

\* Every step keeps the invariant.
LEMMA ConfigInvNext == ConfigInv /\ [Next]_vars => ConfigInv'
<1>1. SUFFICES ASSUME ConfigInv, [Next]_vars PROVE ConfigInv'
  OBVIOUS
<1>2. ASSUME UNCHANGED pageVars, ConnectionInv' /\ AnswerInv' PROVE ConfigInv'
  BY <1>1, <1>2 DEF ConfigInv, PageInv, pageVars, lists
<1>3. CASE UNCHANGED vars
  BY <1>1, <1>3
     DEF ConfigInv, ConnectionInv, AnswerInv, PageInv, vars, pageVars, lists, serverVars, files
<1>4. CASE Serve \/ Tested \/ Restart
  BY <1>1, <1>2, <1>4, ServerConnections DEF Serve, Tested, Restart, ConfigInv
<1>5. CASE User \/ Callback
  BY <1>1, <1>5, UserKeeps, CallbackKeeps
<1>6. CASE Poll \/ OpenAhead \/ (\E a \in answers : AnswerLost(a))
  BY <1>1, <1>6, NetworkKeeps
<1>7. QED BY <1>1, <1>3, <1>4, <1>5, <1>6 DEF Next

\* No two connections of the page are mixed up, whatever is reordered or lost, and
\* what the page and the server keep is of the kind the code takes it for (TypeOK).
THEOREM TypeCorrect == Spec => []TypeOK
<1>1. ConfigInv => TypeOK
  BY InvIsTypeOK DEF ConfigInv
<1>2. QED BY <1>1, ConfigInvInit, ConfigInvNext, PTL DEF Spec
-----------------------------------------------------------------------------
(* Uploads: where the parts of the body are, and what the three searches make of a *)
(* beginning of it, whatever the picture and wherever the beginning ends. *)

\* The texts the server looks for.
Headers == CRLF \o CRLF
Ending  == CRLF \o Boundary

LEMMA MarksAre ==
  /\ Boundary \in Seq(Characters) /\ Len(Boundary) = 3
  /\ Boundary[1] = "-" /\ Boundary[2] = "-" /\ Boundary[3] = "b"
  /\ CRLF \in Seq(Characters) /\ Len(CRLF) = 2 /\ CRLF[1] = "\r" /\ CRLF[2] = "\n"
  /\ Headers \in Seq(Characters) /\ Len(Headers) = 4
  /\ Headers[1] = "\r" /\ Headers[2] = "\n" /\ Headers[3] = "\r" /\ Headers[4] = "\n"
  /\ Ending \in Seq(Characters) /\ Len(Ending) = 5
  /\ Ending[1] = "\r" /\ Ending[2] = "\n"
  /\ Ending[3] = "-" /\ Ending[4] = "-" /\ Ending[5] = "b"
<1>1. "-" \in Characters /\ "b" \in Characters /\ "\r" \in Characters /\ "\n" \in Characters
  BY DEF Characters, Special
<1>2. /\ Boundary \in Seq(Characters) /\ Len(Boundary) = 3
      /\ Boundary[1] = "-" /\ Boundary[2] = "-" /\ Boundary[3] = "b"
  BY <1>1 DEF Boundary
<1>3. CRLF \in Seq(Characters) /\ Len(CRLF) = 2 /\ CRLF[1] = "\r" /\ CRLF[2] = "\n"
  BY <1>1 DEF CRLF
<1>4. /\ Headers \in Seq(Characters) /\ Len(Headers) = 4
      /\ \A i \in 1..4 : Headers[i] = IF i <= 2 THEN CRLF[i] ELSE CRLF[i - 2]
  <2>1. /\ Headers \in Seq(Characters) /\ Len(Headers) = Len(CRLF) + Len(CRLF)
        /\ \A i \in 1..(Len(CRLF) + Len(CRLF)) :
             Headers[i] = IF i <= Len(CRLF) THEN CRLF[i] ELSE CRLF[i - Len(CRLF)]
    BY ONLY <1>3, Joined DEF Headers
  <2>2. QED BY ONLY <1>3, <2>1
<1>5. /\ Ending \in Seq(Characters) /\ Len(Ending) = 5
      /\ \A i \in 1..5 : Ending[i] = IF i <= 2 THEN CRLF[i] ELSE Boundary[i - 2]
  <2>1. /\ Ending \in Seq(Characters) /\ Len(Ending) = Len(CRLF) + Len(Boundary)
        /\ \A i \in 1..(Len(CRLF) + Len(Boundary)) :
             Ending[i] = IF i <= Len(CRLF) THEN CRLF[i] ELSE Boundary[i - Len(CRLF)]
    BY ONLY <1>2, <1>3, Joined DEF Ending
  <2>2. QED BY ONLY <1>2, <1>3, <2>1
<1>6. /\ Headers[1] = "\r" /\ Headers[2] = "\n" /\ Headers[3] = "\r" /\ Headers[4] = "\n"
  BY <1>3, <1>4
<1>7. /\ Ending[1] = "\r" /\ Ending[2] = "\n" /\ Ending[3] = "-" /\ Ending[4] = "-"
      /\ Ending[5] = "b"
  BY <1>2, <1>3, <1>5
<1>8. QED BY <1>2, <1>3, <1>4, <1>5, <1>6, <1>7

\* What is where in the body of an upload.
MultipartOf(body, p) ==
  /\ body \in Seq(Characters) /\ Len(body) = 21 + Len(p)
  /\ Holds(body, 0, Boundary) /\ Holds(body, 3, <<"c">>) /\ Holds(body, 4, CRLF)
  /\ Holds(body, 6, <<"h">>) /\ Holds(body, 7, CRLF) /\ Holds(body, 9, CRLF)
  /\ Holds(body, 11, p) /\ Holds(body, 11 + Len(p), CRLF) /\ Holds(body, 13 + Len(p), Boundary)

LEMMA MultipartIs == ASSUME NEW p \in Pictures PROVE MultipartOf(Multipart(p), p)
<1> DEFINE c == <<"c">>
           h == <<"h">>
           end == <<"-", "-">>
           L == Len(p)
           line == Boundary \o c
           x1 == line \o CRLF
           x2 == x1 \o h
           x3 == x2 \o CRLF
           x4 == x3 \o CRLF
           x5 == x4 \o p
           x6 == x5 \o CRLF
           x7 == x6 \o line
           x8 == x7 \o end
           x9 == x8 \o CRLF
<1>1. Multipart(p) = x9
  BY DEF Multipart
<1>2. p \in Seq(Characters) /\ L \in Nat
  <2>1. \A S, T : S \subseteq T => Seq(S) \subseteq Seq(T)
    OBVIOUS
  <2>2. QED BY <2>1, PicturesAssumption DEF Characters
<1>3. c \in Seq(Characters) /\ h \in Seq(Characters) /\ end \in Seq(Characters)
  BY DEF Characters, Special
<1>4. Len(c) = 1 /\ Len(h) = 1 /\ Len(end) = 2
  OBVIOUS
<1>5. /\ Boundary \in Seq(Characters) /\ Len(Boundary) = 3 /\ CRLF \in Seq(Characters)
      /\ Len(CRLF) = 2
  BY MarksAre
<1>6. Holds(Boundary, 0, Boundary)
  BY <1>5 DEF Holds
<1> HIDE DEF c, h, end, L
<1>7. /\ line \in Seq(Characters) /\ Len(line) = 4 /\ Holds(line, 0, Boundary) /\ Holds(line, 3, c)
  <2>1. /\ line \in Seq(Characters) /\ Len(line) = Len(Boundary) + Len(c)
        /\ Holds(line, Len(Boundary), c)
        /\ \A o : \A u \in Seq(Characters) : Holds(Boundary, o, u) => Holds(line, o, u)
    BY ONLY <1>3, <1>5, JoinedHolds
  <2> HIDE DEF line
  <2>2. QED BY ONLY <1>4, <1>5, <1>6, <2>1
<1> HIDE DEF line
<1>8. /\ x1 \in Seq(Characters) /\ Len(x1) = 6 /\ Holds(x1, 4, CRLF)
      /\ \A o : \A u \in Seq(Characters) : Holds(line, o, u) => Holds(x1, o, u)
  <2>1. /\ x1 \in Seq(Characters) /\ Len(x1) = Len(line) + Len(CRLF)
        /\ Holds(x1, Len(line), CRLF)
        /\ \A o : \A u \in Seq(Characters) : Holds(line, o, u) => Holds(x1, o, u)
    BY ONLY <1>5, <1>7, JoinedHolds
  <2> HIDE DEF x1
  <2>2. Len(line) = 4 /\ Len(line) + Len(CRLF) = 6
    BY ONLY <1>5, <1>7
  <2>3. QED BY ONLY <2>1, <2>2
<1> HIDE DEF x1
<1>9. /\ x2 \in Seq(Characters) /\ Len(x2) = 7 /\ Holds(x2, 6, h)
      /\ \A o : \A u \in Seq(Characters) : Holds(x1, o, u) => Holds(x2, o, u)
  <2>1. /\ x2 \in Seq(Characters) /\ Len(x2) = Len(x1) + Len(h)
        /\ Holds(x2, Len(x1), h)
        /\ \A o : \A u \in Seq(Characters) : Holds(x1, o, u) => Holds(x2, o, u)
    BY ONLY <1>3, <1>8, JoinedHolds
  <2> HIDE DEF x2
  <2>2. Len(x1) = 6 /\ Len(x1) + Len(h) = 7
    BY ONLY <1>4, <1>8
  <2>3. QED BY ONLY <2>1, <2>2
<1> HIDE DEF x2
<1>10. /\ x3 \in Seq(Characters) /\ Len(x3) = 9 /\ Holds(x3, 7, CRLF)
       /\ \A o : \A u \in Seq(Characters) : Holds(x2, o, u) => Holds(x3, o, u)
  <2>1. /\ x3 \in Seq(Characters) /\ Len(x3) = Len(x2) + Len(CRLF)
        /\ Holds(x3, Len(x2), CRLF)
        /\ \A o : \A u \in Seq(Characters) : Holds(x2, o, u) => Holds(x3, o, u)
    BY ONLY <1>5, <1>9, JoinedHolds
  <2> HIDE DEF x3
  <2>2. Len(x2) = 7 /\ Len(x2) + Len(CRLF) = 9
    BY ONLY <1>5, <1>9
  <2>3. QED BY ONLY <2>1, <2>2
<1> HIDE DEF x3
<1>11. /\ x4 \in Seq(Characters) /\ Len(x4) = 11 /\ Holds(x4, 9, CRLF)
       /\ \A o : \A u \in Seq(Characters) : Holds(x3, o, u) => Holds(x4, o, u)
  <2>1. /\ x4 \in Seq(Characters) /\ Len(x4) = Len(x3) + Len(CRLF)
        /\ Holds(x4, Len(x3), CRLF)
        /\ \A o : \A u \in Seq(Characters) : Holds(x3, o, u) => Holds(x4, o, u)
    BY ONLY <1>5, <1>10, JoinedHolds
  <2> HIDE DEF x4
  <2>2. Len(x3) = 9 /\ Len(x3) + Len(CRLF) = 11
    BY ONLY <1>5, <1>10
  <2>3. QED BY ONLY <2>1, <2>2
<1> HIDE DEF x4
<1>12. /\ x5 \in Seq(Characters) /\ Len(x5) = 11 + L /\ Holds(x5, 11, p)
       /\ \A o : \A u \in Seq(Characters) : Holds(x4, o, u) => Holds(x5, o, u)
  <2>1. /\ x5 \in Seq(Characters) /\ Len(x5) = Len(x4) + Len(p)
        /\ Holds(x5, Len(x4), p)
        /\ \A o : \A u \in Seq(Characters) : Holds(x4, o, u) => Holds(x5, o, u)
    BY ONLY <1>2, <1>11, JoinedHolds
  <2> HIDE DEF x5
  <2>2. Len(x4) = 11 /\ Len(x4) + Len(p) = 11 + L
    BY ONLY <1>2, <1>11 DEF L
  <2>3. QED BY ONLY <2>1, <2>2
<1> HIDE DEF x5
<1>13. /\ x6 \in Seq(Characters) /\ Len(x6) = 13 + L /\ Holds(x6, 11 + L, CRLF)
       /\ \A o : \A u \in Seq(Characters) : Holds(x5, o, u) => Holds(x6, o, u)
  <2>1. /\ x6 \in Seq(Characters) /\ Len(x6) = Len(x5) + Len(CRLF)
        /\ Holds(x6, Len(x5), CRLF)
        /\ \A o : \A u \in Seq(Characters) : Holds(x5, o, u) => Holds(x6, o, u)
    BY ONLY <1>5, <1>12, JoinedHolds
  <2> HIDE DEF x6
  <2>2. Len(x5) = 11 + L /\ Len(x5) + Len(CRLF) = 13 + L
    BY ONLY <1>2, <1>5, <1>12
  <2>3. QED BY ONLY <2>1, <2>2
<1> HIDE DEF x6
<1>14. /\ x7 \in Seq(Characters) /\ Len(x7) = 17 + L /\ Holds(x7, 13 + L, line)
       /\ \A o : \A u \in Seq(Characters) : Holds(x6, o, u) => Holds(x7, o, u)
  <2>1. /\ x7 \in Seq(Characters) /\ Len(x7) = Len(x6) + Len(line)
        /\ Holds(x7, Len(x6), line)
        /\ \A o : \A u \in Seq(Characters) : Holds(x6, o, u) => Holds(x7, o, u)
    BY ONLY <1>7, <1>13, JoinedHolds
  <2> HIDE DEF x7
  <2>2. Len(x6) = 13 + L /\ Len(x6) + Len(line) = 17 + L
    BY ONLY <1>2, <1>7, <1>13
  <2>3. QED BY ONLY <2>1, <2>2
<1> HIDE DEF x7
<1>15. Holds(x7, 13 + L, Boundary)
  <2>1. /\ \A j \in 1..4 : x7[(13 + L) + j] = line[j] 
        /\ (13 + L) + 4 <= Len(x7) /\ \A j \in 1..3 : line[0 + j] = Boundary[j]
    BY <1>5, <1>7, <1>14 DEF Holds
  <2>2. \A j \in 1..3 : 0 + j = j /\ j \in 1..4
    OBVIOUS
  <2>3. 13 + L \in Nat /\ (13 + L) + 3 <= Len(x7)
    BY <1>2, <1>14
  <2>4. QED BY <1>5, <2>1, <2>2, <2>3 DEF Holds
<1>16. /\ x8 \in Seq(Characters) /\ Len(x8) = 19 + L /\ Holds(x8, 17 + L, end)
       /\ \A o : \A u \in Seq(Characters) : Holds(x7, o, u) => Holds(x8, o, u)
  <2>1. /\ x8 \in Seq(Characters) /\ Len(x8) = Len(x7) + Len(end)
        /\ Holds(x8, Len(x7), end)
        /\ \A o : \A u \in Seq(Characters) : Holds(x7, o, u) => Holds(x8, o, u)
    BY ONLY <1>3, <1>14, JoinedHolds
  <2> HIDE DEF x8
  <2>2. Len(x7) = 17 + L /\ Len(x7) + Len(end) = 19 + L
    BY ONLY <1>2, <1>4, <1>14
  <2>3. QED BY ONLY <2>1, <2>2
<1> HIDE DEF x8
<1>17. /\ x9 \in Seq(Characters) /\ Len(x9) = 21 + L /\ Holds(x9, 19 + L, CRLF)
       /\ \A o : \A u \in Seq(Characters) : Holds(x8, o, u) => Holds(x9, o, u)
  <2>1. /\ x9 \in Seq(Characters) /\ Len(x9) = Len(x8) + Len(CRLF)
        /\ Holds(x9, Len(x8), CRLF)
        /\ \A o : \A u \in Seq(Characters) : Holds(x8, o, u) => Holds(x9, o, u)
    BY ONLY <1>5, <1>16, JoinedHolds
  <2> HIDE DEF x9
  <2>2. Len(x8) = 19 + L /\ Len(x8) + Len(CRLF) = 21 + L
    BY ONLY <1>2, <1>5, <1>16
  <2>3. QED BY ONLY <2>1, <2>2
<1> HIDE DEF x9
<1>18. \A o : \A u \in Seq(Characters) :
         /\ Holds(line, o, u) => Holds(x4, o, u)
         /\ Holds(x4, o, u) => Holds(x9, o, u)
  BY ONLY <1>8, <1>9, <1>10, <1>11, <1>12, <1>13, <1>14, <1>16, <1>17
<1>19. /\ Holds(x9, 0, Boundary) /\ Holds(x9, 3, c) /\ Holds(x9, 4, CRLF) /\ Holds(x9, 6, h)
       /\ Holds(x9, 7, CRLF) /\ Holds(x9, 9, CRLF)
  BY ONLY <1>3, <1>5, <1>7, <1>8, <1>9, <1>10, <1>11, <1>18
<1>20. Holds(x9, 11, p) /\ Holds(x9, 11 + L, CRLF) /\ Holds(x9, 13 + L, Boundary)
  BY ONLY <1>2, <1>5, <1>12, <1>13, <1>14, <1>15, <1>16, <1>17
<1>21. MultipartOf(x9, p)
  BY ONLY <1>17, <1>19, <1>20 DEF MultipartOf, L, c, h
<1>22. QED BY <1>1, <1>21

\* The first boundary is found where it is, at the beginning.
LEMMA BoundaryFirst ==
  ASSUME NEW p, Len(p) \in Nat, NEW whole, MultipartOf(whole, p),
         NEW body \in Seq(Characters), Len(body) <= Len(whole),
         \A j \in 1..Len(body) : body[j] = whole[j],
         KmpSearch(Boundary, body).found
  PROVE  KmpSearch(Boundary, body).read = 3 /\ 3 <= Len(body)
<1> DEFINE s == KmpSearch(Boundary, body)
           n == Boundary
<1>1. n \in Seq(Characters) /\ n # <<>> /\ Len(n) = 3
  <2>1. n \in Seq(Characters) /\ Len(n) = 3
    BY MarksAre
  <2>2. n # <<>>
    BY DEF Boundary
  <2>3. QED BY <2>1, <2>2
<1> HIDE DEF n
<1>2. HasRead(n, body, s)
  BY <1>1, SearchIs DEF n
<1>3. s.found
  OBVIOUS
<1> HIDE DEF s
<1>4. PICK f \in 1..(Len(body) - Len(n) + 1) : FoundAt(n, body, s, f)
  BY <1>2, <1>3 DEF HasRead
<1>5. Len(body) \in Nat /\ 3 <= Len(body)
  BY <1>1, <1>4
<1>6. Occurs(n, body, 1)
  <2>1. \A j \in 1..3 : whole[0 + j] = n[j]
    BY <1>1 DEF MultipartOf, Holds, n
  <2>2. \A j \in 1..3 : 0 + j = 1 - 1 + j /\ 1 - 1 + j \in 1..Len(body)
    BY <1>5
  <2>3. QED BY <1>1, <2>1, <2>2 DEF Occurs
<1>7. f = 1
  <2>1. 1 \notin 1..(f - 1)
    BY <1>4, <1>6 DEF FoundAt
  <2>2. QED BY <2>1, <1>4
<1>8. s.read = f + Len(n) - 1
  BY <1>4 DEF FoundAt
<1>9. QED BY <1>1, <1>5, <1>7, <1>8 DEF s

\* And the end of the headers is found at theirs, which leaves the picture.
LEMMA HeadersNext ==
  ASSUME NEW p, Len(p) \in Nat, NEW whole, MultipartOf(whole, p),
         NEW rest \in Seq(Characters), 3 + Len(rest) <= Len(whole),
         \A j \in 1..Len(rest) : rest[j] = whole[3 + j],
         KmpSearch(Headers, rest).found
  PROVE  KmpSearch(Headers, rest).read = 8 /\ 8 <= Len(rest)
<1> DEFINE s == KmpSearch(Headers, rest)
           n == Headers
<1>1. /\ n \in Seq(Characters) /\ n # <<>> /\ Len(n) = 4
      /\ n[1] = "\r" /\ n[2] = "\n" /\ n[3] = "\r" /\ n[4] = "\n"
  <2>1. /\ n \in Seq(Characters) /\ Len(n) = 4
        /\ n[1] = "\r" /\ n[2] = "\n" /\ n[3] = "\r" /\ n[4] = "\n"
    BY MarksAre
  <2> HIDE DEF n
  <2>2. Len(<<>>) # Len(n)
    BY <2>1
  <2>3. QED BY <2>1, <2>2
<1> HIDE DEF n
<1>2. HasRead(n, rest, s)
  BY <1>1, SearchIs DEF n
<1>3. s.found
  OBVIOUS
<1> HIDE DEF s
<1>4. PICK f \in 1..(Len(rest) - Len(n) + 1) : FoundAt(n, rest, s, f)
  BY <1>2, <1>3 DEF HasRead
<1>5. Len(rest) \in Nat
  OBVIOUS
<1>6. /\ whole[4] = "c" /\ whole[5] = "\r" /\ whole[6] = "\n" /\ whole[7] = "h"
      /\ whole[8] = "\r" /\ whole[9] = "\n" /\ whole[10] = "\r" /\ whole[11] = "\n"
  <2>1. /\ Holds(whole, 3, <<"c">>) /\ Holds(whole, 4, CRLF) /\ Holds(whole, 6, <<"h">>)
        /\ Holds(whole, 7, CRLF) /\ Holds(whole, 9, CRLF)
    BY DEF MultipartOf
  <2>2. whole[3 + 1] = "c" /\ whole[6 + 1] = "h"
    BY <2>1 DEF Holds
  <2>3. \A o : Holds(whole, o, CRLF) => whole[o + 1] = "\r" /\ whole[o + 2] = "\n"
    BY MarksAre DEF Holds
  <2>4. /\ whole[4 + 1] = "\r" /\ whole[4 + 2] = "\n" /\ whole[7 + 1] = "\r" /\ whole[7 + 2] = "\n"
        /\ whole[9 + 1] = "\r" /\ whole[9 + 2] = "\n"
    BY <2>1, <2>3
  <2>5. QED BY <2>2, <2>4
<1>7. \A j \in 1..4 : f - 1 + j \in 1..Len(rest) /\ rest[f - 1 + j] = n[j]
  <2>1. \A j \in 1..4 : f - 1 + j \in 1..Len(rest)
    BY <1>1, <1>4, <1>5
  <2>2. QED BY <1>1, <1>4, <2>1 DEF FoundAt, Occurs
<1>8. \A j \in 1..4 : whole[3 + (f - 1 + j)] = n[j]
  BY <1>7
<1>9. whole[f + 3] = "\r" /\ whole[f + 5] = "\r"
  <2>1. /\ 3 + (f - 1 + 1) = f + 3 /\ 3 + (f - 1 + 3) = f + 5
    BY <1>4
  <2>2. whole[3 + (f - 1 + 1)] = n[1] /\ whole[3 + (f - 1 + 3)] = n[3]
    BY <1>8
  <2>3. QED BY <1>1, <2>1, <2>2
<1>10. f \notin {1, 2, 3, 4}
  <2>1. f = 1 => f + 3 = 4
    OBVIOUS
  <2>2. f = 2 => f + 5 = 7
    OBVIOUS
  <2>3. f = 3 => f + 3 = 6
    OBVIOUS
  <2>4. f = 4 => f + 3 = 7
    OBVIOUS
  <2>5. "c" # "\r" /\ "h" # "\r" /\ "\n" # "\r"
    OBVIOUS
  <2>6. QED BY ONLY <1>6, <1>9, <2>1, <2>2, <2>3, <2>4, <2>5
<1>11. f \in Nat /\ 5 <= f /\ 8 <= Len(rest)
  BY <1>1, <1>4, <1>5, <1>10
<1>12. Occurs(n, rest, 5)
  <2>1. \A j \in 1..4 : 5 - 1 + j = 4 + j /\ 4 + j \in 1..Len(rest)
    BY <1>11
  <2>2. \A j \in 1..4 : rest[5 - 1 + j] = whole[3 + (4 + j)]
    BY <2>1
  <2>3. \A j \in 1..4 : whole[3 + (4 + j)] = n[j]
    <3>1. \A j \in 1..4 : j = 1 \/ j = 2 \/ j = 3 \/ j = 4
      OBVIOUS
    <3>2. /\ whole[3 + (4 + 1)] = n[1] /\ whole[3 + (4 + 2)] = n[2]
          /\ whole[3 + (4 + 3)] = n[3] /\ whole[3 + (4 + 4)] = n[4]
      BY <1>1, <1>6
    <3>3. QED BY <3>1, <3>2
  <2>4. QED BY <1>1, <2>2, <2>3 DEF Occurs
<1>13. f = 5
  <2>1. 5 \notin 1..(f - 1)
    BY <1>4, <1>12 DEF FoundAt
  <2>2. QED BY <1>11, <2>1
<1>14. s.read = f + Len(n) - 1
  BY <1>4 DEF FoundAt
<1>15. QED BY <1>1, <1>11, <1>13, <1>14 DEF s

\* What is then written is the picture, or a beginning of it.
LEMMA PictureLast ==
  ASSUME NEW p \in Pictures, NEW whole, MultipartOf(whole, p),
         NEW rest \in Seq(Characters), 11 + Len(rest) <= Len(whole),
         \A j \in 1..Len(rest) : rest[j] = whole[11 + j]
  PROVE  LET part == KmpSearch(Ending, rest).written
         IN  /\ IsPrefix(part, p)
             /\ 11 + Len(rest) = Len(whole) => part = p
<1> DEFINE s == KmpSearch(Ending, rest)
           n == Ending
           L == Len(p)
           part == s.written
<1>1. /\ n \in Seq(Characters) /\ n # <<>> /\ Len(n) = 5
      /\ n[1] = "\r" /\ n[2] = "\n" /\ n[3] = "-" /\ n[4] = "-" /\ n[5] = "b"
  <2>1. /\ n \in Seq(Characters) /\ Len(n) = 5
        /\ n[1] = "\r" /\ n[2] = "\n" /\ n[3] = "-" /\ n[4] = "-" /\ n[5] = "b"
    BY MarksAre
  <2> HIDE DEF n
  <2>2. Len(<<>>) # Len(n)
    BY <2>1
  <2>3. QED BY <2>1, <2>2
<1> HIDE DEF n
<1>2. HasRead(n, rest, s)
  BY <1>1, SearchIs DEF n
<1> HIDE DEF s
<1>3. p \in Seq(Characters) /\ L \in Nat /\ \A i \in 1..(L - 4) : SubSeq(p, i, i + 4) # n
  <2>1. p \in Seq(STRING) /\ \A i \in 1..(L - 4) : SubSeq(p, i, i + 4) # n
    BY PicturesAssumption DEF n, Ending
  <2>2. \A S, T : S \subseteq T => Seq(S) \subseteq Seq(T)
    OBVIOUS
  <2>3. p \in Seq(Characters)
    BY <2>1, <2>2 DEF Characters
  <2>4. QED BY <2>1, <2>3
<1> DEFINE R == Len(rest)
<1>4. R \in Nat /\ R <= L + 10 /\ (11 + R = Len(whole) => R = L + 10)
  BY <1>3 DEF MultipartOf
<1>5. \A j \in 1..L : whole[11 + j] = p[j]
  BY DEF MultipartOf, Holds
<1>6. \A j \in 1..5 : whole[11 + (L + j)] = n[j]
  <2>1. \A j \in 1..2 : whole[11 + L + j] = CRLF[j]
    BY MarksAre DEF MultipartOf, Holds
  <2>2. \A j \in 1..3 : whole[13 + L + j] = Boundary[j]
    BY MarksAre DEF MultipartOf, Holds
  <2>3. /\ whole[11 + (L + 1)] = CRLF[1] /\ whole[11 + (L + 2)] = CRLF[2]
        /\ whole[11 + (L + 3)] = Boundary[1] /\ whole[11 + (L + 4)] = Boundary[2]
        /\ whole[11 + (L + 5)] = Boundary[3]
    <3>1. /\ 11 + (L + 1) = 11 + L + 1 /\ 11 + (L + 2) = 11 + L + 2
          /\ 11 + (L + 3) = 13 + L + 1 /\ 11 + (L + 4) = 13 + L + 2
          /\ 11 + (L + 5) = 13 + L + 3
      BY <1>3
    <3>2. QED BY <2>1, <2>2, <3>1
  <2>4. \A j \in 1..5 : j = 1 \/ j = 2 \/ j = 3 \/ j = 4 \/ j = 5
    OBVIOUS
  <2>5. QED BY <1>1, <2>3, <2>4, MarksAre
<1> HIDE DEF L, R
<1>7. \A j \in 1..L : j <= R => rest[j] = p[j]
  <2>1. \A j \in 1..L : j <= R => j \in 1..Len(rest)
    BY <1>3, <1>4 DEF R
  <2>2. QED BY <1>5, <2>1
<1>8. \A j \in 1..5 : L + j <= R => rest[L + j] = n[j]
  <2>1. \A j \in 1..5 : L + j <= R => L + j \in 1..Len(rest)
    BY <1>3, <1>4 DEF R
  <2>2. QED BY <1>6, <2>1
<1>9. part \in Seq(Characters)
  BY <1>2 DEF HasRead, Searches
\* The next boundary does not begin within the picture.
<1>10. ASSUME NEW f \in 1..(R - 5 + 1), Occurs(n, rest, f) PROVE f >= L + 1
  <2>1. SUFFICES ASSUME f <= L PROVE FALSE
    BY <1>3
  <2>2. \A j \in 1..5 : rest[f - 1 + j] = n[j]
    BY <1>1, <1>10 DEF Occurs
  <2>3. CASE f + 4 <= L
    <3>1. f \in 1..(L - 4)
      BY <1>3, <2>3
    <3>2. \A j \in 1..5 : f - 1 + j \in 1..L /\ f - 1 + j <= R
      BY <1>3, <1>4, <2>3
    <3>3. \A j \in 1..5 : p[f - 1 + j] = n[j]
      BY <1>7, <2>2, <3>2
    <3> DEFINE cut == SubSeq(p, f, f + 4)
    <3>4. cut \in Seq(Characters) /\ Len(cut) = 5 /\ \A j \in 1..5 : cut[j] = p[f - 1 + j]
      BY <1>3, <3>1 DEF L
    <3> HIDE DEF cut
    <3>5. cut = n
      BY ONLY <1>1, <3>3, <3>4, SameSequence
    <3>6. QED BY ONLY <1>3, <3>1, <3>5 DEF cut
  <2>4. CASE ~(f + 4 <= L)
    <3> DEFINE k == L - f + 2
    <3>1. k \in 2..5 /\ k \in 1..5 /\ f - 1 + k = L + 1 /\ L + 1 <= R
      BY <1>3, <1>4, <2>1, <2>4
    <3>2. n[k] = n[1]
      BY <1>8, <2>2, <3>1
    <3> HIDE DEF k
    <3>3. k = 2 \/ k = 3 \/ k = 4 \/ k = 5
      BY <3>1
    <3>4. QED BY <1>1, <3>2, <3>3
  <2>5. QED BY <2>3, <2>4
<1>11. L + 5 <= R => Occurs(n, rest, L + 1) /\ L + 1 \in 1..(R - 5 + 1)
  <2>1. SUFFICES ASSUME L + 5 <= R PROVE Occurs(n, rest, L + 1) /\ L + 1 \in 1..(R - 5 + 1)
    OBVIOUS
  <2>2. \A j \in 1..5 : (L + 1) - 1 + j = L + j /\ L + j <= R
    BY <1>3, <1>4, <2>1
  <2>3. \A j \in 1..5 : rest[(L + 1) - 1 + j] = n[j]
    BY <1>8, <2>2
  <2>4. QED BY <1>1, <1>3, <1>4, <2>1, <2>3 DEF Occurs
<1>12. ASSUME NEW w \in Nat, w <= L, HasWritten(s, rest, w) PROVE IsPrefix(part, p)
  <2>1. Len(part) = w /\ w <= R /\ \A i \in 1..w : part[i] = rest[i]
    BY <1>12 DEF HasWritten, R
  <2>2. \A i \in 1..w : part[i] = p[i]
    <3>1. \A i \in 1..w : i \in 1..L /\ i <= R
      BY <1>3, <1>4, <1>12, <2>1
    <3>2. QED BY <1>7, <2>1, <3>1
  <2>3. QED BY <1>3, <1>9, <1>12, <2>1, <2>2, PrefixIs DEF L
<1>13. CASE s.found
  <2>1. PICK f \in 1..(R - 5 + 1) : FoundAt(n, rest, s, f)
    BY <1>1, <1>2, <1>13 DEF HasRead, R
  <2>2. f >= L + 1
    BY <1>10, <2>1 DEF FoundAt
  <2>3. f = L + 1
    <3>1. L + 5 <= R
      BY <1>3, <1>4, <2>1, <2>2
    <3>2. L + 1 \notin 1..(f - 1)
      BY <1>11, <2>1, <3>1 DEF FoundAt
    <3>3. QED BY <1>3, <2>1, <2>2, <3>2
  <2>4. HasWritten(s, rest, L)
    <3>1. f - 1 = L
      BY <1>3, <2>3
    <3>2. QED BY <2>1, <3>1 DEF FoundAt
  <2>5. part = p
    <3>1. Len(part) = L /\ L <= R /\ \A i \in 1..L : part[i] = rest[i]
      BY <2>4 DEF HasWritten, R
    <3>2. \A i \in 1..L : part[i] = p[i]
      <4>1. \A i \in 1..L : i <= R
        BY <1>3, <1>4, <3>1
      <4>2. QED BY <1>7, <3>1, <4>1
    <3>3. QED BY <1>3, <1>9, <3>1, <3>2, SameSequence DEF L
  <2>6. IsPrefix(part, p)
    BY <1>3, <1>12, <2>4
  <2>7. QED BY <2>5, <2>6 DEF s, n
<1>14. CASE ~s.found
  <2>1. Searching(n, rest, s)
    BY <1>2, <1>14 DEF HasRead
  <2>2. R < L + 5
    <3>1. \A i \in 1..(R - 5 + 1) : ~Occurs(n, rest, i)
      BY <1>1, <2>1 DEF Searching, R
    <3>2. QED BY <1>3, <1>4, <1>11, <3>1
  <2>3. /\ s.seen \in 0..4 /\ EndsWith(n, rest, s.seen) /\ HasWritten(s, rest, R - s.seen)
        /\ \A k \in 0..5 : EndsWith(n, rest, k) => k <= s.seen
    BY <1>1, <2>1 DEF Searching, R
  <2>4. R - s.seen \in Nat
    BY <1>4, <2>3 DEF EndsWith, R
  <2>5. R - s.seen <= L
    <3>1. CASE R <= L
      BY <1>3, <1>4, <2>3, <3>1
    <3>2. CASE ~(R <= L)
      <4> DEFINE d == R - L
      <4>1. d \in 1..4 /\ d \in 0..5 /\ R = L + d /\ d <= R
        BY <1>3, <1>4, <2>2, <3>2
      <4> HIDE DEF d
      <4>2. \A j \in 1..d : j \in 1..5 /\ R - d + j = L + j /\ L + j <= R
        BY <1>3, <1>4, <4>1
      <4>3. \A j \in 1..d : n[j] = rest[R - d + j]
        BY <1>8, <4>2
      <4>4. EndsWith(n, rest, d)
        BY <4>1, <4>3 DEF EndsWith, R
      <4>5. d <= s.seen
        BY <2>3, <4>1, <4>4
      <4>6. QED BY <1>3, <1>4, <2>3, <4>1, <4>5
    <3>3. QED BY <3>1, <3>2
  <2>6. IsPrefix(part, p)
    BY <1>12, <2>3, <2>4, <2>5
  <2>7. 11 + R # Len(whole)
    BY <1>3, <1>4, <2>2
  <2>8. QED BY <2>6, <2>7 DEF s, n, R
<1>15. QED BY <1>13, <1>14

\* What the handler makes of the first n characters of an upload.
LEMMA UploadIs ==
  ASSUME NEW p \in Pictures, NEW n \in 0..Len(Multipart(p)), ReadUpload[p][n].opens
  PROVE  /\ IsPrefix(ReadUpload[p][n].part, p)
         /\ n = Len(Multipart(p)) => ReadUpload[p][n].part = p
<1> DEFINE whole == Multipart(p)
           body == SubSeq(whole, 1, n)
           first == KmpSearch(Boundary, body)
           rest == Rest(body, first)
           header == KmpSearch(Headers, rest)
           tail == Rest(rest, header)
           part == KmpSearch(Ending, tail).written
<1>1. ReadUpload[p][n] = [opens |-> first.found /\ header.found, part |-> part]
  BY DEF ReadUpload, Headers, Ending
<1>2. first.found /\ header.found /\ ReadUpload[p][n].part = part
  <2> DEFINE opens == first.found /\ header.found
  <2>1. \A x, y, z : x = [opens |-> y, part |-> z] => x.opens = y /\ x.part = z
    OBVIOUS
  <2>2. ReadUpload[p][n].opens = opens /\ ReadUpload[p][n].part = part
    <3> HIDE DEF part, opens
    <3>1. ReadUpload[p][n] = [opens |-> opens, part |-> part]
      BY ONLY <1>1 DEF opens
    <3>2. QED BY ONLY <2>1, <3>1
  <2> HIDE DEF part, first, header
  <2>3. QED BY ONLY <2>2, ReadUpload[p][n].opens DEF opens
<1>3. MultipartOf(whole, p)
  BY MultipartIs
<1>4. whole \in Seq(Characters) /\ n \in 0..Len(whole)
  BY <1>3 DEF MultipartOf
<1> HIDE DEF whole
<1>5. body \in Seq(Characters) /\ Len(body) = n /\ \A j \in 1..n : body[j] = whole[j]
  BY ONLY <1>4, Pieces
<1>6. Len(p) \in Nat
  BY PicturesAssumption
<1>7. Len(whole) \in Nat /\ n \in Nat /\ n <= Len(whole)
  BY <1>4
<1> HIDE DEF body
<1>8. first.read = 3 /\ 3 <= n
  BY ONLY <1>2, <1>3, <1>5, <1>6, <1>7, BoundaryFirst DEF first
<1> HIDE DEF first
<1>9. /\ rest \in Seq(Characters) /\ Len(rest) = n - 3
      /\ \A j \in 1..(n - 3) : rest[j] = body[3 + j]
  <2>1. 3 \in 0..Len(body)
    BY <1>5, <1>7, <1>8
  <2>2. rest = SubSeq(body, 3 + 1, Len(body))
    BY <1>8 DEF Rest
  <2>3. QED BY ONLY <1>5, <2>1, <2>2, Pieces
<1> HIDE DEF rest
<1>10. \A j \in 1..(n - 3) : rest[j] = whole[3 + j]
  <2>1. \A j \in 1..(n - 3) : 3 + j \in 1..n
    BY <1>7
  <2>2. QED BY ONLY <1>5, <1>9, <2>1
<1>11. header.read = 8 /\ 8 <= n - 3
  <2>1. 3 + Len(rest) <= Len(whole)
    BY ONLY <1>7, <1>9
  <2>2. QED BY ONLY <1>2, <1>3, <1>6, <1>9, <1>10, <2>1, HeadersNext DEF header
<1> HIDE DEF header
<1>12. /\ tail \in Seq(Characters) /\ Len(tail) = n - 3 - 8
       /\ \A j \in 1..(n - 3 - 8) : tail[j] = rest[8 + j]
  <2>1. 8 \in 0..Len(rest)
    BY <1>7, <1>9, <1>11
  <2>2. tail = SubSeq(rest, 8 + 1, Len(rest))
    BY <1>11 DEF Rest
  <2>3. QED BY ONLY <1>9, <2>1, <2>2, Pieces
<1> HIDE DEF tail
<1>13. \A j \in 1..Len(tail) : tail[j] = whole[11 + j]
  <2>1. \A j \in 1..(n - 3 - 8) : 8 + j \in 1..(n - 3) /\ 3 + (8 + j) = 11 + j
    BY <1>7
  <2>2. QED BY ONLY <1>10, <1>12, <2>1
<1>14. 11 + Len(tail) = n
  BY ONLY <1>7, <1>12
<1>15. IsPrefix(part, p) /\ (n = Len(whole) => part = p)
  BY ONLY p \in Pictures, <1>3, <1>7, <1>12, <1>13, <1>14, PictureLast
<1> HIDE DEF part
<1>16. QED BY ONLY <1>2, <1>15 DEF whole

\* badge.bmp is the picture that was uploaded, or a beginning of it if the body was
\* not there yet: the three searches of handleUploadBadge (UploadExact).
THEOREM UploadsAreExact == Spec => []UploadExact
<1>1. Init => UploadExact
  BY DEF Init, ServerInit, UploadExact, IsPrefix
<1>2. ASSUME ConfigInv, UploadExact, NEW n \in 0..Len(Multipart(client.picture)), UploadBadge(n)
      PROVE  UploadExact'
  <2>1. client.picture \in Pictures
    BY <1>2 DEF ConfigInv, ConnectionInv, Apart, Sound, Posted, UploadBadge, Handling
  <2>2. CASE ~ReadUpload[client.picture][n].opens
    BY <1>2, <2>2 DEF UploadBadge, UploadExact
  <2>3. CASE ReadUpload[client.picture][n].opens
    <3> DEFINE p == client.picture
               part == ReadUpload[p][n].part
    <3>1. /\ bmp' = part
          /\ uploaded' = [picture |-> p, whole |-> n = Len(Multipart(p))]
      BY <1>2, <2>3 DEF UploadBadge
    <3>2. IsPrefix(part, p) /\ (n = Len(Multipart(p)) => part = p)
      BY <2>1, <2>3, UploadIs
    <3> HIDE DEF p, part
    <3>3. QED BY <3>1, <3>2 DEF UploadExact
  <2>4. QED BY <2>2, <2>3
<1>3. ASSUME [Next]_vars PROVE (\E n \in 0..Len(Multipart(client.picture)) : UploadBadge(n))
                                \/ UNCHANGED <<bmp, uploaded>>
  <2>1. CASE Serve
    BY <2>1 DEF Serve, ServerStep, Handle, Accept, AcceptGone, ReadLine, LineTimeout, SaveWifi,
                ChangeChannels, JustAnswer, files
  <2>2. CASE Tested \/ Restart
    BY <2>2 DEF Tested, Restart, WifiTested, ServerReset, files
  <2>3. CASE User
    BY <2>3 DEF User, ClickScan, ClickConnect, ClickChannel, SelectNet, Upload, Reload, Ready, Send,
                serverVars, files
  <2>4. CASE Callback
    BY <2>4 DEF Callback, OnScan, OnConnect, OnChannels, OnUnreadable, OnChanged, OnStatus, OnUploaded, Ignore,
                OnFailure, UploadFailed, Unlocks, Ready, serverVars, files
  <2>5. CASE Poll \/ OpenAhead \/ (\E a \in answers : AnswerLost(a))
    BY <2>5 DEF Poll, OpenAhead, AnswerLost, Send, files
  <2>6. CASE UNCHANGED vars
    BY <2>6 DEF vars, serverVars, files
  <2>7. QED BY <1>3, <2>1, <2>2, <2>3, <2>4, <2>5, <2>6 DEF Next
<1>4. UploadExact /\ UNCHANGED <<bmp, uploaded>> => UploadExact'
  BY DEF UploadExact
<1>5. ConfigInv /\ UploadExact /\ [Next]_vars => UploadExact'
  BY <1>2, <1>3, <1>4
<1>6. QED BY <1>1, <1>5, ConfigInvInit, ConfigInvNext, PTL DEF Spec

-----------------------------------------------------------------------------
\* Texts that writeEscaped leaves as they are: "%" and "+" it does not escape, though the
\* reading side decodes them (what becomes of those, MCSavedConfig shows).
PlainTexts == \A t \in Names \cup Passwords : Plaintext(t)

LEMMA KeysAre == IsKey(Net) /\ IsKey(Pw) /\ IsKey(Ssid) /\ Net # Pw /\ Pw # Ssid
<1>1. "net" \in Letters /\ "pw" \in Letters /\ "ssid" \in Letters
  BY DEF Letters, Characters, Special
<1>2. QED BY <1>1 DEF IsKey, Net, Pw, Ssid

LEMMA TextsAre == (\A t \in Names \cup Passwords : t \in Seq(Characters))
<1>1. \A S, T : S \subseteq T => Seq(S) \subseteq Seq(T)
  OBVIOUS
<1>2. Seq(STRING) \subseteq Seq(Characters)
  BY <1>1 DEF Characters
<1>3. Names \subseteq Seq(STRING)
  <2>1. \A i \in DOMAIN Networks : Networks[i] \in Seq(STRING)
    <3>1. Networks \in Seq(Seq(STRING))
      BY NetworksAssumption DEF NetworksAssumption
    <3>2. \A S : \A q \in Seq(S) : \A i \in DOMAIN q : q[i] \in S
      OBVIOUS
    <3>3. QED BY ONLY <3>1, <3>2
  <2>2. <<>> \in Seq(STRING)
    OBVIOUS
  <2>3. QED BY ONLY <2>1, <2>2 DEF Names, Range
<1>4. Passwords \subseteq Seq(STRING)
  BY NetworksAssumption DEF NetworksAssumption
<1>5. QED BY <1>2, <1>3, <1>4

LEMMA PlainBeginning ==
  ASSUME NEW s \in Seq(Characters), NEW t \in Seq(Characters), IsPrefix(s, t), Plaintext(t)
  PROVE  Plaintext(s)
<1>1. Len(s) <= Len(t) /\ SubSeq(s, 1, Len(s)) = SubSeq(t, 1, Len(s))
  BY DEF IsPrefix
<1>2. Len(s) \in 0..Len(s) /\ Len(s) \in 0..Len(t) /\ Len(s) \in Nat /\ Len(t) \in Nat
  BY <1>1
<1>3. /\ \A j \in 1..Len(s) : SubSeq(s, 1, Len(s))[j] = s[j]
      /\ \A j \in 1..Len(s) : SubSeq(t, 1, Len(s))[j] = t[j]
  BY <1>2, Pieces
<1>4. \A j \in 1..Len(s) : s[j] = t[j] /\ j \in 1..Len(t)
  BY ONLY <1>1, <1>2, <1>3
<1>5. DOMAIN s = 1..Len(s) /\ DOMAIN t = 1..Len(t)
  OBVIOUS
<1>6. \A j \in 1..Len(t) : t[j] \notin {"%", "+"}
  BY <1>5 DEF Plaintext
<1>7. QED BY ONLY <1>4, <1>5, <1>6 DEF Plaintext

\* What handleConfWifi reads of the first n characters of the form, if it finds both, and
\* what the next start will read in the file it writes.
LEMMA WifiSaved ==
  ASSUME PlainTexts, NEW net \in Names, NEW pw \in Passwords, NEW n \in 0..Len(WifiForm(net, pw)),
         NEW form, form = ReadForm[net][pw][n], NoValue \notin {form.net, form.pw}
  PROVE  /\ form.net = net /\ IsPrefix(form.pw, pw)
         /\ n = Len(WifiForm(net, pw)) => form.pw = pw
         /\ GetKey(SavedConf(form.net, form.pw), Ssid) = form.net
         /\ GetKey(SavedConf(form.net, form.pw), Pw) = form.pw
<1> DEFINE whole == WifiForm(net, pw)
           body == SubSeq(whole, 1, n)
           first == ParamKeyValue(Net, net)
           second == ParamKeyValue(Pw, pw)
<1>1. form.net = GetKey(body, Net) /\ form.pw = GetKey(body, Pw)
  <2>1. ReadForm[net][pw] = [m \in 0..Len(whole) |->
          [net |-> GetKey(SubSeq(whole, 1, m), Net), pw |-> GetKey(SubSeq(whole, 1, m), Pw)]]
    BY DEF ReadForm
  <2>2. form = [net |-> GetKey(body, Net), pw |-> GetKey(body, Pw)]
    BY <2>1
  <2> HIDE DEF body
  <2>3. QED BY ONLY <2>2
<1>2. whole = (first \o <<"&">>) \o second
  BY DEF WifiForm
<1>3. /\ net \in Seq(Characters) /\ pw \in Seq(Characters) /\ Plaintext(net) /\ Plaintext(pw)
      /\ n \in 0..Len(whole)
  BY TextsAre DEF PlainTexts
<1>4. first = ParamKeyValue(Net, net) /\ second = ParamKeyValue(Pw, pw)
  OBVIOUS
<1> HIDE DEF whole, first, second
<1>5. /\ GetKey(body, Net) = net
      /\ GetKey(body, Pw) \in Seq(Characters) /\ IsPrefix(GetKey(body, Pw), pw)
  <2>1. \/ GetKey(body, Pw) = NoValue
        \/ /\ GetKey(body, Net) = net
           /\ GetKey(body, Pw) \in Seq(Characters)
           /\ IsPrefix(GetKey(body, Pw), pw)
    BY ONLY <1>2, <1>3, <1>4, KeysAre, CutFormsAre
  <2>2. QED BY <1>1, <2>1
<1>6. n = Len(whole) => GetKey(body, Pw) = pw
  <2>1. SUFFICES ASSUME n = Len(whole) PROVE GetKey(body, Pw) = pw
    BY DEF body
  <2>2. /\ (first \o <<"&">>) \o second \in Seq(Characters)
        /\ GetKey((first \o <<"&">>) \o second, Pw) = pw
    BY ONLY <1>3, <1>4, KeysAre, FormsAre
  <2>3. body = whole
    <3>1. Len(whole) \in 0..Len(whole) /\ whole \in Seq(Characters)
      BY <1>2, <2>2
    <3>2. \A q \in Seq(Characters) : SubSeq(q, 1, Len(q)) = q
      OBVIOUS
    <3>3. QED BY <2>1, <3>1, <3>2
  <2>4. QED BY ONLY <1>2, <2>2, <2>3
<1> DEFINE word == GetKey(body, Pw)
<1>7. word \in Seq(Characters) /\ Plaintext(word)
  BY <1>3, <1>5, PlainBeginning
<1> HIDE DEF word
<1>8. GetKey(SavedConf(net, word), Pw) = word /\ GetKey(SavedConf(net, word), Ssid) = net
  <2> DEFINE a == WriteKeyValue(Pw, word)
             b == WriteKeyValue(Ssid, net)
  <2>1. GetKey(a \o b, Pw) = word /\ GetKey(a \o b, Ssid) = net
    BY ONLY <1>3, <1>7, KeysAre, FilesAre
  <2>2. SavedConf(net, word) = a \o b
    BY DEF SavedConf
  <2>3. QED BY ONLY <2>1, <2>2
<1>9. QED BY ONLY <1>1, <1>5, <1>6, <1>8 DEF word, whole

\* ConfIsPosted, and that the count of the faults is one.
ConfInv == faults \in Nat /\ ConfIsPosted

\* What no other step disturbs: the file and the test; and the connection that waits for
\* the test is the one it was.
Keeps ==
  /\ UNCHANGED <<wifiConf, tested>>
  /\ faults' = faults \/ faults' = faults + 1
  /\ server' = "wifiTest" => server = "wifiTest" /\ client' = client

LEMMA KeepsConf == ASSUME ConfInv, Keeps PROVE ConfInv'
<1>1. faults' \in Nat /\ (faults' = 0 => faults = 0)
  BY DEF ConfInv, Keeps
<1>2. wifiConf' = wifiConf /\ tested' = tested
  BY DEF Keeps
<1>3. ASSUME server' = "wifiTest"
      PROVE  /\ tested'.net = client'.net /\ IsPrefix(tested'.pw, client'.pw)
             /\ faults' = 0 => tested'.pw = client'.pw
  <2>1. server = "wifiTest" /\ client' = client
    BY <1>3 DEF Keeps
  <2>2. QED BY <1>1, <1>2, <2>1 DEF ConfInv, ConfIsPosted
<1>4. tested' # NoTest =>
        GetKey(wifiConf', Ssid) = tested'.net /\ GetKey(wifiConf', Pw) = tested'.pw
  BY <1>2 DEF ConfInv, ConfIsPosted
<1>5. QED BY <1>1, <1>3, <1>4 DEF ConfInv, ConfIsPosted

LEMMA SaveConf ==
  ASSUME PlainTexts, ConfigInv, ConfInv, NEW n \in 0..Len(WifiForm(client.net, client.pw)), SaveWifi(n)
  PROVE  ConfInv'
<1> DEFINE net == client.net
           pw == client.pw
           form == ReadForm[net][pw][n]
<1>1. net \in Names /\ pw \in Passwords
  BY DEF ConfigInv, ConnectionInv, Apart, Sound, Posted, SaveWifi, Handling
<1>2. /\ faults' \in Nat /\ (faults' = 0 => n = Len(WifiForm(net, pw)))
      /\ faults' = faults \/ faults' = faults + 1
  BY DEF SaveWifi, Arrived, Fault, ConfInv
<1>3. CASE NoValue \in {form.net, form.pw}
  <2>1. UNCHANGED <<wifiConf, tested>> /\ server' = "idle"
    BY <1>3 DEF SaveWifi, Finish
  <2>2. Keeps
    BY <1>2, <2>1 DEF Keeps
  <2>3. QED BY <2>2, KeepsConf
<1>4. CASE NoValue \notin {form.net, form.pw}
  <2>1. wifiConf' = SavedConf(form.net, form.pw) /\ tested' = form /\ client' = client
    BY <1>4 DEF SaveWifi
  <2>2. /\ form.net = net /\ IsPrefix(form.pw, pw)
        /\ n = Len(WifiForm(net, pw)) => form.pw = pw
        /\ GetKey(SavedConf(form.net, form.pw), Ssid) = form.net
        /\ GetKey(SavedConf(form.net, form.pw), Pw) = form.pw
    BY <1>1, <1>4, WifiSaved
  <2>3. client'.net = net /\ client'.pw = pw
    BY <2>1
  <2> HIDE DEF net, pw, form
  <2>4. QED BY ONLY <1>2, <2>1, <2>2, <2>3 DEF ConfInv, ConfIsPosted
<1>5. QED BY <1>3, <1>4

LEMMA ResetConf == ASSUME ConfInv, ServerReset PROVE ConfInv'
<1>1. server' = "idle" /\ faults' = faults + 1
  BY DEF ServerReset, Fault
<1>2. CASE UNCHANGED <<wifiConf, tested>>
  <2>1. Keeps
    BY <1>1, <1>2 DEF Keeps
  <2>2. QED BY <2>1, KeepsConf
<1>3. CASE tested' = NoTest
  BY <1>1, <1>3 DEF ConfInv, ConfIsPosted
<1>4. QED BY <1>2, <1>3 DEF ServerReset

LEMMA OtherSteps ==
  ASSUME [Next]_vars
  PROVE  \/ \E n \in 0..Len(WifiForm(client.net, client.pw)) : SaveWifi(n)
         \/ ServerReset
         \/ Keeps
<1>1. CASE Serve
  <2>1. CASE Accept \/ AcceptGone(Waiting) \/ ReadLine \/ LineTimeout
    BY <2>1 DEF Accept, AcceptGone, ReadLine, LineTimeout, Fault, files, Keeps
  <2>2. CASE Handle
    <3>1. ASSUME NEW kind \in {"add", "delete"}, NEW n \in 0..MaxChannels, ChangeChannels(kind, n)
          PROVE  Keeps
      BY <3>1 DEF ChangeChannels, Finish, Keeps
    <3>2. ASSUME NEW n \in 0..Len(Multipart(client.picture)), UploadBadge(n)
          PROVE  Keeps
      BY <3>2 DEF UploadBadge, Arrived, Fault, Finish, Keeps
    <3>3. CASE JustAnswer
      BY <3>3 DEF JustAnswer, Finish, files, Keeps
    <3>4. QED BY <2>2, <3>1, <3>2, <3>3 DEF Handle
  <2>3. QED BY <1>1, <2>1, <2>2 DEF Serve, ServerStep
<1>2. CASE Tested
  BY <1>2 DEF Tested, WifiTested, Finish, files, Keeps
<1>3. CASE Restart
  BY <1>3 DEF Restart
<1>4. CASE User
  BY <1>4 DEF User, ClickScan, ClickConnect, ClickChannel, SelectNet, Upload, Reload, Ready, Send,
              serverVars, files, Keeps
<1>5. CASE Callback
  BY <1>5 DEF Callback, OnScan, OnConnect, OnChannels, OnUnreadable, OnChanged, OnStatus, OnUploaded, Ignore,
              OnFailure, UploadFailed, Unlocks, Ready, serverVars, files, Keeps
<1>6. CASE Poll \/ OpenAhead \/ (\E a \in answers : AnswerLost(a))
  BY <1>6 DEF Poll, OpenAhead, AnswerLost, Send, Fault, files, Keeps
<1>7. CASE UNCHANGED vars
  BY <1>7 DEF vars, serverVars, files, Keeps
<1>8. QED BY <1>1, <1>2, <1>3, <1>4, <1>5, <1>6, <1>7 DEF Next

\* What is in wifi.conf is what was tested, and what was tested is what the page posted
\* or, of a body that had not come in, a beginning of it (ConfIsPosted): for texts
\* without "%" and "+", which writeEscaped leaves as they are (MCSavedConfig has others).
THEOREM ConfigurationIsPosted == PlainTexts => (Spec => []ConfIsPosted)
<1>1. SUFFICES ASSUME PlainTexts PROVE Spec => []ConfIsPosted
  OBVIOUS
<1>2. Init => ConfInv
  BY DEF Init, ServerInit, ConfInv, ConfIsPosted
<1>3. ConfigInv /\ ConfInv /\ [Next]_vars => ConfInv'
  BY <1>1, SaveConf, ResetConf, KeepsConf, OtherSteps
<1>4. ConfInv => ConfIsPosted
  BY DEF ConfInv
<1>5. QED BY <1>2, <1>3, <1>4, ConfigInvInit, ConfigInvNext, PTL DEF Spec
=============================================================================
