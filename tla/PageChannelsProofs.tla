-------------------------- MODULE PageChannelsProofs --------------------------
(***************************************************************************)
(* What the runs of PageChannels check, proved for every queue, number of  *)
(* frames, events, messages and ports.  Each kind of channel has an        *)
(* invariant of its own, and a channel is of one kind for good.            *)
(***************************************************************************)
EXTENDS PageChannels, SequenceTheorems, WellFoundedInduction, TLAPS

(* Three sequences in a row. *)

\* What is dispatched leaves the batch for the end of what was seen.
LEMMA Moved ==
  ASSUME NEW S, NEW s \in Seq(S), NEW b \in Seq(S), NEW q \in Seq(S), b # <<>>
  PROVE  /\ Append(s, Head(b)) \in Seq(S) /\ Tail(b) \in Seq(S)
         /\ Append(s, Head(b)) \o Tail(b) \o q = s \o b \o q
<1>1. Head(b) \in S /\ Tail(b) \in Seq(S) /\ b = <<Head(b)>> \o Tail(b)
  BY HeadTailProperties
<1>2. Append(s, Head(b)) = s \o <<Head(b)>>
  BY <1>1, AppendIsConcat
<1>3. s \o b = Append(s, Head(b)) \o Tail(b)
  BY <1>1, <1>2, ConcatAssociative
<1> QED
  BY <1>1, <1>3

\* What is drained was at the end and stays there.
LEMMA Emptied ==
  ASSUME NEW S, NEW s \in Seq(S), NEW q \in Seq(S)
  PROVE  s \o q \o <<>> = s \o <<>> \o q
<1>1. s \o q \in Seq(S)
  OBVIOUS
<1> QED
  BY <1>1, ConcatEmptySeq

\* What is queued comes last.
LEMMA Queued ==
  ASSUME NEW S, NEW s \in Seq(S), NEW q \in Seq(S), NEW e \in S
  PROVE  s \o Append(q, e) = Append(s \o q, e)
<1>1. s \o q \in Seq(S)
  OBVIOUS
<1>2. Append(q, e) = q \o <<e>> /\ Append(s \o q, e) = (s \o q) \o <<e>>
  BY <1>1, AppendIsConcat
<1>3. <<e>> \in Seq(S)
  OBVIOUS
<1> QED
  BY <1>2, <1>3, ConcatAssociative

----------------------------------------------------------------------------
(* Workers. *)

\* The types, and that nothing is received before the script has run.
WorkerTypes ==
  /\ worker \in {"script", "check", "receive", "handler", "done"}
  /\ worker = "script" => received = 0
  /\ onmessage \in BOOLEAN
  /\ posted \in 0..MaxPosts /\ received \in 0..posted
  /\ replies \in Seq(WK!Reply) /\ inbound \in Seq(WK!Reply)
  /\ batch \in Seq(WK!Reply) /\ seen \in Seq(WK!Reply)
  /\ closed \in BOOLEAN /\ page \in {"run", "gone"}

\* A worker that handles a message after it was asked to stop looks at the flag next.
WorkerStops ==
  /\ late \in {0, 1} /\ late <= received
  /\ late = 1 => closed /\ worker \in {"check", "handler", "done"}

WorkerInv == WorkerTypes /\ WK!RepliesInOrder /\ WorkerStops

\* One step per action: only a post says more, and only a receive hears more.
LEMMA WorkerStep ==
  ASSUME WorkerInv, WK!Next
  PROVE  WorkerInv'
<1>0. /\ MaxPosts \in Nat /\ posted \in Nat /\ received \in Nat
      /\ WorkerTypes /\ WK!RepliesInOrder /\ WorkerStops
  BY BoundsAssumption DEF WK!Bounds, WorkerInv, WorkerTypes
<1> DEFINE Quiet == UNCHANGED <<replies, inbound, batch, seen>>
<1>1. ASSUME Quiet, received' \in {received, received + 1} PROVE WK!RepliesInOrder'
  <2>1. /\ replies \in Seq(WK!Reply) /\ WK!Reply = 0..MaxPosts
        /\ \A i \in DOMAIN replies : replies[i] \in Int /\ replies[i] <= received
    <3>1. replies \in Seq(WK!Reply) /\ WK!Reply = 0..MaxPosts
      BY <1>0 DEF WorkerTypes, WK!Reply, WK!None
    <3>0. replies \in Seq(WK!Reply)
      BY <1>0 DEF WorkerTypes
    <3>2. \A i \in DOMAIN replies : replies[i] \in WK!Reply
      BY <3>0
    <3> QED
      BY <1>0, <3>1, <3>2 DEF WK!RepliesInOrder
  <2>2. \A i \in DOMAIN replies : replies[i] <= received'
    BY <1>0, <1>1, <2>1
  <2> QED
    BY <1>0, <1>1, <2>2 DEF WK!RepliesInOrder
<1>2. CASE WK!Check
  <2>1. WorkerTypes' /\ WorkerStops'
    BY <1>0, <1>2 DEF WorkerTypes, WorkerStops, WK!Check
  <2>2. WK!RepliesInOrder'
    BY <1>1, <1>2 DEF WK!Check
  <2> QED
    BY <2>1, <2>2 DEF WorkerInv
<1>3. CASE WK!Receive
  <2>1. WorkerTypes'
    BY <1>0, <1>3 DEF WorkerTypes, WK!Receive
  <2>2. WorkerStops'
    BY <1>0, <1>3 DEF WorkerTypes, WorkerStops, WK!Receive
  <2>3. WK!RepliesInOrder'
    BY <1>1, <1>3 DEF WK!Receive
  <2> QED
    BY <2>1, <2>2, <2>3 DEF WorkerInv
<1>4. CASE WK!ReceiveNothing \/ WK!WorkerListens \/ WK!WorkerCloses \/ WK!ScriptEnds
  <2>1. WorkerTypes' /\ WorkerStops'
    BY <1>0, <1>4
       DEF WorkerTypes, WorkerStops, WK!ReceiveNothing, WK!WorkerListens, WK!WorkerCloses,
           WK!ScriptEnds, WK!Running
  <2>2. WK!RepliesInOrder'
    BY <1>1, <1>4 DEF WK!ReceiveNothing, WK!WorkerListens, WK!WorkerCloses, WK!ScriptEnds
  <2> QED
    BY <2>1, <2>2 DEF WorkerInv
<1>5. CASE WK!Post \/ WK!Terminate \/ WK!Leave
  <2>1. WorkerTypes' /\ WorkerStops'
    <3>1. CASE WK!Post
      <4>1. posted' \in 0..MaxPosts /\ received' \in 0..posted'
        BY <1>0, <3>1 DEF WorkerTypes, WK!Post
      <4> QED
        BY <1>0, <3>1, <4>1 DEF WorkerTypes, WorkerStops, WK!Post
    <3>2. CASE WK!Terminate
      BY <1>0, <3>2 DEF WorkerTypes, WorkerStops, WK!Terminate
    <3>3. CASE WK!Leave
      BY <1>0, <3>3 DEF WorkerTypes, WorkerStops, WK!Leave
    <3> QED
      BY <1>5, <3>1, <3>2, <3>3
  <2>2. WK!RepliesInOrder'
    BY <1>1, <1>5 DEF WK!Post, WK!Terminate, WK!Leave
  <2> QED
    BY <2>1, <2>2 DEF WorkerInv
<1>6. CASE WK!WorkerPosts
  <2>1. PICK reply \in 0..received :
          /\ inbound' = Append(inbound, reply) /\ replies' = Append(replies, reply)
          /\ reply = received
    BY <1>0, <1>6 DEF WK!WorkerPosts, WK!None, WK!Running, WorkerTypes
  <2>2. reply \in WK!Reply
    BY <1>0, <2>1 DEF WK!Reply, WK!None, WorkerTypes
  <2>3. WorkerTypes' /\ WorkerStops'
    BY <1>0, <1>6, <2>1, <2>2 DEF WorkerTypes, WorkerStops, WK!WorkerPosts
  <2>4. /\ replies \in Seq(WK!Reply) /\ Len(replies) \in Nat /\ DOMAIN replies = 1..Len(replies)
        /\ inbound \in Seq(WK!Reply) /\ seen \o batch \in Seq(WK!Reply)
    BY <1>0 DEF WorkerTypes
  <2>5. /\ DOMAIN replies' = 1..(Len(replies) + 1)
        /\ \A i \in 1..(Len(replies) + 1) :
             replies'[i] = IF i <= Len(replies) THEN replies[i] ELSE received
    BY <2>1, <2>2, <2>4
  <2>6. /\ \A i \in 1..Len(replies) : replies[i] <= received
        /\ \A i, j \in 1..Len(replies) : i < j => replies[i] <= replies[j]
    BY <1>0, <2>4 DEF WK!RepliesInOrder
  <2>7. /\ \A i \in DOMAIN replies' : replies'[i] <= received'
        /\ \A i, j \in DOMAIN replies' : i < j => replies'[i] <= replies'[j]
    <3>1. received' = received
      BY <1>6 DEF WK!WorkerPosts
    <3> QED
      BY <1>0, <2>4, <2>5, <2>6, <3>1
  <2>8. seen' \o batch' \o inbound' = replies'
    <3>1. seen \o batch \o inbound = replies
      BY <1>0 DEF WK!RepliesInOrder
    <3>2. (seen \o batch) \o Append(inbound, reply) = Append((seen \o batch) \o inbound, reply)
      BY <2>2, <2>4, Queued
    <3> QED
      BY <1>6, <2>1, <3>1, <3>2 DEF WK!WorkerPosts
  <2> QED
    BY <2>3, <2>7, <2>8 DEF WorkerInv, WK!RepliesInOrder
<1>7. CASE WK!Drain
  <2>1. /\ batch' = inbound /\ inbound' = <<>> /\ batch = <<>>
        /\ UNCHANGED <<worker, onmessage, posted, received, replies, closed, late, page, seen>>
    BY <1>7 DEF WK!Drain
  <2>2. WorkerTypes' /\ WorkerStops'
    BY <1>0, <2>1 DEF WorkerTypes, WorkerStops
  <2>3. seen' \o batch' \o inbound' = seen \o batch \o inbound
    BY <1>0, <2>1, Emptied DEF WorkerTypes
  <2> QED
    BY <1>0, <2>1, <2>2, <2>3 DEF WorkerInv, WK!RepliesInOrder
<1>8. CASE WK!Dispatch
  <2>1. /\ batch # <<>> /\ batch' = Tail(batch) /\ seen' = Append(seen, Head(batch))
        /\ UNCHANGED <<worker, onmessage, posted, received, replies, inbound, closed, late, page>>
    BY <1>8 DEF WK!Dispatch
  <2>2. /\ seen' \in Seq(WK!Reply) /\ batch' \in Seq(WK!Reply)
        /\ seen' \o batch' \o inbound' = seen \o batch \o inbound
    BY <1>0, <2>1, Moved DEF WorkerTypes
  <2>3. WorkerTypes' /\ WorkerStops'
    BY <1>0, <2>1, <2>2 DEF WorkerTypes, WorkerStops
  <2> QED
    BY <1>0, <2>1, <2>2, <2>3 DEF WorkerInv, WK!RepliesInOrder
<1> QED
  BY <1>2, <1>3, <1>4, <1>5, <1>6, <1>7, <1>8 DEF WK!Next, WK!Pump

\* A new worker runs its script and has heard and said nothing.
LEMMA WorkerStart == WK!Init => WorkerInv
<1> SUFFICES ASSUME WK!Init PROVE WorkerInv
  OBVIOUS
<1>1. MaxPosts \in Nat
  BY BoundsAssumption DEF WK!Bounds
<1>2. /\ worker = "script" /\ onmessage = FALSE /\ posted = 0 /\ received = 0
      /\ replies = <<>> /\ inbound = <<>> /\ closed = FALSE /\ late = 0 /\ page = "run"
      /\ batch = <<>> /\ seen = <<>>
  BY DEF WK!Init
<1>3. WorkerTypes /\ WorkerStops
  <2>1. /\ replies \in Seq(WK!Reply) /\ inbound \in Seq(WK!Reply)
        /\ batch \in Seq(WK!Reply) /\ seen \in Seq(WK!Reply)
    BY <1>2, EmptySeq
  <2>2. /\ worker = "script" /\ onmessage \in BOOLEAN /\ posted = 0 /\ received = 0
        /\ closed \in BOOLEAN /\ late = 0 /\ page = "run"
    BY <1>2
  <2> QED
    BY <1>1, <2>1, <2>2 DEF WorkerTypes, WorkerStops
<1>4. <<>> \o <<>> \o <<>> = <<>>
  OBVIOUS
<1>5. WK!RepliesInOrder
  BY <1>2, <1>4 DEF WK!RepliesInOrder
<1> QED
  BY <1>3, <1>5 DEF WorkerInv

----------------------------------------------------------------------------
(* Shared workers. *)

\* The fields' types.
SharedTypes ==
  shared \in
    [opened : 0..MaxPorts, posted : 0..SharedPosts, channel : Seq(SW!Mail),
     thread : {"script", "receive", "handler", "done"}, at : SW!Mail \cup {SW!NoMail},
     onconnect : BOOLEAN, ports : SUBSET SW!Port, onmessage : SUBSET SW!Port,
     closed : BOOLEAN, queue : Seq(SW!Heard), batch : Seq(SW!Heard),
     replies : Seq(SW!Heard), seen : Seq(SW!Heard), heard : Seq(SW!Heard),
     last : [SW!Port -> 0..SW!Open]]

\* A port is known, listened on, closed or spoken of only once it was opened.
SharedOpened(s) ==
  /\ \A p \in s.ports \cup s.onmessage : p <= s.opened
  /\ \A i \in DOMAIN s.channel : s.channel[i].port \in 1..s.opened
  /\ \A p \in SW!Port : s.last[p] # SW!Open => p <= s.opened

\* The page's messages are on their way in the order of their numbers, after those
\* that were heard.
SharedInOrder(s) ==
  /\ \A i \in DOMAIN s.heard : s.heard[i][2] <= s.posted
  /\ \A i \in DOMAIN s.channel : s.channel[i].do = "message" => s.channel[i].n <= s.posted
  /\ \A i \in DOMAIN s.channel, j \in DOMAIN s.heard :
       s.channel[i].do = "message" => s.heard[j][2] < s.channel[i].n
  /\ \A i, j \in DOMAIN s.channel :
       i < j /\ s.channel[i].do = "message" /\ s.channel[j].do = "message"
         => s.channel[i].n < s.channel[j].n

\* The thread has forgotten p for good.
Forgotten(s, p) ==
  /\ s.last[p] # SW!Open /\ p \notin s.ports
  /\ \A i \in DOMAIN s.channel : ~(s.channel[i].do = "connect" /\ s.channel[i].port = p)

\* A close comes after its port's connect, and before what is posted on it after that.
SharedCloses(s) ==
  /\ \A i \in DOMAIN s.channel :
       s.channel[i].do = "close" => s.last[s.channel[i].port] # SW!Open
  /\ \A i, j \in DOMAIN s.channel :
       i < j /\ s.channel[i].do = "close" /\ s.channel[j].do = "connect"
         => s.channel[i].port # s.channel[j].port
  /\ \A i \in DOMAIN s.channel :
       s.channel[i].do = "message" =>
         \/ s.channel[i].n <= s.last[s.channel[i].port]
         \/ Forgotten(s, s.channel[i].port)
         \/ \E k \in DOMAIN s.channel :
              k < i /\ s.channel[k].do = "close" /\ s.channel[k].port = s.channel[i].port
  /\ \A p \in SW!Port :
       s.last[p] # SW!Open =>
         \/ Forgotten(s, p)
         \/ \E k \in DOMAIN s.channel : s.channel[k].do = "close" /\ s.channel[k].port = p

\* A handler runs for the mail in hand.
InHand(s) == s.thread = "handler" => s.at \in SW!Mail

SharedInv ==
  /\ SharedTypes /\ InHand(shared)
  /\ SharedOpened(shared) /\ SharedInOrder(shared) /\ SharedCloses(shared)
  /\ SW!RepliesInOrder /\ SW!HeardInOrder

\* What the thread and the page do to the fields other than the channel's.
LEMMA SharedQuiet ==
  ASSUME SharedInv, SharedTypes', InHand(shared'), SW!RepliesInOrder',
         shared'.opened = shared.opened, shared'.posted = shared.posted,
         shared'.channel = shared.channel, shared'.ports \subseteq shared.ports,
         shared'.onmessage \subseteq shared.onmessage \cup shared.ports,
         shared'.heard = shared.heard, shared'.last = shared.last
  PROVE  SharedInv'
<1>1. SharedOpened(shared)'
  BY DEF SharedInv, SharedOpened
<1>2. SharedInOrder(shared)'
  BY DEF SharedInv, SharedInOrder
<1>3. SharedCloses(shared)'
  BY DEF SharedInv, SharedCloses, Forgotten
<1>4. SW!HeardInOrder'
  BY DEF SharedInv, SW!HeardInOrder
<1> QED
  BY <1>1, <1>2, <1>3, <1>4 DEF SharedInv

\* What the page sends comes last in the channel.
LEMMA Sent ==
  ASSUME SharedTypes, NEW m \in SW!Mail
  PROVE  /\ Append(shared.channel, m) \in Seq(SW!Mail)
         /\ DOMAIN Append(shared.channel, m) = 1..(Len(shared.channel) + 1)
         /\ DOMAIN shared.channel = 1..Len(shared.channel) /\ Len(shared.channel) \in Nat
         /\ \A i \in 1..Len(shared.channel) : Append(shared.channel, m)[i] = shared.channel[i]
         /\ Append(shared.channel, m)[Len(shared.channel) + 1] = m
<1>1. shared.channel \in Seq(SW!Mail)
  BY DEF SharedTypes
<1> QED
  BY <1>1

\* The types, one by one.
LEMMA SharedFields ==
  ASSUME SharedInv
  PROVE  /\ MaxPorts \in Nat /\ SharedPosts \in Nat /\ SW!Open = SharedPosts + 1
         /\ shared.opened \in 0..MaxPorts /\ shared.posted \in 0..SharedPosts
         /\ shared.opened \in Nat /\ shared.posted \in Nat
         /\ shared.channel \in Seq(SW!Mail) /\ Len(shared.channel) \in Nat
         /\ DOMAIN shared.channel = 1..Len(shared.channel)
         /\ \A i \in 1..Len(shared.channel) :
              /\ shared.channel[i] \in SW!Mail
              /\ shared.channel[i].n \in Nat /\ shared.channel[i].port \in SW!Port
              /\ shared.channel[i].port \in Nat /\ shared.channel[i].n <= SharedPosts
         /\ shared.heard \in Seq(SW!Heard) /\ Len(shared.heard) \in Nat
         /\ DOMAIN shared.heard = 1..Len(shared.heard)
         /\ \A i \in 1..Len(shared.heard) :
              shared.heard[i][1] \in SW!Port /\ shared.heard[i][2] \in Nat
         /\ \A p \in SW!Port : p \in Nat /\ shared.last[p] \in Nat
<1>1. MaxPorts \in Nat /\ SharedPosts \in Nat /\ SW!Open = SharedPosts + 1
  BY BoundsAssumption DEF SW!Bounds, SW!Open
<1>2. /\ shared.opened \in 0..MaxPorts /\ shared.posted \in 0..SharedPosts
      /\ shared.channel \in Seq(SW!Mail) /\ shared.heard \in Seq(SW!Heard)
      /\ shared.last \in [SW!Port -> 0..SW!Open]
  BY DEF SharedInv, SharedTypes
<1>3. \A m \in SW!Mail : /\ m.n \in Nat /\ m.port \in SW!Port /\ m.port \in Nat
                         /\ m.n <= SharedPosts
  BY <1>1 DEF SW!Mail, SW!Port
<1>4. \A h \in SW!Heard : h[1] \in SW!Port /\ h[2] \in Nat
  BY <1>1 DEF SW!Heard, SW!Port
<1>5. \A p \in SW!Port : p \in Nat /\ shared.last[p] \in Nat
  BY <1>1, <1>2 DEF SW!Port
<1>6. \A i \in DOMAIN shared.channel : shared.channel[i] \in SW!Mail
  BY <1>2
<1>7. \A i \in DOMAIN shared.heard : shared.heard[i] \in SW!Heard
  BY <1>2
<1>8. /\ Len(shared.channel) \in Nat /\ DOMAIN shared.channel = 1..Len(shared.channel)
      /\ Len(shared.heard) \in Nat /\ DOMAIN shared.heard = 1..Len(shared.heard)
  BY <1>2
<1> QED
  BY <1>1, <1>2, <1>3, <1>4, <1>5, <1>6, <1>7, <1>8

\* A port that is opened is another than those the channel speaks of.
LEMMA SharedConnects ==
  ASSUME SharedInv, SW!Connect
  PROVE  SharedInv'
<1> DEFINE p == shared.opened + 1
           m == [do |-> "connect", port |-> p, n |-> 0]
           len == Len(shared.channel)
<1>0. SharedTypes /\ MaxPorts \in Nat /\ SharedPosts \in Nat
  BY SharedFields DEF SharedInv
<1>1. p \in SW!Port /\ p \in Nat /\ p = shared.opened + 1 /\ p \in 1..p /\ m \in SW!Mail
  BY <1>0, SharedFields DEF SW!Connect, SW!Port, SW!Mail
<1> HIDE DEF p
<1> DEFINE c == Append(shared.channel, m)
<1>2. /\ c \in Seq(SW!Mail) /\ DOMAIN c = 1..(len + 1)
      /\ DOMAIN shared.channel = 1..len /\ len \in Nat
      /\ \A i \in 1..len : c[i] = shared.channel[i]
      /\ c[len + 1] = m
  BY <1>0, <1>1, Sent
<1>3. shared' = [shared EXCEPT !.opened = p, !.channel = c]
  BY <1>0 DEF SW!Connect, SW!Send, SharedTypes, p
<1>9. m.do = "connect" /\ m.port = p
  OBVIOUS
<1> HIDE DEF c, m, len
<1>4. /\ shared'.opened = p /\ shared'.channel = c
      /\ shared'.posted = shared.posted /\ shared'.ports = shared.ports
      /\ shared'.onmessage = shared.onmessage /\ shared'.heard = shared.heard
      /\ shared'.last = shared.last
      /\ shared'.seen = shared.seen /\ shared'.batch = shared.batch
      /\ shared'.queue = shared.queue /\ shared'.replies = shared.replies
      /\ shared'.thread = shared.thread /\ shared'.at = shared.at
  BY <1>0, <1>3 DEF SharedTypes
<1>5. SharedTypes'
  <2>1. p \in 0..MaxPorts
    BY <1>1, <1>0 DEF SW!Port
  <2> QED
    BY <1>0, <1>2, <1>3, <2>1 DEF SharedTypes
<1>6. SharedOpened(shared')
  <2>1. /\ \A q \in shared.ports \cup shared.onmessage : q <= shared.opened /\ q \in Nat
        /\ \A i \in 1..len : shared.channel[i].port \in 1..shared.opened
        /\ \A q \in SW!Port : shared.last[q] # SW!Open => q <= shared.opened /\ q \in Nat
    <3>1. \A q \in shared.ports \cup shared.onmessage : q \in SW!Port
      BY <1>0 DEF SharedTypes
    <3>2. SharedOpened(shared)
      BY DEF SharedInv
    <3>3. \A q \in shared.ports \cup shared.onmessage : q <= shared.opened
      BY <3>2 DEF SharedOpened
    <3>4. \A i \in 1..len : shared.channel[i].port \in 1..shared.opened
      BY <1>2, <3>2 DEF SharedOpened
    <3>5. \A q \in SW!Port : shared.last[q] # SW!Open => q <= shared.opened
      BY <3>2 DEF SharedOpened
    <3>6. \A q \in SW!Port : q \in Nat
      BY SharedFields
    <3> QED
      BY <3>1, <3>3, <3>4, <3>5, <3>6
  <2>2. \A i \in 1..(len + 1) : c[i].port \in 1..p
    <3> TAKE i \in 1..(len + 1)
    <3>1. CASE i \in 1..len
      <4>1. c[i].port \in 1..shared.opened
        BY <1>2, <2>1, <3>1
      <4> QED
        BY <1>1, <4>1, SharedFields
    <3>2. CASE i = len + 1
      BY <1>1, <1>2, <1>9, <3>2
    <3> QED
      BY <1>2, <3>1, <3>2
  <2> QED
    <3>1. \A q \in Nat : q <= shared.opened => q <= p
      BY <1>1, SharedFields
    <3>2. /\ \A q \in shared.ports \cup shared.onmessage : q <= p
          /\ \A q \in SW!Port : shared.last[q] # SW!Open => q <= p
      BY <2>1, <3>1
    <3> QED
      BY <1>2, <1>4, <2>2, <3>2 DEF SharedOpened
<1>7. SharedInOrder(shared')
  <2>1. \A i \in 1..(len + 1) : c[i].do = "message" => i \in 1..len
    BY <1>2, <1>9
  <2> QED
    BY <1>2, <1>4, <2>1 DEF SharedInv, SharedInOrder
<1>8. SharedCloses(shared')
  <2>0. SharedCloses(shared) /\ SharedOpened(shared)
    BY DEF SharedInv
  <2>1. \A q \in SW!Port : shared.last[q] # SW!Open => q # p
    BY <1>1, <2>0, SharedFields DEF SharedOpened
  <2>2. \A q \in SW!Port : Forgotten(shared, q) => Forgotten(shared', q)
    BY <1>2, <1>4, <1>9, <2>1 DEF Forgotten
  <2>3. \A i \in 1..(len + 1) : c[i].do # "connect" => i \in 1..len
    BY <1>2, <1>9
  <2>4. \A i \in 1..(len + 1) : c[i].do = "close" => shared.last[c[i].port] # SW!Open
    BY <1>2, <1>9, <2>0, <2>3 DEF SharedCloses
  <2>5. \A i, j \in 1..(len + 1) :
          i < j /\ c[i].do = "close" /\ c[j].do = "connect" => c[i].port # c[j].port
    <3> SUFFICES ASSUME NEW i \in 1..(len + 1), NEW j \in 1..(len + 1),
                        i < j, c[i].do = "close", c[j].do = "connect"
                 PROVE  c[i].port # c[j].port
      OBVIOUS
    <3>1. i \in 1..len /\ c[i] = shared.channel[i] /\ c[i].port \in SW!Port
      BY <1>2, <2>3, SharedFields DEF len
    <3>2. CASE j = len + 1
      BY <1>2, <1>9, <2>1, <2>4, <3>1, <3>2
    <3>3. CASE j \in 1..len
      BY <1>2, <2>0, <3>1, <3>3 DEF SharedCloses
    <3> QED
      BY <1>2, <3>2, <3>3
  <2>6. \A i \in 1..(len + 1) :
          c[i].do = "message" =>
            \/ c[i].n <= shared.last[c[i].port]
            \/ Forgotten(shared', c[i].port)
            \/ \E k \in 1..(len + 1) : k < i /\ c[k].do = "close" /\ c[k].port = c[i].port
    <3> SUFFICES ASSUME NEW i \in 1..(len + 1), c[i].do = "message",
                        ~(c[i].n <= shared.last[c[i].port]),
                        ~Forgotten(shared', c[i].port)
                 PROVE  \E k \in 1..(len + 1) : k < i /\ c[k].do = "close" /\ c[k].port = c[i].port
      OBVIOUS
    <3>1. i \in 1..len /\ c[i] = shared.channel[i] /\ c[i].port \in SW!Port
      BY <1>2, <2>3, SharedFields DEF len
    <3>2. PICK k \in 1..len : /\ k < i /\ shared.channel[k].do = "close"
                              /\ shared.channel[k].port = shared.channel[i].port
      BY <1>2, <2>0, <2>2, <3>1 DEF SharedCloses
    <3> QED
      BY <1>2, <3>1, <3>2
  <2>7. \A q \in SW!Port :
          shared.last[q] # SW!Open =>
            \/ Forgotten(shared', q)
            \/ \E k \in 1..(len + 1) : c[k].do = "close" /\ c[k].port = q
    <3> SUFFICES ASSUME NEW q \in SW!Port, shared.last[q] # SW!Open, ~Forgotten(shared', q)
                 PROVE  \E k \in 1..(len + 1) : c[k].do = "close" /\ c[k].port = q
      OBVIOUS
    <3>1. PICK k \in 1..len : shared.channel[k].do = "close" /\ shared.channel[k].port = q
      BY <1>2, <2>0, <2>2 DEF SharedCloses
    <3> QED
      BY <1>2, <3>1
  <2> QED
    BY <1>2, <1>4, <2>4, <2>5, <2>6, <2>7 DEF SharedCloses
<1>10. SW!RepliesInOrder' /\ SW!HeardInOrder'
  BY <1>4 DEF SharedInv, SW!RepliesInOrder, SW!HeardInOrder
<1>30. InHand(shared')
  BY <1>4 DEF SharedInv, InHand
<1> QED
  BY <1>5, <1>6, <1>7, <1>8, <1>10, <1>30 DEF SharedInv

\* A message has a number of its own, and goes behind the close of its port.
LEMMA SharedMails ==
  ASSUME SharedInv, NEW p \in SW!Port, SW!Post(p)
  PROVE  SharedInv'
<1> DEFINE n == shared.posted + 1
           m == [do |-> "message", port |-> p, n |-> n]
           len == Len(shared.channel)
<1>0. SharedTypes /\ MaxPorts \in Nat /\ SharedPosts \in Nat /\ p <= shared.opened
  BY SharedFields DEF SharedInv, SW!Post
<1>1. n \in 0..SharedPosts /\ n \in Nat /\ shared.posted < n /\ m \in SW!Mail
  BY <1>0, SharedFields DEF SW!Post, SW!Mail
<1>11. n = shared.posted + 1
  OBVIOUS
<1> HIDE DEF n
<1> DEFINE c == Append(shared.channel, m)
<1>2. /\ c \in Seq(SW!Mail) /\ DOMAIN c = 1..(len + 1)
      /\ DOMAIN shared.channel = 1..len /\ len \in Nat
      /\ \A i \in 1..len : c[i] = shared.channel[i]
      /\ c[len + 1] = m
  BY <1>0, <1>1, Sent
<1>3. shared' = [shared EXCEPT !.posted = n, !.channel = c]
  BY <1>0 DEF SW!Post, SW!Send, SharedTypes, n
<1>9. m.do = "message" /\ m.port = p /\ m.n = n
  OBVIOUS
<1> HIDE DEF c, m, len
<1>4. /\ shared'.posted = n /\ shared'.channel = c
      /\ shared'.opened = shared.opened /\ shared'.ports = shared.ports
      /\ shared'.onmessage = shared.onmessage /\ shared'.heard = shared.heard
      /\ shared'.last = shared.last
      /\ shared'.seen = shared.seen /\ shared'.batch = shared.batch
      /\ shared'.queue = shared.queue /\ shared'.replies = shared.replies
      /\ shared'.thread = shared.thread /\ shared'.at = shared.at
  BY <1>0, <1>3 DEF SharedTypes
<1>5. SharedTypes'
  BY <1>0, <1>1, <1>2, <1>3 DEF SharedTypes
<1>20. SharedCloses(shared) /\ SharedOpened(shared) /\ SharedInOrder(shared)
  BY DEF SharedInv
<1>6. SharedOpened(shared')
  <2>1. p \in 1..shared.opened
    BY <1>0, SharedFields DEF SW!Port
  <2>2. \A i \in 1..(len + 1) : c[i].port \in 1..shared.opened
    BY <1>2, <1>9, <1>20, <2>1 DEF SharedOpened
  <2> QED
    BY <1>2, <1>4, <1>20, <2>2 DEF SharedOpened
<1>7. SharedInOrder(shared')
  <2>1. \A i \in DOMAIN shared.heard :
          shared.heard[i][2] <= shared.posted /\ shared.heard[i][2] \in Nat
    BY <1>20, SharedFields DEF SharedInOrder
  <2>2. \A i \in 1..len : shared.channel[i].do = "message" =>
                            shared.channel[i].n <= shared.posted /\ shared.channel[i].n \in Nat
    BY <1>2, <1>20, SharedFields DEF SharedInOrder, len
  <2>3. \A i \in DOMAIN shared.heard : shared.heard[i][2] <= n
    <3>1. shared.posted \in Nat /\ n \in Nat /\ shared.posted < n
      BY <1>1, SharedFields
    <3> QED
      BY <2>1, <3>1
  <2>4. \A i \in 1..(len + 1) : c[i].do = "message" => c[i].n <= n
    BY <1>1, <1>2, <1>9, <2>2, SharedFields
  <2>5. \A i \in 1..(len + 1), j \in DOMAIN shared.heard :
          c[i].do = "message" => shared.heard[j][2] < c[i].n
    <3>1. \A i \in 1..len, j \in DOMAIN shared.heard :
            shared.channel[i].do = "message" => shared.heard[j][2] < shared.channel[i].n
      BY <1>2, <1>20 DEF SharedInOrder
    <3>2. \A j \in DOMAIN shared.heard : shared.heard[j][2] < n
      BY <1>1, <2>1, SharedFields
    <3> QED
      BY <1>2, <1>9, <3>1, <3>2
  <2>6. \A i, j \in 1..(len + 1) :
          i < j /\ c[i].do = "message" /\ c[j].do = "message" => c[i].n < c[j].n
    <3>1. \A i, j \in 1..len :
            i < j /\ shared.channel[i].do = "message" /\ shared.channel[j].do = "message"
              => shared.channel[i].n < shared.channel[j].n
      BY <1>2, <1>20 DEF SharedInOrder
    <3>2. \A i \in 1..len : shared.channel[i].do = "message" => shared.channel[i].n < n
      BY <1>1, <2>2, SharedFields
    <3> QED
      BY <1>2, <1>9, <3>1, <3>2
  <2> QED
    BY <1>2, <1>4, <2>3, <2>4, <2>5, <2>6 DEF SharedInOrder
<1>8. SharedCloses(shared')
  <2>2. \A q \in SW!Port : Forgotten(shared, q) => Forgotten(shared', q)
    BY <1>2, <1>4, <1>9 DEF Forgotten
  <2>3. \A i \in 1..(len + 1) : c[i].do # "message" => i \in 1..len
    BY <1>2, <1>9
  <2>4. \A i \in 1..(len + 1) : c[i].do = "close" => shared.last[c[i].port] # SW!Open
    BY <1>2, <1>20, <2>3 DEF SharedCloses
  <2>5. \A i, j \in 1..(len + 1) :
          i < j /\ c[i].do = "close" /\ c[j].do = "connect" => c[i].port # c[j].port
    BY <1>2, <1>20, <2>3 DEF SharedCloses
  <2>7. \A q \in SW!Port :
          shared.last[q] # SW!Open =>
            \/ Forgotten(shared', q)
            \/ \E k \in 1..len : c[k].do = "close" /\ c[k].port = q
    <3> SUFFICES ASSUME NEW q \in SW!Port, shared.last[q] # SW!Open, ~Forgotten(shared', q)
                 PROVE  \E k \in 1..len : c[k].do = "close" /\ c[k].port = q
      OBVIOUS
    <3>1. PICK k \in 1..len : shared.channel[k].do = "close" /\ shared.channel[k].port = q
      BY <1>2, <1>20, <2>2 DEF SharedCloses
    <3> QED
      BY <1>2, <3>1
  <2>6. \A i \in 1..(len + 1) :
          c[i].do = "message" =>
            \/ c[i].n <= shared.last[c[i].port]
            \/ Forgotten(shared', c[i].port)
            \/ \E k \in 1..(len + 1) : k < i /\ c[k].do = "close" /\ c[k].port = c[i].port
    <3> SUFFICES ASSUME NEW i \in 1..(len + 1), c[i].do = "message",
                        ~(c[i].n <= shared.last[c[i].port]),
                        ~Forgotten(shared', c[i].port)
                 PROVE  \E k \in 1..(len + 1) : k < i /\ c[k].do = "close" /\ c[k].port = c[i].port
      OBVIOUS
    <3>1. CASE i \in 1..len
      <4>1. c[i] = shared.channel[i] /\ c[i].port \in SW!Port
        BY <1>2, <3>1, SharedFields DEF len
      <4>2. PICK k \in 1..len : /\ k < i /\ shared.channel[k].do = "close"
                                /\ shared.channel[k].port = shared.channel[i].port
        BY <1>2, <1>20, <2>2, <3>1, <4>1 DEF SharedCloses
      <4> QED
        BY <1>2, <4>1, <4>2
    <3>2. CASE i = len + 1
      <4>1. c[i].port = p /\ c[i].n = n
        BY <1>2, <1>9, <3>2
      <4>2. shared.last[p] # SW!Open
        BY <1>1, <4>1, SharedFields
      <4>3. PICK k \in 1..len : c[k].do = "close" /\ c[k].port = p
        BY <2>7, <4>1, <4>2
      <4> QED
        BY <1>2, <3>2, <4>1, <4>3
    <3> QED
      BY <1>2, <3>1, <3>2
  <2>8. \A q \in SW!Port :
          shared.last[q] # SW!Open =>
            \/ Forgotten(shared', q)
            \/ \E k \in 1..(len + 1) : c[k].do = "close" /\ c[k].port = q
    BY <1>2, <2>7
  <2> QED
    BY <1>2, <1>4, <2>4, <2>5, <2>6, <2>8 DEF SharedCloses
<1>10. SW!RepliesInOrder' /\ SW!HeardInOrder'
  BY <1>4 DEF SharedInv, SW!RepliesInOrder, SW!HeardInOrder
<1>30. InHand(shared')
  BY <1>4 DEF SharedInv, InHand
<1> QED
  BY <1>5, <1>6, <1>7, <1>8, <1>10, <1>30 DEF SharedInv

\* What was posted on a port before its close stays below the port's last.
LEMMA SharedClosesPort ==
  ASSUME SharedInv, NEW p \in SW!Port, SW!ClosePort(p)
  PROVE  SharedInv'
<1> DEFINE m == [do |-> "close", port |-> p, n |-> 0]
           len == Len(shared.channel)
           last == [shared.last EXCEPT ![p] = shared.posted]
<1>0. /\ SharedTypes /\ MaxPorts \in Nat /\ SharedPosts \in Nat
      /\ p <= shared.opened /\ shared.last[p] = SW!Open
  BY SharedFields DEF SharedInv, SW!ClosePort
<1>1. m \in SW!Mail
  BY <1>0 DEF SW!Mail
<1> DEFINE c == Append(shared.channel, m)
<1>2. /\ c \in Seq(SW!Mail) /\ DOMAIN c = 1..(len + 1)
      /\ DOMAIN shared.channel = 1..len /\ len \in Nat
      /\ \A i \in 1..len : c[i] = shared.channel[i]
      /\ c[len + 1] = m
  BY <1>0, <1>1, Sent
<1>3. shared' = [shared EXCEPT !.last = last, !.channel = c]
  BY <1>0 DEF SW!ClosePort, SW!Send, SharedTypes
<1>9. m.do = "close" /\ m.port = p
  OBVIOUS
<1>12. /\ last \in [SW!Port -> 0..SW!Open] /\ last[p] = shared.posted /\ last[p] # SW!Open
       /\ \A q \in SW!Port : q # p => last[q] = shared.last[q]
  <2>1. shared.last \in [SW!Port -> 0..SW!Open]
    BY <1>0 DEF SharedTypes
  <2> QED
    BY <2>1, SharedFields
<1> HIDE DEF c, m, len, last
<1>4. /\ shared'.last = last /\ shared'.channel = c
      /\ shared'.opened = shared.opened /\ shared'.ports = shared.ports
      /\ shared'.onmessage = shared.onmessage /\ shared'.heard = shared.heard
      /\ shared'.posted = shared.posted
      /\ shared'.seen = shared.seen /\ shared'.batch = shared.batch
      /\ shared'.queue = shared.queue /\ shared'.replies = shared.replies
      /\ shared'.thread = shared.thread /\ shared'.at = shared.at
  BY <1>0, <1>3 DEF SharedTypes
<1>5. SharedTypes'
  BY <1>0, <1>12, <1>2, <1>3 DEF SharedTypes
<1>20. SharedCloses(shared) /\ SharedOpened(shared) /\ SharedInOrder(shared)
  BY DEF SharedInv
<1>6. SharedOpened(shared')
  <2>1. p \in 1..shared.opened
    BY <1>0, SharedFields DEF SW!Port
  <2>2. \A i \in 1..(len + 1) : c[i].port \in 1..shared.opened
    BY <1>2, <1>9, <1>20, <2>1 DEF SharedOpened
  <2>3. \A q \in SW!Port : last[q] # SW!Open => q <= shared.opened
    BY <1>0, <1>12, <1>20 DEF SharedOpened
  <2> QED
    BY <1>2, <1>4, <1>20, <2>2, <2>3 DEF SharedOpened
<1>7. SharedInOrder(shared')
  <2>1. \A i \in 1..(len + 1) : c[i].do = "message" => i \in 1..len
    BY <1>2, <1>9
  <2> QED
    BY <1>2, <1>4, <1>20, <2>1 DEF SharedInOrder
<1>8. SharedCloses(shared')
  <2>2. \A q \in SW!Port : Forgotten(shared, q) => Forgotten(shared', q)
    BY <1>0, <1>2, <1>4, <1>9, <1>12 DEF Forgotten
  <2>3. \A i \in 1..(len + 1) : c[i].do # "close" => i \in 1..len
    BY <1>2, <1>9
  <2>10. \A i \in 1..len : c[i] = shared.channel[i] /\ c[i].port \in SW!Port
    BY <1>2, SharedFields DEF len
  <2>4. \A i \in 1..(len + 1) : c[i].do = "close" => last[c[i].port] # SW!Open
    <3> TAKE i \in 1..(len + 1)
    <3>1. CASE i \in 1..len
      <4>1. c[i].do = "close" => shared.last[c[i].port] # SW!Open
        BY <1>2, <1>20, <3>1 DEF SharedCloses
      <4>2. c[i].port \in SW!Port
        BY <2>10, <3>1
      <4> QED
        BY <1>12, <4>1, <4>2
    <3>2. CASE i = len + 1
      BY <1>2, <1>9, <1>12, <3>2
    <3> QED
      BY <1>2, <3>1, <3>2
  <2>5. \A i, j \in 1..(len + 1) :
          i < j /\ c[i].do = "close" /\ c[j].do = "connect" => c[i].port # c[j].port
    <3>1. \A i, j \in 1..(len + 1) : i < j /\ j \in 1..len => i \in 1..len
      BY <1>2
    <3> QED
      BY <1>2, <1>20, <2>3, <3>1 DEF SharedCloses
  <2>7. \A q \in SW!Port :
          last[q] # SW!Open =>
            \/ Forgotten(shared', q)
            \/ \E k \in 1..(len + 1) : c[k].do = "close" /\ c[k].port = q
    <3> SUFFICES ASSUME NEW q \in SW!Port, last[q] # SW!Open, ~Forgotten(shared', q)
                 PROVE  \E k \in 1..(len + 1) : c[k].do = "close" /\ c[k].port = q
      OBVIOUS
    <3>1. CASE q = p
      BY <1>2, <1>9, <3>1
    <3>2. CASE q # p
      <4>1. PICK k \in 1..len : shared.channel[k].do = "close" /\ shared.channel[k].port = q
        BY <1>2, <1>12, <1>20, <2>2, <3>2 DEF SharedCloses
      <4> QED
        BY <1>2, <4>1
    <3> QED
      BY <3>1, <3>2
  <2>6. \A i \in 1..(len + 1) :
          c[i].do = "message" =>
            \/ c[i].n <= last[c[i].port]
            \/ Forgotten(shared', c[i].port)
            \/ \E k \in 1..(len + 1) : k < i /\ c[k].do = "close" /\ c[k].port = c[i].port
    <3> SUFFICES ASSUME NEW i \in 1..(len + 1), c[i].do = "message",
                        ~(c[i].n <= last[c[i].port]),
                        ~Forgotten(shared', c[i].port)
                 PROVE  \E k \in 1..(len + 1) : k < i /\ c[k].do = "close" /\ c[k].port = c[i].port
      OBVIOUS
    <3>1. i \in 1..len /\ c[i] = shared.channel[i] /\ c[i].port \in SW!Port
      BY <2>3, <2>10
    <3>2. c[i].port # p
      <4>1. c[i].n <= shared.posted
        BY <1>2, <1>20, <3>1 DEF SharedInOrder
      <4> QED
        BY <1>12, <4>1
    <3>3. PICK k \in 1..len : /\ k < i /\ shared.channel[k].do = "close"
                              /\ shared.channel[k].port = shared.channel[i].port
      <4>1. ~(shared.channel[i].n <= shared.last[shared.channel[i].port])
        BY <1>12, <3>1, <3>2
      <4>2. ~Forgotten(shared, shared.channel[i].port)
        BY <2>2, <3>1
      <4> QED
        BY <1>2, <1>20, <3>1, <4>1, <4>2 DEF SharedCloses
    <3> QED
      BY <1>2, <3>1, <3>3
  <2> QED
    BY <1>2, <1>4, <2>4, <2>5, <2>6, <2>7 DEF SharedCloses
<1>10. SW!RepliesInOrder' /\ SW!HeardInOrder'
  <2>1. SW!RepliesInOrder'
    BY <1>4 DEF SharedInv, SW!RepliesInOrder
  <2>2. \A i \in DOMAIN shared.heard :
          shared.heard[i][2] <= last[shared.heard[i][1]]
    <3> TAKE i \in DOMAIN shared.heard
    <3>1. shared.heard[i][2] <= shared.posted /\ shared.heard[i][1] \in SW!Port
      BY <1>20, SharedFields DEF SharedInOrder
    <3>2. shared.heard[i][2] <= shared.last[shared.heard[i][1]]
      BY DEF SharedInv, SW!HeardInOrder
    <3> QED
      BY <1>12, <3>1, <3>2
  <2> QED
    BY <1>4, <2>1, <2>2 DEF SharedInv, SW!HeardInOrder
<1>30. InHand(shared')
  BY <1>4 DEF SharedInv, InHand
<1> QED
  BY <1>5, <1>6, <1>7, <1>8, <1>10, <1>30 DEF SharedInv

\* The mail at the head goes.
LEMMA SharedReceives ==
  ASSUME SharedInv, SW!Receive
  PROVE  SharedInv'
<1> DEFINE mail == Head(shared.channel)
           n == Len(shared.channel)
           c == Tail(shared.channel)
           runs == CASE mail.do = "connect" -> shared.onconnect
                     [] mail.do = "message" -> mail.port \in shared.ports \cap shared.onmessage
                     [] OTHER -> FALSE
           at == IF runs THEN mail ELSE SW!NoMail
           thread == IF runs THEN "handler" ELSE "receive"
           heard == IF runs /\ mail.do = "message"
                    THEN Append(shared.heard, <<mail.port, mail.n>>) ELSE shared.heard
           ports == CASE mail.do = "connect" -> shared.ports \cup {mail.port}
                      [] mail.do = "close" -> shared.ports \ {mail.port}
                      [] OTHER -> shared.ports
<1>0. /\ SharedTypes /\ MaxPorts \in Nat /\ SharedPosts \in Nat /\ shared.channel # <<>>
  BY SharedFields DEF SharedInv, SW!Receive
<1>1. /\ n \in Nat /\ n >= 1 /\ DOMAIN shared.channel = 1..n
      /\ c \in Seq(SW!Mail) /\ DOMAIN c = 1..(n - 1)
      /\ \A i \in 1..(n - 1) : c[i] = shared.channel[i + 1]
      /\ mail = shared.channel[1] /\ mail \in SW!Mail
  <2>1. shared.channel \in Seq(SW!Mail)
    BY <1>0 DEF SharedTypes
  <2> QED
    BY <1>0, <2>1
<1>2. shared' = [shared EXCEPT !.channel = c, !.at = at, !.thread = thread,
                               !.heard = heard, !.ports = ports]
  BY DEF SW!Receive
<1>3. /\ mail.port \in SW!Port /\ mail.port \in Nat /\ mail.n \in Nat
      /\ mail.n <= SharedPosts /\ mail.do \in {"connect", "message", "close"}
      /\ <<mail.port, mail.n>> \in SW!Heard
  <2>1. mail.port \in SW!Port /\ mail.port \in Nat /\ mail.n \in Nat /\ mail.n <= SharedPosts
    BY <1>1, SharedFields
  <2>2. mail.do \in {"connect", "message", "close"} /\ mail.n \in 0..SharedPosts
    BY <1>1 DEF SW!Mail
  <2> QED
    BY <2>1, <2>2 DEF SW!Heard
<1>4. /\ ports \subseteq SW!Port
      /\ mail.do = "connect" => ports = shared.ports \cup {mail.port}
      /\ mail.do = "close" => ports = shared.ports \ {mail.port}
      /\ mail.do = "message" => ports = shared.ports
  <2>1. shared.ports \subseteq SW!Port
    BY <1>0 DEF SharedTypes
  <2> QED
    BY <1>3, <2>1
<1>5. /\ heard \in Seq(SW!Heard)
      /\ \/ heard = shared.heard
         \/ /\ mail.do = "message" /\ mail.port \in shared.ports
            /\ heard = Append(shared.heard, <<mail.port, mail.n>>)
  BY <1>3, SharedFields
<1>6. /\ at \in SW!Mail \cup {SW!NoMail} /\ thread \in {"script", "receive", "handler", "done"}
      /\ thread = "handler" => at \in SW!Mail
  BY <1>1
<1>20. SharedCloses(shared) /\ SharedOpened(shared) /\ SharedInOrder(shared)
  BY DEF SharedInv
<1> DEFINE d == shared.channel
<1>21. /\ \A i \in 1..n : d[i].do = "close" => shared.last[d[i].port] # SW!Open
       /\ \A i, j \in 1..n :
            i < j /\ d[i].do = "close" /\ d[j].do = "connect" => d[i].port # d[j].port
  BY <1>1, <1>20 DEF SharedCloses
<1>22. \A i \in 1..n :
         d[i].do = "message" =>
           \/ d[i].n <= shared.last[d[i].port]
           \/ Forgotten(shared, d[i].port)
           \/ \E k \in 1..n : k < i /\ d[k].do = "close" /\ d[k].port = d[i].port
  BY <1>1, <1>20 DEF SharedCloses
<1>23. \A p \in SW!Port :
         shared.last[p] # SW!Open =>
           Forgotten(shared, p) \/ \E k \in 1..n : d[k].do = "close" /\ d[k].port = p
  BY <1>1, <1>20 DEF SharedCloses
<1>24. /\ \A i, j \in 1..n :
            i < j /\ d[i].do = "message" /\ d[j].do = "message" => d[i].n < d[j].n
       /\ \A i \in 1..n : d[i].do = "message" => d[i].n <= shared.posted
       /\ \A i \in 1..n, j \in DOMAIN shared.heard :
            d[i].do = "message" => shared.heard[j][2] < d[i].n
  BY <1>1, <1>20 DEF SharedInOrder
<1>25. /\ \A i \in 1..n : d[i].port \in SW!Port
       /\ \A i \in 1..(n - 1) : c[i] = d[i + 1] /\ i + 1 \in 1..n /\ i + 1 # 1 /\ 1 < i + 1
       /\ \A i, j \in 1..(n - 1) : i < j => i + 1 < j + 1
       /\ mail = d[1] /\ 1 \in 1..n
  BY <1>1, SharedFields
<1>26. /\ DOMAIN shared.channel = 1..n /\ DOMAIN c = 1..(n - 1)
       /\ \A p : Forgotten(shared, p) <=>
                   /\ shared.last[p] # SW!Open /\ p \notin shared.ports
                   /\ \A i \in 1..n : ~(d[i].do = "connect" /\ d[i].port = p)
  BY <1>1 DEF Forgotten
<1> HIDE DEF mail, n, c, runs, at, thread, heard, ports, d
<1>7. /\ shared'.channel = c /\ shared'.heard = heard /\ shared'.ports = ports
      /\ shared'.opened = shared.opened /\ shared'.onmessage = shared.onmessage
      /\ shared'.posted = shared.posted /\ shared'.last = shared.last
      /\ shared'.seen = shared.seen /\ shared'.batch = shared.batch
      /\ shared'.queue = shared.queue /\ shared'.replies = shared.replies
      /\ shared'.thread = thread /\ shared'.at = at
  BY <1>0, <1>2 DEF SharedTypes
<1>8. SharedTypes'
  BY <1>0, <1>1, <1>2, <1>4, <1>5, <1>6 DEF SharedTypes
<1>9. \A i \in 1..(n - 1) : i + 1 \in 1..n /\ i + 1 # 1 /\ 1 < i + 1
  BY <1>1
<1>10. SharedOpened(shared')
  <2>1. \A i \in 1..n : shared.channel[i].port \in 1..shared.opened
    BY <1>1, <1>20 DEF SharedOpened
  <2>2. mail.port <= shared.opened
    <3>1. mail = shared.channel[1] /\ 1 \in 1..n
      BY <1>25 DEF d
    <3>2. shared.opened \in Nat
      BY SharedFields
    <3> QED
      BY <2>1, <3>1, <3>2
  <2>3. \A p \in ports : p \in shared.ports \/ p = mail.port
    BY <1>3, <1>4
  <2>4. \A p \in ports \cup shared.onmessage : p <= shared.opened
    BY <1>20, <2>2, <2>3 DEF SharedOpened
  <2>5. \A i \in 1..(n - 1) : c[i].port \in 1..shared.opened
    BY <1>1, <1>9, <2>1
  <2> QED
    BY <1>1, <1>7, <1>20, <2>4, <2>5 DEF SharedOpened
<1>11. /\ \A i, j \in 1..(n - 1) :
            i < j /\ c[i].do = "message" /\ c[j].do = "message" => c[i].n < c[j].n
       /\ \A i \in 1..(n - 1) : c[i].do = "message" => c[i].n <= shared.posted
       /\ \A i \in 1..(n - 1), j \in DOMAIN shared.heard :
            c[i].do = "message" => shared.heard[j][2] < c[i].n
       /\ \A i \in 1..(n - 1) :
            mail.do = "message" /\ c[i].do = "message" => mail.n < c[i].n
  BY <1>24, <1>25
<1>12. ASSUME heard = shared.heard
       PROVE  SharedInOrder(shared') /\ SW!HeardInOrder'
  <2>1. SharedInOrder(shared')
    <3>1. \A i \in DOMAIN shared.heard : shared.heard[i][2] <= shared.posted
      BY <1>20 DEF SharedInOrder
    <3> QED
      BY <1>1, <1>7, <1>11, <1>12, <3>1 DEF SharedInOrder
  <2>2. SW!HeardInOrder'
    BY <1>7, <1>12 DEF SharedInv, SW!HeardInOrder
  <2> QED
    BY <2>1, <2>2
<1>13. ASSUME heard # shared.heard
       PROVE  SharedInOrder(shared') /\ SW!HeardInOrder'
  <2> DEFINE k == Len(shared.heard)
  <2>1. /\ mail.do = "message" /\ mail.port \in shared.ports
        /\ k \in Nat /\ DOMAIN shared.heard = 1..k
        /\ DOMAIN heard = 1..(k + 1)
        /\ \A i \in 1..k : heard[i] = shared.heard[i]
        /\ heard[k + 1][1] = mail.port /\ heard[k + 1][2] = mail.n
    BY <1>5, <1>13, SharedFields
  <2> HIDE DEF k
  <2>2. mail.n <= shared.posted /\ \A i \in 1..k : shared.heard[i][2] < mail.n
    BY <1>24, <1>25, <2>1
  <2>3. /\ \A i \in 1..(k + 1) : heard[i][2] <= shared.posted
        /\ \A i \in 1..(n - 1), j \in 1..(k + 1) : c[i].do = "message" => heard[j][2] < c[i].n
    <3>1. \A j \in 1..(k + 1) : j \in 1..k \/ j = k + 1
      BY <2>1
    <3>2. \A j \in 1..k : shared.heard[j][2] <= shared.posted
      BY <1>20, <2>1 DEF SharedInOrder
    <3> QED
      BY <1>11, <2>1, <2>2, <3>1, <3>2
  <2>4. SharedInOrder(shared')
    BY <1>1, <1>7, <1>11, <2>1, <2>3 DEF SharedInOrder
  <2>5. mail.n <= shared.last[mail.port]
    <3>1. ~Forgotten(shared, mail.port)
      BY <2>1 DEF Forgotten
    <3>2. ~\E i \in 1..n : i < 1
      BY <1>1
    <3> QED
      BY <1>22, <1>25, <2>1, <3>1, <3>2
  <2>6. \A i, j \in 1..(k + 1) : i < j => heard[i][2] < heard[j][2]
    <3>1. \A i, j \in 1..k : i < j => shared.heard[i][2] < shared.heard[j][2]
      BY <2>1 DEF SharedInv, SW!HeardInOrder
    <3>2. \A i, j \in 1..(k + 1) : i < j => i \in 1..k /\ (j \in 1..k \/ j = k + 1)
      BY <2>1
    <3> QED
      BY <2>1, <2>2, <3>1, <3>2
  <2>7. \A i \in 1..(k + 1) : heard[i][2] <= shared.last[heard[i][1]]
    <3>1. \A i \in 1..k : shared.heard[i][2] <= shared.last[shared.heard[i][1]]
      BY <2>1 DEF SharedInv, SW!HeardInOrder
    <3>2. \A i \in 1..(k + 1) : i \in 1..k \/ i = k + 1
      BY <2>1
    <3> QED
      BY <2>1, <2>5, <3>1, <3>2
  <2>8. SW!HeardInOrder'
    BY <1>7, <2>1, <2>6, <2>7 DEF SW!HeardInOrder
  <2> QED
    BY <2>4, <2>8
<1>14. \A q \in SW!Port : Forgotten(shared, q) => Forgotten(shared', q)
  <2> SUFFICES ASSUME NEW q \in SW!Port, Forgotten(shared, q) PROVE Forgotten(shared', q)
    OBVIOUS
  <2>1. mail.do = "connect" => mail.port # q
    BY <1>25, <1>26
  <2>2. q \notin ports
    BY <1>3, <1>4, <1>26, <2>1
  <2>3. \A i \in 1..(n - 1) : ~(c[i].do = "connect" /\ c[i].port = q)
    BY <1>25, <1>26
  <2> QED
    BY <1>7, <1>26, <2>2, <2>3 DEF Forgotten
<1>15. mail.do = "close" => Forgotten(shared', mail.port)
  <2> SUFFICES ASSUME mail.do = "close" PROVE Forgotten(shared', mail.port)
    OBVIOUS
  <2>1. shared.last[mail.port] # SW!Open
    BY <1>21, <1>25
  <2>2. \A i \in 1..(n - 1) : ~(c[i].do = "connect" /\ c[i].port = mail.port)
    BY <1>21, <1>25
  <2> QED
    BY <1>4, <1>7, <1>26, <2>1, <2>2 DEF Forgotten
<1>16. SharedCloses(shared')
  <2>1. \A i \in 1..(n - 1) : c[i].do = "close" => shared.last[c[i].port] # SW!Open
    BY <1>21, <1>25
  <2>2. \A i, j \in 1..(n - 1) :
          i < j /\ c[i].do = "close" /\ c[j].do = "connect" => c[i].port # c[j].port
    BY <1>21, <1>25
  <2>3. \A i \in 1..(n - 1) :
          c[i].do = "message" =>
            \/ c[i].n <= shared.last[c[i].port]
            \/ Forgotten(shared', c[i].port)
            \/ \E k \in 1..(n - 1) : k < i /\ c[k].do = "close" /\ c[k].port = c[i].port
    <3> SUFFICES ASSUME NEW i \in 1..(n - 1), c[i].do = "message",
                        ~(c[i].n <= shared.last[c[i].port]),
                        ~Forgotten(shared', c[i].port)
                 PROVE  \E k \in 1..(n - 1) : k < i /\ c[k].do = "close" /\ c[k].port = c[i].port
      OBVIOUS
    <3>1. i + 1 \in 1..n /\ c[i] = d[i + 1] /\ c[i].port \in SW!Port
      BY <1>25
    <3>2. ~Forgotten(shared, c[i].port)
      BY <1>14, <3>1
    <3>3. PICK k \in 1..n : /\ k < i + 1 /\ d[k].do = "close" /\ d[k].port = c[i].port
      BY <1>22, <3>1, <3>2
    <3>4. k # 1
      BY <1>15, <1>25, <3>3
    <3>5. k - 1 \in 1..(n - 1) /\ (k - 1) + 1 = k /\ k - 1 < i
      BY <1>1, <3>3, <3>4
    <3>6. c[k - 1] = d[k]
      BY <1>25, <3>5
    <3> QED
      BY <3>3, <3>5, <3>6
  <2>4. \A q \in SW!Port :
          shared.last[q] # SW!Open =>
            \/ Forgotten(shared', q)
            \/ \E k \in 1..(n - 1) : c[k].do = "close" /\ c[k].port = q
    <3> SUFFICES ASSUME NEW q \in SW!Port, shared.last[q] # SW!Open, ~Forgotten(shared', q)
                 PROVE  \E k \in 1..(n - 1) : c[k].do = "close" /\ c[k].port = q
      OBVIOUS
    <3>1. ~Forgotten(shared, q)
      BY <1>14
    <3>2. PICK k \in 1..n : d[k].do = "close" /\ d[k].port = q
      BY <1>23, <3>1
    <3>3. k # 1
      BY <1>15, <1>25, <3>2
    <3>4. k - 1 \in 1..(n - 1) /\ (k - 1) + 1 = k
      BY <1>1, <3>2, <3>3
    <3>5. c[k - 1] = d[k]
      BY <1>25, <3>4
    <3> QED
      BY <3>2, <3>4, <3>5
  <2> QED
    BY <1>7, <1>26, <2>1, <2>2, <2>3, <2>4 DEF SharedCloses
<1>17. SW!RepliesInOrder'
  BY <1>7 DEF SharedInv, SW!RepliesInOrder
<1>18. InHand(shared')
  BY <1>6, <1>7 DEF InHand
<1> QED
  BY <1>8, <1>10, <1>12, <1>13, <1>16, <1>17, <1>18 DEF SharedInv

\* One step per action.
LEMMA SharedStep ==
  ASSUME SharedInv, SW!Next
  PROVE  SharedInv'
<1>0. SharedTypes /\ SW!RepliesInOrder /\ InHand(shared)
  BY DEF SharedInv
<1>1. CASE SW!Listens \/ SW!DropsPort \/ SW!ClosesItself \/ SW!ScriptEnds
  <2>1. /\ SharedTypes'
        /\ shared'.opened = shared.opened /\ shared'.posted = shared.posted
        /\ shared'.channel = shared.channel /\ shared'.ports \subseteq shared.ports
        /\ shared'.onmessage \subseteq shared.onmessage \cup shared.ports
        /\ shared'.heard = shared.heard /\ shared'.last = shared.last
        /\ shared'.seen = shared.seen /\ shared'.batch = shared.batch
        /\ shared'.queue = shared.queue /\ shared'.replies = shared.replies
        /\ shared'.thread = "handler" => shared'.thread = shared.thread /\ shared'.at = shared.at
    <3>1. CASE SW!Listens
      <4>1. CASE shared' = [shared EXCEPT !.onconnect = TRUE]
        BY <1>0, <4>1 DEF SharedTypes
      <4>2. CASE \E p \in shared.ports : shared' = [shared EXCEPT !.onmessage = @ \cup {p}]
        <5>1. PICK p \in shared.ports :
                shared' = [shared EXCEPT !.onmessage = shared.onmessage \cup {p}]
          BY <4>2
        <5> QED
          BY <1>0, <5>1 DEF SharedTypes
      <4> QED
        BY <3>1, <4>1, <4>2 DEF SW!Listens
    <3>2. CASE SW!DropsPort
      BY <1>0, <3>2 DEF SharedTypes, SW!DropsPort
    <3>3. CASE SW!ClosesItself
      BY <1>0, <3>3 DEF SharedTypes, SW!ClosesItself
    <3>4. CASE SW!ScriptEnds
      <4>1. PICK thread \in {"done", "receive"} :
              shared' = [shared EXCEPT !.thread = thread, !.at = SW!NoMail]
        BY <3>4 DEF SW!ScriptEnds
      <4> QED
        BY <1>0, <4>1 DEF SharedTypes
    <3> QED
      BY <1>1, <3>1, <3>2, <3>3, <3>4
  <2>2. SW!RepliesInOrder'
    BY <1>0, <2>1 DEF SW!RepliesInOrder
  <2>3. InHand(shared')
    BY <1>0, <2>1 DEF InHand
  <2> QED
    BY <2>1, <2>2, <2>3, SharedQuiet
<1>2. CASE SW!Replies
  <2> DEFINE r == <<shared.at.port, shared.at.n>>
  <2>1. r \in SW!Heard
    <3>1. shared.at \in SW!Mail
      BY <1>0, <1>2 DEF SW!Replies, InHand
    <3> QED
      BY <3>1 DEF SW!Mail, SW!Heard
  <2> HIDE DEF r
  <2>2. /\ shared.queue \in Seq(SW!Heard) /\ shared.replies \in Seq(SW!Heard)
        /\ shared.seen \o shared.batch \in Seq(SW!Heard)
    BY <1>0 DEF SharedTypes
  <2> DEFINE queue == Append(shared.queue, r)
             said == Append(shared.replies, r)
  <2>3. queue \in Seq(SW!Heard) /\ said \in Seq(SW!Heard)
    BY <2>1, <2>2
  <2>4. shared' = [shared EXCEPT !.queue = queue, !.replies = said]
    BY <1>0, <1>2 DEF SW!Replies, SharedTypes, r
  <2>5. (shared.seen \o shared.batch) \o queue = said
    <3>1. (shared.seen \o shared.batch) \o shared.queue = shared.replies
      BY <1>0 DEF SW!RepliesInOrder
    <3> DEFINE told == shared.seen \o shared.batch
    <3>2. told \in Seq(SW!Heard) /\ told \o shared.queue = shared.replies
      BY <2>2, <3>1
    <3> HIDE DEF told
    <3>3. \A t, q \in Seq(SW!Heard) : t \o Append(q, r) = Append(t \o q, r)
      <4> HIDE DEF queue, said
      <4> QED
        BY <2>1, Queued
    <3> QED
      BY <2>2, <3>2, <3>3 DEF told
  <2> HIDE DEF queue, said
  <2>6. /\ SharedTypes' /\ shared'.queue = queue /\ shared'.replies = said
        /\ shared'.opened = shared.opened /\ shared'.posted = shared.posted
        /\ shared'.channel = shared.channel /\ shared'.ports = shared.ports
        /\ shared'.onmessage = shared.onmessage
        /\ shared'.heard = shared.heard /\ shared'.last = shared.last
        /\ shared'.seen = shared.seen /\ shared'.batch = shared.batch
        /\ shared'.thread = shared.thread /\ shared'.at = shared.at
    BY <1>0, <2>3, <2>4 DEF SharedTypes
  <2>7. SW!RepliesInOrder' /\ InHand(shared')
    BY <1>0, <2>5, <2>6 DEF SW!RepliesInOrder, InHand
  <2> QED
    BY <2>6, <2>7, SharedQuiet
<1>3. CASE SW!Drain
  <2>1. /\ shared.batch = <<>>
        /\ shared' = [shared EXCEPT !.batch = shared.queue, !.queue = <<>>]
    BY <1>3 DEF SW!Drain
  <2>2. /\ SharedTypes' /\ shared'.queue = <<>> /\ shared'.batch = shared.queue
        /\ shared'.opened = shared.opened /\ shared'.posted = shared.posted
        /\ shared'.channel = shared.channel /\ shared'.ports = shared.ports
        /\ shared'.onmessage = shared.onmessage
        /\ shared'.heard = shared.heard /\ shared'.last = shared.last
        /\ shared'.seen = shared.seen /\ shared'.replies = shared.replies
        /\ shared'.thread = shared.thread /\ shared'.at = shared.at
    BY <1>0, <2>1 DEF SharedTypes
  <2>3. shared.seen \o shared.queue \o <<>> = shared.seen \o <<>> \o shared.queue
    BY <1>0, Emptied DEF SharedTypes
  <2>4. SW!RepliesInOrder' /\ InHand(shared')
    BY <1>0, <2>1, <2>2, <2>3 DEF SW!RepliesInOrder, InHand
  <2> QED
    BY <2>2, <2>4, SharedQuiet
<1>4. CASE SW!Dispatch
  <2> DEFINE rest == Tail(shared.batch)
             known == Append(shared.seen, Head(shared.batch))
  <2>1. shared.batch # <<>> /\ shared' = [shared EXCEPT !.batch = rest, !.seen = known]
    BY <1>0, <1>4 DEF SW!Dispatch, SharedTypes
  <2>2. /\ rest \in Seq(SW!Heard) /\ known \in Seq(SW!Heard)
        /\ known \o rest \o shared.queue = shared.seen \o shared.batch \o shared.queue
    <3>1. /\ shared.seen \in Seq(SW!Heard) /\ shared.batch \in Seq(SW!Heard)
          /\ shared.queue \in Seq(SW!Heard)
      BY <1>0 DEF SharedTypes
    <3>2. shared.batch # <<>>
      BY <2>1
    <3> DEFINE Moves(s, b, q) ==
                 /\ Tail(b) \in Seq(SW!Heard) /\ Append(s, Head(b)) \in Seq(SW!Heard)
                 /\ Append(s, Head(b)) \o Tail(b) \o q = s \o b \o q
    <3>3. \A s, b, q \in Seq(SW!Heard) : b # <<>> => Moves(s, b, q)
      BY Moved
    <3> HIDE DEF Moves
    <3>4. Moves(shared.seen, shared.batch, shared.queue)
      BY <3>1, <3>2, <3>3
    <3> QED
      BY <3>4 DEF Moves
  <2> HIDE DEF rest, known
  <2>3. /\ SharedTypes' /\ shared'.batch = rest /\ shared'.seen = known
        /\ shared'.opened = shared.opened /\ shared'.posted = shared.posted
        /\ shared'.channel = shared.channel /\ shared'.ports = shared.ports
        /\ shared'.onmessage = shared.onmessage
        /\ shared'.heard = shared.heard /\ shared'.last = shared.last
        /\ shared'.queue = shared.queue /\ shared'.replies = shared.replies
        /\ shared'.thread = shared.thread /\ shared'.at = shared.at
    BY <1>0, <2>1, <2>2 DEF SharedTypes
  <2>4. SW!RepliesInOrder' /\ InHand(shared')
    BY <1>0, <2>2, <2>3 DEF SW!RepliesInOrder, InHand
  <2> QED
    BY <2>3, <2>4, SharedQuiet
<1> QED
  BY <1>1, <1>2, <1>3, <1>4, SharedReceives, SharedConnects, SharedMails, SharedClosesPort
     DEF SW!Next

\* A fresh worker knows no port.
LEMMA SharedStart == SW!Init => SharedInv
<1> SUFFICES ASSUME shared = SW!Fresh PROVE SharedInv
  BY DEF SW!Init
<1>1. MaxPorts \in Nat /\ SharedPosts \in Nat /\ SW!Open = SharedPosts + 1
  BY BoundsAssumption DEF SW!Bounds, SW!Open
<1>2. /\ shared.opened = 0 /\ shared.posted = 0 /\ shared.channel = <<>>
      /\ shared.thread = "script" /\ shared.at = SW!NoMail /\ shared.onconnect = FALSE
      /\ shared.ports = {} /\ shared.onmessage = {} /\ shared.closed = FALSE
      /\ shared.queue = <<>> /\ shared.batch = <<>> /\ shared.replies = <<>>
      /\ shared.seen = <<>> /\ shared.heard = <<>>
      /\ shared.last = [p \in SW!Port |-> SW!Open]
  BY DEF SW!Fresh
<1>3. SharedTypes
  BY <1>1 DEF SharedTypes, SW!Fresh
<1>4. \A p \in SW!Port : shared.last[p] = SW!Open
  BY <1>2
<1>5. <<>> \o <<>> \o <<>> = <<>>
  OBVIOUS
<1> QED
  BY <1>2, <1>3, <1>4, <1>5
     DEF SharedInv, InHand, SharedOpened, SharedInOrder, SharedCloses, SW!RepliesInOrder,
         SW!HeardInOrder

----------------------------------------------------------------------------
(* WebSockets. *)

\* A set of naturals has a least member.
LEMMA LeastMember ==
  ASSUME NEW S, S \subseteq Nat, S # {}
  PROVE  \E m \in S : \A k \in S : m <= k
<1>1. PICK m \in S : \A k \in S : <<k, m>> \notin OpToRel(<, Nat)
  BY WFMin, NatLessThanWellFounded
<1>2. \A k \in S : ~(k < m)
  BY <1>1 DEF OpToRel
<1>3. \A k \in S : m <= k
  BY <1>2
<1> QED
  BY <1>3

\* Numbers that rise from place to place rise by one at least.
LEMMA Rises ==
  ASSUME NEW n \in Nat, NEW q, \A i \in 1..n : q[i] \in Nat,
         \A i, j \in 1..n : i < j => q[i] < q[j]
  PROVE  \A i \in 1..n : q[1] + i - 1 <= q[i]
<1> DEFINE low == {i \in 1..n : ~(q[1] + i - 1 <= q[i])}
<1> SUFFICES ASSUME low # {} PROVE FALSE
  OBVIOUS
<1>1. low \subseteq Nat
  OBVIOUS
<1>2. PICK m \in low : \A k \in low : m <= k
  <2> HIDE DEF low
  <2> QED
    BY <1>1, LeastMember
<1>3. m \in 1..n /\ ~(q[1] + m - 1 <= q[m])
  BY <1>2
<1>4. \A k \in 1..n : ~(m <= k) => q[1] + k - 1 <= q[k]
  BY <1>2
<1> HIDE DEF low
<1>5. 1 \in 1..n /\ q[1] \in Nat /\ q[m] \in Nat
  BY <1>3
<1>6. m # 1
  BY <1>3, <1>5
<1>7. m - 1 \in 1..n /\ ~(m <= m - 1) /\ m - 1 < m
  BY <1>3, <1>6
<1>8. q[1] + (m - 1) - 1 <= q[m - 1] /\ q[m - 1] < q[m] /\ q[m - 1] \in Nat
  BY <1>3, <1>4, <1>7
<1> QED
  BY <1>3, <1>5, <1>8

\* What a queue of cap places keeps of the numbers up to p, the last of them at place n:
\* they rise, and one that is missing is older than cap newer ones.
Orderly(all, n, p, cap) ==
  /\ \A i, j \in 1..n : i < j => all[i] < all[j]
  /\ \A k \in 0..p : (\A i \in 1..n : all[i] # k) => p - k >= cap
  /\ \A i \in 1..n : all[i] \in Nat /\ all[i] <= p

\* The next number comes last.
LEMMA NextAppended ==
  ASSUME NEW n \in Nat, NEW p \in Nat, NEW cap \in Nat \ {0}, NEW a, NEW b,
         Orderly(a, n, p, cap), \A i \in 1..n : b[i] = a[i], b[n + 1] = p + 1
  PROVE  Orderly(b, n + 1, p + 1, cap)
<1>1. \A i \in 1..(n + 1) : i \in 1..n \/ i = n + 1
  OBVIOUS
<1>2. /\ \A i, j \in 1..n : i < j => a[i] < a[j]
      /\ \A i \in 1..n : a[i] \in Nat /\ a[i] <= p
      /\ \A k \in 0..p : (\A i \in 1..n : a[i] # k) => p - k >= cap
  BY DEF Orderly
<1>3. \A i \in 1..n : b[i] \in Nat /\ b[i] < p + 1
  BY <1>2
<1>4. \A i \in 1..(n + 1) : b[i] \in Nat /\ b[i] <= p + 1
  BY <1>1, <1>3
<1>5. ASSUME NEW i \in 1..(n + 1), NEW j \in 1..(n + 1), i < j PROVE b[i] < b[j]
  <2>1. i \in 1..n
    BY <1>5
  <2>2. CASE j = n + 1
    BY <1>3, <2>1, <2>2
  <2>3. CASE j \in 1..n
    BY <1>2, <1>5, <2>1, <2>3
  <2> QED
    BY <1>1, <2>2, <2>3
<1>6. ASSUME NEW k \in 0..(p + 1), \A i \in 1..(n + 1) : b[i] # k PROVE (p + 1) - k >= cap
  <2>1. n + 1 \in 1..(n + 1) /\ \A i \in 1..n : i \in 1..(n + 1)
    OBVIOUS
  <2>2. k # p + 1
    BY <1>6, <2>1
  <2>3. \A i \in 1..n : a[i] # k
    BY <1>6, <2>1
  <2>4. k \in 0..p
    BY <2>2
  <2> QED
    BY <1>2, <2>3, <2>4
<1> QED
  BY <1>4, <1>5, <1>6 DEF Orderly

\* The number at place m goes when cap places lie behind m - 1.
LEMMA OldestDropped ==
  ASSUME NEW m \in Nat, NEW p \in Nat, NEW cap \in Nat \ {0}, NEW a, NEW b,
         Orderly(a, m + cap, p, cap), \A i \in 1..m : b[i] = a[i],
         \A i \in (m + 1)..(m + cap - 1) : b[i] = a[i + 1], b[m + cap] = p + 1
  PROVE  Orderly(b, m + cap, p + 1, cap)
<1> DEFINE n == m + cap
           at == [i \in 1..n |-> IF i <= m THEN i ELSE i + 1]
<1>1. /\ n \in Nat /\ n = m + cap /\ n - 1 \in Nat /\ m + 1 \in 1..n /\ n \in 1..n
      /\ \A i \in 1..n : i \in 1..(n - 1) \/ i = n
  OBVIOUS
<1>2. /\ \A i, j \in 1..n : i < j => a[i] < a[j]
      /\ \A i \in 1..n : a[i] \in Nat /\ a[i] <= p
      /\ \A k \in 0..p : (\A i \in 1..n : a[i] # k) => p - k >= cap
  BY DEF Orderly
<1>3. \A i \in 1..(n - 1) : b[i] = a[at[i]] /\ at[i] \in 1..n
  <2> TAKE i \in 1..(n - 1)
  <2>1. i \in 1..n
    BY <1>1
  <2>2. CASE i <= m
    BY <1>1, <2>1, <2>2
  <2>3. CASE i > m
    <3>1. i \in (m + 1)..(m + cap - 1)
      BY <1>1, <2>3
    <3> QED
      BY <1>1, <2>1, <2>3, <3>1
  <2> QED
    BY <1>1, <2>2, <2>3
<1>4. \A i, j \in 1..(n - 1) : i < j => at[i] < at[j]
  BY <1>1
<1>5. \A i \in 1..n : i # m + 1 => \E j \in 1..(n - 1) : at[j] = i
  <2> SUFFICES ASSUME NEW i \in 1..n, i # m + 1 PROVE \E j \in 1..(n - 1) : at[j] = i
    OBVIOUS
  <2>1. CASE i <= m
    <3>1. i \in 1..(n - 1) /\ i \in 1..n
      BY <1>1, <2>1
    <3> QED
      BY <2>1, <3>1
  <2>2. CASE i > m + 1
    <3>1. i - 1 \in 1..(n - 1) /\ i - 1 \in 1..n /\ (i - 1) + 1 = i /\ ~(i - 1 <= m)
      BY <1>1, <2>2
    <3> QED
      BY <3>1
  <2>3. i <= m \/ i > m + 1
    BY <1>1
  <2> HIDE DEF at
  <2> QED
    BY <2>1, <2>2, <2>3
<1>6. b[n] = p + 1
  BY <1>1
<1>12. p + 1 - a[m + 1] >= cap
  <2> DEFINE q == [i \in 1..cap |-> a[m + i]]
  <2>1. \A i \in 1..cap : m + i \in 1..n
    BY <1>1
  <2>2. \A i \in 1..cap : q[i] \in Nat
    BY <1>2, <2>1
  <2>3. \A i, j \in 1..cap : i < j => m + i < m + j
    OBVIOUS
  <2>4. \A i, j \in 1..cap : i < j => q[i] < q[j]
    BY <1>2, <2>1, <2>3
  <2>5. cap \in Nat /\ cap \in 1..cap /\ 1 \in 1..cap
    OBVIOUS
  <2>6. q[1] = a[m + 1] /\ q[cap] = a[n]
    BY <2>5
  <2> HIDE DEF q
  <2>7. q[1] + cap - 1 <= q[cap]
    BY <2>2, <2>4, <2>5, Rises
  <2>8. a[m + 1] \in Nat /\ a[n] \in Nat /\ a[n] <= p
    BY <1>1, <1>2
  <2> HIDE DEF n
  <2> QED
    BY <2>6, <2>7, <2>8
<1> HIDE DEF n, at
<1>7. \A i \in 1..(n - 1) : b[i] \in Nat /\ b[i] < p + 1
  BY <1>2, <1>3
<1>8. \A i \in 1..n : b[i] \in Nat /\ b[i] <= p + 1
  BY <1>1, <1>6, <1>7
<1>9. ASSUME NEW i \in 1..n, NEW j \in 1..n, i < j PROVE b[i] < b[j]
  <2>1. i \in 1..(n - 1)
    BY <1>1, <1>9
  <2>2. CASE j = n
    BY <1>6, <1>7, <2>1, <2>2
  <2>3. CASE j \in 1..(n - 1)
    BY <1>2, <1>3, <1>4, <1>9, <2>1, <2>3
  <2> QED
    BY <1>1, <2>2, <2>3
<1>10. ASSUME NEW k \in 0..(p + 1), \A i \in 1..n : b[i] # k PROVE (p + 1) - k >= cap
  <2>1. k # p + 1
    BY <1>1, <1>6, <1>10
  <2>2. k \in 0..p
    BY <2>1
  <2>3. CASE \A i \in 1..n : a[i] # k
    BY <1>2, <2>2, <2>3
  <2>4. CASE a[m + 1] = k
    BY <1>12, <2>4
  <2>5. ASSUME NEW i \in 1..n, i # m + 1 PROVE a[i] # k
    <3>1. PICK j \in 1..(n - 1) : at[j] = i
      BY <1>5, <2>5
    <3>2. j \in 1..n
      BY <1>1
    <3> QED
      BY <1>3, <1>10, <3>1, <3>2
  <2> QED
    BY <2>3, <2>4, <2>5
<1> QED
  BY <1>8, <1>9, <1>10 DEF Orderly, n

\* A queue that takes the next number, when it was full for the oldest in it.
LEMMA PushKeeps ==
  ASSUME NEW t \in Seq(Nat), NEW q \in Seq(Nat), NEW p \in Nat, NEW cap \in Nat \ {0},
         Len(q) <= cap, Orderly(t \o q, Len(t) + Len(q), p, cap)
  PROVE  LET r == Append(IF Len(q) >= cap THEN Tail(q) ELSE q, p + 1) IN
         /\ r \in Seq(Nat) /\ Len(r) <= cap
         /\ Orderly(t \o r, Len(t) + Len(r), p + 1, cap)
<1>1. PICK m \in Nat, n \in Nat : m = Len(t) /\ n = Len(q)
  OBVIOUS
<1> DEFINE a == t \o q
<1>2. /\ \A i \in 1..m : a[i] = t[i]
      /\ \A i \in 1..n : a[m + i] = q[i]
      /\ n <= cap /\ Orderly(a, m + n, p, cap)
  BY <1>1
<1> HIDE DEF a
<1>3. CASE n < cap
  <2> DEFINE r == Append(q, p + 1)
             b == t \o r
  <2>1. r \in Seq(Nat) /\ Len(r) = n + 1 /\ r[n + 1] = p + 1 /\ \A i \in 1..n : r[i] = q[i]
    BY <1>1
  <2> HIDE DEF r
  <2>2. /\ \A i \in 1..m : b[i] = t[i]
        /\ \A i \in 1..(n + 1) : b[m + i] = r[i]
    BY <1>1, <2>1
  <2> HIDE DEF b
  <2>3. \A i \in 1..n : i \in 1..(n + 1)
    OBVIOUS
  <2>4. \A i \in 1..n : b[m + i] = a[m + i]
    BY <1>2, <2>1, <2>2, <2>3
  <2>5. ASSUME NEW i \in 1..(m + n) PROVE b[i] = a[i]
    <3>1. CASE i <= m
      BY <1>2, <2>2, <3>1
    <3>2. CASE i > m
      <4>1. i - m \in 1..n /\ m + (i - m) = i
        BY <3>2
      <4> QED
        BY <2>4, <4>1
    <3> QED
      BY <3>1, <3>2
  <2>6. b[(m + n) + 1] = p + 1 /\ m + n \in Nat
    <3>1. n + 1 \in 1..(n + 1) /\ m + (n + 1) = (m + n) + 1
      OBVIOUS
    <3> QED
      BY <2>1, <2>2, <3>1
  <2>7. Orderly(b, (m + n) + 1, p + 1, cap)
    BY <1>2, <2>5, <2>6, NextAppended
  <2>8. (m + n) + 1 = Len(t) + Len(r) /\ Len(r) <= cap /\ ~(Len(q) >= cap)
    BY <1>1, <1>3, <2>1
  <2> QED
    BY <2>1, <2>7, <2>8 DEF b, r
<1>4. CASE n >= cap
  <2> DEFINE r == Append(Tail(q), p + 1)
             b == t \o r
  <2>0. n = cap /\ n >= 1 /\ Len(q) >= cap
    BY <1>1, <1>2, <1>4
  <2>1. r \in Seq(Nat) /\ Len(r) = n /\ r[n] = p + 1 /\ \A i \in 1..(n - 1) : r[i] = q[i + 1]
    <3>1. q # <<>>
      BY <1>1, <2>0
    <3>2. /\ Tail(q) \in Seq(Nat) /\ Len(Tail(q)) = n - 1
          /\ \A i \in 1..(n - 1) : Tail(q)[i] = q[i + 1]
      <4>1. /\ Tail(q) \in Seq(Nat) /\ Len(Tail(q)) = Len(q) - 1
            /\ \A i \in 1..(Len(q) - 1) : Tail(q)[i] = q[i + 1]
        BY <3>1
      <4> QED
        BY <1>1, <4>1
    <3> DEFINE u == Tail(q)
    <3>3. u \in Seq(Nat) /\ Len(u) = n - 1 /\ \A i \in 1..(n - 1) : u[i] = q[i + 1]
      BY <3>2
    <3> HIDE DEF u
    <3>4. /\ Append(u, p + 1) \in Seq(Nat) /\ Len(Append(u, p + 1)) = n
          /\ Append(u, p + 1)[n] = p + 1
      BY <2>0, <3>3
    <3>5. \A i \in 1..(n - 1) : Append(u, p + 1)[i] = u[i]
      BY <3>3
    <3> QED
      BY <3>3, <3>4, <3>5 DEF u
  <2> HIDE DEF r
  <2>2. /\ \A i \in 1..m : b[i] = t[i]
        /\ \A i \in 1..n : b[m + i] = r[i]
    BY <1>1, <2>1
  <2> HIDE DEF b
  <2>3. \A i \in 1..(n - 1) : i \in 1..n /\ i + 1 \in 1..n
    OBVIOUS
  <2>4. \A i \in 1..(n - 1) : b[m + i] = a[m + (i + 1)]
    BY <1>2, <2>1, <2>2, <2>3
  <2>5. ASSUME NEW i \in (m + 1)..(m + n - 1) PROVE b[i] = a[i + 1]
    <3>1. i - m \in 1..(n - 1) /\ m + (i - m) = i /\ m + ((i - m) + 1) = i + 1
      OBVIOUS
    <3> QED
      BY <2>4, <3>1
  <2>6. b[m + n] = p + 1
    <3>1. n \in 1..n
      BY <2>0
    <3> QED
      BY <2>1, <2>2, <3>1
  <2>9. \A i \in 1..m : b[i] = a[i]
    BY <1>2, <2>2
  <2>7. Orderly(b, m + n, p + 1, cap)
    <3>1. n = cap
      BY <2>0
    <3> QED
      BY <1>2, <2>5, <2>6, <2>9, <3>1, OldestDropped
  <2>8. m + n = Len(t) + Len(r) /\ Len(r) <= cap
    BY <1>1, <1>2, <2>1
  <2> QED
    BY <2>0, <2>1, <2>7, <2>8 DEF b, r
<1> QED
  BY <1>1, <1>3, <1>4

\* The types; a reader that has a position to push has read one.
SocketTypes ==
  /\ tls \in BOOLEAN /\ sent \in 0..MaxFrames /\ ended \in {"no", "close", "error"}
  /\ socket \in {"free", "reader"}
  /\ reader \in {"check", "lock", "read", "push", "sleep", "done"}
  /\ read \in 0..sent /\ (reader = "push" => read > 0)
  /\ inbound \in Seq(WS!Position) /\ Len(inbound) <= WS_QUEUE_CAP
  /\ closed \in BOOLEAN /\ page \in {"run", "send", "close", "leave", "gone"}
  /\ batch \in Seq(WS!Position) /\ seen \in Seq(WS!Position)
  /\ readyState \in {1, 3}

\* The last number that went through the queue, the reader having read one more or not.
Pushed(r, n) == IF r = "push" THEN n - 1 ELSE n

\* What the page was told, is being told and is to be told.
Told == seen \o batch \o inbound

SocketOrder ==
  Orderly(Told, Len(seen) + Len(batch) + Len(inbound), Pushed(reader, read), WS_QUEUE_CAP)

\* An object that says CLOSED was told of the end, which is the last there is.
SocketEnds ==
  readyState = 3 => ended # "no" /\ Len(seen) > 0 /\ seen[Len(seen)] = sent

SocketInv == SocketTypes /\ SocketOrder /\ SocketEnds

\* Queues of positions are queues of naturals.
LEMMA SocketQueues ==
  ASSUME SocketInv
  PROVE  /\ WS_QUEUE_CAP \in Nat \ {0} /\ MaxFrames \in Nat /\ WS!Position = 0..MaxFrames
         /\ WS!Position \subseteq Nat
         /\ sent \in Nat /\ read \in Nat /\ read <= sent /\ sent <= MaxFrames
         /\ Pushed(reader, read) \in Nat /\ Pushed(reader, read) <= read
         /\ seen \in Seq(Nat) /\ batch \in Seq(Nat) /\ inbound \in Seq(Nat)
         /\ seen \o batch \in Seq(Nat) /\ Len(seen \o batch) = Len(seen) + Len(batch)
         /\ Len(seen) \in Nat /\ Len(batch) \in Nat /\ Len(inbound) \in Nat
<1>1. WS_QUEUE_CAP \in Nat \ {0} /\ MaxFrames \in Nat
  BY BoundsAssumption DEF WS!Bounds
<1>2. WS!Position = 0..MaxFrames /\ WS!Position \subseteq Nat
  BY <1>1 DEF WS!Position, WS!Open
<1>3. /\ seen \in Seq(WS!Position) /\ batch \in Seq(WS!Position) /\ inbound \in Seq(WS!Position)
  BY DEF SocketInv, SocketTypes
<1>4. seen \in Seq(Nat) /\ batch \in Seq(Nat) /\ inbound \in Seq(Nat)
  <2>1. WS!Position \subseteq Nat
    BY <1>2
  <2>2. Seq(WS!Position) \subseteq Seq(Nat)
    BY <2>1, SeqMonotonic
  <2> QED
    BY <1>3, <2>2
<1>5. /\ seen \o batch \in Seq(Nat) /\ Len(seen \o batch) = Len(seen) + Len(batch)
      /\ Len(seen) \in Nat /\ Len(batch) \in Nat /\ Len(inbound) \in Nat
  BY <1>4
<1>6. sent \in Nat /\ read \in Nat /\ read <= sent /\ sent <= MaxFrames
  BY <1>1 DEF SocketInv, SocketTypes
<1>7. Pushed(reader, read) \in Nat /\ Pushed(reader, read) <= read
  BY <1>6 DEF SocketInv, SocketTypes, Pushed
<1> QED
  BY <1>1, <1>2, <1>4, <1>5, <1>6, <1>7

\* What the page was told of lies in front of what it is still to hear.
LEMMA SeenBefore ==
  ASSUME SocketInv
  PROVE  /\ \A i \in 1..Len(seen) : Told[i] = seen[i]
         /\ \A i \in 1..Len(batch) : Told[Len(seen) + i] = batch[i]
         /\ \A i \in 1..Len(inbound) : Told[Len(seen) + Len(batch) + i] = inbound[i]
<1>1. seen \in Seq(Nat) /\ batch \in Seq(Nat) /\ inbound \in Seq(Nat)
  BY SocketQueues
<1> QED
  BY <1>1 DEF Told

\* After the end nothing waits.
LEMMA NothingAfterEnd ==
  ASSUME SocketInv, readyState = 3
  PROVE  batch = <<>> /\ inbound = <<>>
<1> DEFINE n == Len(seen) + Len(batch) + Len(inbound)
<1>1. /\ Len(seen) \in Nat /\ Len(batch) \in Nat /\ Len(inbound) \in Nat /\ n \in Nat
      /\ sent \in Nat /\ batch \in Seq(Nat) /\ inbound \in Seq(Nat)
      /\ Pushed(reader, read) \in Nat /\ Pushed(reader, read) <= sent
  BY SocketQueues
<1>2. Len(seen) > 0 /\ seen[Len(seen)] = sent
  BY DEF SocketInv, SocketEnds
<1>3. Told[Len(seen)] = sent
  <2>1. Len(seen) \in 1..Len(seen)
    BY <1>1, <1>2
  <2>2. Told[Len(seen)] = seen[Len(seen)]
    BY <2>1, SeenBefore
  <2> QED
    BY <1>2, <2>2
<1>4. /\ \A i, j \in 1..n : i < j => Told[i] < Told[j]
      /\ \A i \in 1..n : Told[i] \in Nat /\ Told[i] <= Pushed(reader, read)
  BY DEF SocketInv, SocketOrder, Orderly
<1>5. Len(seen) \in 1..n /\ n \in 1..n
  BY <1>1, <1>2
<1>6. ~(Len(seen) < n)
  BY <1>1, <1>3, <1>4, <1>5
<1>7. Len(batch) = 0 /\ Len(inbound) = 0
  BY <1>1, <1>6
<1> QED
  BY <1>1, <1>7

\* One step per action: only a push moves the account on, only the end is told last.
LEMMA SocketStep ==
  ASSUME SocketInv, WS!Next
  PROVE  SocketInv'
<1>0. /\ SocketTypes /\ SocketOrder /\ SocketEnds /\ MaxFrames \in Nat
      /\ sent \in Nat /\ read \in Nat
  BY SocketQueues DEF SocketInv
<1>1. ASSUME UNCHANGED <<seen, batch, inbound, sent, ended, readyState>>,
             Pushed(reader', read') = Pushed(reader, read), SocketTypes'
      PROVE  SocketInv'
  BY <1>0, <1>1 DEF SocketInv, SocketOrder, SocketEnds, Told
<1>2. CASE WS!ReaderCheck \/ WS!ReaderLock \/ WS!ReaderWake
  <2>1. SocketTypes'
    BY <1>0, <1>2 DEF SocketTypes, WS!ReaderCheck, WS!ReaderLock, WS!ReaderWake, WS!world
  <2> QED
    BY <1>1, <1>2, <2>1 DEF Pushed, WS!ReaderCheck, WS!ReaderLock, WS!ReaderWake, WS!world
<1>3. CASE WS!ReaderTimeout \/ WS!ReaderPing
  <2>1. SocketTypes'
    BY <1>0, <1>3 DEF SocketTypes, WS!ReaderTimeout, WS!ReaderPing, WS!world
  <2> QED
    BY <1>1, <1>3, <2>1 DEF Pushed, WS!ReaderTimeout, WS!ReaderPing, WS!world
<1>4. CASE WS!ReaderRead
  <2>1. /\ reader = "read" /\ read < sent /\ read' = read + 1 /\ socket' = "free"
        /\ reader' = "push"
        /\ UNCHANGED <<tls, sent, ended, inbound, closed, page, batch, readyState, seen>>
    BY <1>4 DEF WS!ReaderRead, WS!world
  <2>2. SocketTypes'
    BY <1>0, <2>1 DEF SocketTypes
  <2>3. Pushed(reader', read') = Pushed(reader, read)
    BY <1>0, <2>1 DEF Pushed
  <2> QED
    BY <1>1, <2>1, <2>2, <2>3
<1>5. CASE WS!CallSend \/ WS!CallClose \/ WS!Leave \/ WS!CallReturns
  <2>1. SocketTypes'
    BY <1>0, <1>5 DEF SocketTypes, WS!CallSend, WS!CallClose, WS!Leave, WS!CallReturns, WS!world
  <2> QED
    BY <1>1, <1>5, <2>1 DEF Pushed, WS!CallSend, WS!CallClose, WS!Leave, WS!CallReturns, WS!world
<1>6. CASE WS!ReaderPush
  <2> DEFINE t == seen \o batch
             n == Len(seen) + Len(batch)
  <2>1. /\ reader = "push" /\ inbound' = WS!push_bounded(inbound, read)
        /\ reader' \in {"done", "check"}
        /\ UNCHANGED <<tls, sent, ended, socket, read, closed, page, batch, readyState, seen>>
    BY <1>6 DEF WS!ReaderPush, WS!world
  <2>2. PICK p \in Nat : p = Pushed(reader, read) /\ read = p + 1
    BY <1>0, <2>1, SocketQueues DEF Pushed
  <2>3. /\ t \in Seq(Nat) /\ inbound \in Seq(Nat) /\ WS_QUEUE_CAP \in Nat \ {0}
        /\ Len(t) = n /\ n \in Nat /\ Len(inbound) <= WS_QUEUE_CAP
    BY <1>0, SocketQueues DEF SocketTypes
  <2>4. Orderly(t \o inbound, n + Len(inbound), p, WS_QUEUE_CAP)
    BY <1>0, <2>2 DEF SocketOrder, Told
  <2>5. inbound' = Append(IF Len(inbound) >= WS_QUEUE_CAP THEN Tail(inbound) ELSE inbound, p + 1)
    BY <2>1, <2>2 DEF WS!push_bounded
  <2> HIDE DEF t, n
  <2>6. /\ Len(inbound') <= WS_QUEUE_CAP
        /\ Orderly(t \o inbound', n + Len(inbound'), p + 1, WS_QUEUE_CAP)
    BY <2>3, <2>4, <2>5, PushKeeps
  <2>7. SocketOrder'
    <3>1. Pushed(reader', read') = p + 1
      BY <2>1, <2>2 DEF Pushed
    <3>2. t = seen' \o batch' /\ n = Len(seen') + Len(batch')
      BY <2>1 DEF t, n
    <3> QED
      BY <2>6, <3>1, <3>2 DEF SocketOrder, Told
  <2>8. inbound' \in Seq(WS!Position)
    <3>1. /\ inbound \in Seq(WS!Position) /\ p + 1 \in WS!Position
          /\ (Len(inbound) >= WS_QUEUE_CAP => inbound # <<>>)
      BY <1>0, <2>2, <2>3, SocketQueues DEF SocketTypes
    <3> QED
      BY <2>5, <3>1
  <2>9. SocketTypes'
    BY <1>0, <2>1, <2>6, <2>8 DEF SocketTypes
  <2>10. SocketEnds'
    BY <1>0, <2>1 DEF SocketEnds
  <2> QED
    BY <2>7, <2>9, <2>10 DEF SocketInv
<1>7. CASE WS!Drain
  <2>1. /\ batch = <<>> /\ batch' = inbound /\ inbound' = <<>>
        /\ UNCHANGED <<tls, sent, ended, socket, reader, read, closed, page, readyState, seen>>
    BY <1>7 DEF WS!Drain, WS!world
  <2>2. SocketTypes'
    <3>1. WS_QUEUE_CAP \in Nat
      BY SocketQueues
    <3> QED
      BY <1>0, <2>1, <3>1 DEF SocketTypes
  <2>3. Told' = Told
    BY <2>1, Emptied, SocketQueues DEF Told
  <2>4. Len(seen') + Len(batch') + Len(inbound') = Len(seen) + Len(batch) + Len(inbound)
    BY <2>1, SocketQueues
  <2> QED
    BY <1>0, <2>1, <2>2, <2>3, <2>4 DEF SocketInv, SocketOrder, SocketEnds
<1>8. CASE WS!Dispatch
  <2>1. /\ batch # <<>> /\ batch' = Tail(batch) /\ seen' = Append(seen, Head(batch))
        /\ readyState' = IF WS!IsEnd(Head(batch)) /\ ended = "close" THEN 3 ELSE readyState
        /\ UNCHANGED <<tls, sent, ended, socket, reader, read, inbound, closed, page>>
    BY <1>8 DEF WS!Dispatch, WS!world
  <2>2. /\ seen' \in Seq(WS!Position) /\ batch' \in Seq(WS!Position)
        /\ Told' = Told
    <3>1. /\ seen \in Seq(WS!Position) /\ batch \in Seq(WS!Position)
          /\ inbound \in Seq(WS!Position)
      BY <1>0 DEF SocketTypes
    <3> QED
      BY <2>1, <3>1, Moved DEF Told
  <2>3. /\ Len(seen') = Len(seen) + 1 /\ Len(batch') = Len(batch) - 1
        /\ seen'[Len(seen) + 1] = Head(batch)
    BY <2>1, SocketQueues
  <2>4. Len(seen') + Len(batch') + Len(inbound') = Len(seen) + Len(batch) + Len(inbound)
    BY <2>1, <2>3, SocketQueues
  <2>5. readyState # 3
    BY <2>1, NothingAfterEnd
  <2>6. SocketTypes'
    BY <1>0, <2>1, <2>2 DEF SocketTypes
  <2>7. SocketEnds'
    <3> SUFFICES ASSUME readyState' = 3
                 PROVE  ended' # "no" /\ Len(seen') > 0 /\ seen'[Len(seen')] = sent'
      BY DEF SocketEnds
    <3>1. WS!IsEnd(Head(batch))
      BY <2>1, <2>5
    <3> QED
      BY <2>1, <2>3, <3>1, SocketQueues DEF WS!IsEnd
  <2> QED
    BY <1>0, <2>1, <2>2, <2>4, <2>6, <2>7 DEF SocketInv, SocketOrder
<1>9. CASE WS!ServerSends
  <2>1. /\ ended = "no" /\ sent < MaxFrames /\ sent' = sent + 1
        /\ ended' \in {"no", "close", "error"}
        /\ UNCHANGED <<tls, socket, reader, read, inbound, closed, page, batch, readyState, seen>>
    BY <1>9 DEF WS!ServerSends
  <2>2. SocketTypes'
    BY <1>0, <2>1 DEF SocketTypes
  <2>3. readyState # 3
    BY <1>0, <2>1 DEF SocketEnds
  <2> QED
    BY <1>0, <2>1, <2>2, <2>3 DEF SocketInv, SocketOrder, SocketEnds, Told
<1> QED
  BY <1>2, <1>3, <1>4, <1>5, <1>6, <1>7, <1>8, <1>9 DEF WS!Next, WS!Reader

\* A new connection has one item queued, that it is open.
LEMMA SocketStart == WS!Init => SocketInv
<1> SUFFICES ASSUME WS!Init PROVE SocketInv
  OBVIOUS
<1>1. WS_QUEUE_CAP \in Nat \ {0} /\ MaxFrames \in Nat
  BY BoundsAssumption DEF WS!Bounds
<1>2. /\ tls \in BOOLEAN /\ sent = 0 /\ ended = "no" /\ socket = "free" /\ reader = "check"
      /\ read = 0 /\ closed = FALSE /\ page = "run" /\ batch = <<>> /\ readyState = 1
      /\ seen = <<>> /\ inbound = WS!push_bounded(<<>>, 0)
  BY DEF WS!Init, WS!Open
<1>3. inbound = <<0>>
  <2>1. Len(<<>>) = 0 /\ Append(<<>>, 0) = <<0>>
    OBVIOUS
  <2> QED
    BY <1>1, <1>2, <2>1 DEF WS!push_bounded
<1>4. 0 \in WS!Position
  BY <1>1 DEF WS!Position, WS!Open
<1>5. SocketTypes
  <2>1. /\ inbound \in Seq(WS!Position) /\ Len(inbound) <= WS_QUEUE_CAP
        /\ batch \in Seq(WS!Position) /\ seen \in Seq(WS!Position)
    BY <1>1, <1>2, <1>3, <1>4, EmptySeq
  <2>2. /\ tls \in BOOLEAN /\ sent = 0 /\ ended = "no" /\ socket = "free" /\ reader = "check"
        /\ read = 0 /\ closed \in BOOLEAN /\ page = "run" /\ readyState = 1
    BY <1>2
  <2> QED
    BY <1>1, <2>1, <2>2 DEF SocketTypes
<1>6. /\ Told = <<0>> /\ Len(seen) + Len(batch) + Len(inbound) = 1
      /\ Pushed(reader, read) = 0
  BY <1>2, <1>3 DEF Told, Pushed
<1>7. Orderly(<<0>>, 1, 0, WS_QUEUE_CAP)
  <2>1. <<0>>[1] = 0 /\ \A i \in 1..1 : i = 1
    OBVIOUS
  <2>2. 1 \in 1..1 /\ \A k \in 0..0 : k = 0
    OBVIOUS
  <2> QED
    BY <1>1, <2>1, <2>2 DEF Orderly
<1>8. SocketOrder
  BY <1>6, <1>7 DEF SocketOrder
<1>9. SocketEnds
  <2>1. readyState = 1
    BY <1>2
  <2> QED
    BY <2>1 DEF SocketEnds
<1> QED
  BY <1>5, <1>8, <1>9 DEF SocketInv

----------------------------------------------------------------------------
(* EventSources. *)

\* What an EventSource's queue holds.
Item == ES!Notice \cup ES!Message

\* The messages among the items s are in the order of their events.
Rising(s) == \A i, j \in ES!Messages(s) : i < j => s[i].event < s[j].event

\* An item that is added last, newer than every message when it is one.
LEMMA ItemAdded ==
  ASSUME NEW s \in Seq(Item), NEW e \in Item, Rising(s),
         e.kind = "message" => \A k \in ES!EventsOf(s) : k < e.event
  PROVE  /\ Rising(Append(s, e))
         /\ ES!EventsOf(Append(s, e)) =
              ES!EventsOf(s) \cup (IF e.kind = "message" THEN {e.event} ELSE {})
<1> DEFINE n == Len(s)
           r == Append(s, e)
<1>1. /\ n \in Nat /\ DOMAIN s = 1..n /\ DOMAIN r = 1..(n + 1)
      /\ \A i \in 1..n : r[i] = s[i]
      /\ r[n + 1] = e
  OBVIOUS
<1> HIDE DEF n, r
<1>2. \A i \in 1..(n + 1) : i \in 1..n \/ i = n + 1
  BY <1>1
<1>3. \A i \in 1..n : i \in 1..(n + 1) /\ i < n + 1 /\ ~(n + 1 < i)
  BY <1>1
<1>4. \A i : i \in ES!Messages(s) <=> i \in 1..n /\ s[i].kind = "message"
  BY <1>1 DEF ES!Messages
<1>5. \A i : i \in ES!Messages(r) <=> i \in ES!Messages(s) \/ (i = n + 1 /\ e.kind = "message")
  BY <1>1, <1>2, <1>3, <1>4 DEF ES!Messages
<1>6. \A i \in ES!Messages(s) : i \in 1..n /\ r[i] = s[i] /\ s[i].event \in ES!EventsOf(s)
  BY <1>1, <1>4 DEF ES!EventsOf
<1>7. ASSUME NEW i \in ES!Messages(r), NEW j \in ES!Messages(r), i < j
      PROVE  r[i].event < r[j].event
  <2>1. i \in ES!Messages(s)
    BY <1>3, <1>4, <1>5, <1>7, <1>1
  <2>2. CASE j \in ES!Messages(s)
    BY <1>6, <1>7, <2>1, <2>2 DEF Rising
  <2>3. CASE j = n + 1 /\ e.kind = "message"
    BY <1>1, <1>6, <2>1, <2>3
  <2> QED
    BY <1>5, <2>2, <2>3
<1>8. \A k : k \in ES!EventsOf(r) <=>
               k \in ES!EventsOf(s) \/ (e.kind = "message" /\ k = e.event)
  BY <1>1, <1>5, <1>6 DEF ES!EventsOf
<1>9. Rising(r)
  BY <1>7 DEF Rising
<1> QED
  BY <1>8, <1>9 DEF r

\* The first of the items behind t leaves.
LEMMA ItemLeaves ==
  ASSUME NEW t \in Seq(Item), NEW q \in Seq(Item), q # <<>>, Rising(t \o q)
  PROVE  /\ Rising(t \o Tail(q))
         /\ ES!EventsOf(t \o q) =
              ES!EventsOf(t \o Tail(q))
                \cup (IF Head(q).kind = "message" THEN {Head(q).event} ELSE {})
<1>1. PICK m \in Nat, n \in Nat : m = Len(t) /\ n + 1 = Len(q)
  <2>1. Len(t) \in Nat /\ Len(q) \in Nat /\ Len(q) # 0
    OBVIOUS
  <2>2. Len(q) - 1 \in Nat /\ (Len(q) - 1) + 1 = Len(q)
    BY <2>1
  <2> QED
    BY <2>1, <2>2
<1> DEFINE a == t \o q
           b == t \o Tail(q)
<1>0. \A i, j \in ES!Messages(a) : i < j => a[i].event < a[j].event
  BY DEF Rising
<1>2. /\ DOMAIN a = 1..(m + n + 1)
      /\ \A i \in 1..m : a[i] = t[i]
      /\ \A i \in (m + 1)..(m + n + 1) : a[i] = q[i - m]
  BY <1>1
<1>3. /\ Tail(q) \in Seq(Item) /\ Len(Tail(q)) = n
      /\ \A i \in 1..n : Tail(q)[i] = q[i + 1]
  BY <1>1
<1>4. /\ DOMAIN b = 1..(m + n)
      /\ \A i \in 1..m : b[i] = t[i]
      /\ \A i \in (m + 1)..(m + n) : b[i] = Tail(q)[i - m]
  BY <1>1, <1>3
<1>5. \A i \in (m + 1)..(m + n) : b[i] = a[i + 1]
  <2> TAKE i \in (m + 1)..(m + n)
  <2>1. i - m \in 1..n /\ i + 1 \in (m + 1)..(m + n + 1) /\ (i + 1) - m = (i - m) + 1
    BY <1>1
  <2> QED
    BY <1>2, <1>3, <1>4, <2>1
<1>6. a[m + 1] = Head(q)
  <2>1. m + 1 \in (m + 1)..(m + n + 1) /\ (m + 1) - m = 1
    BY <1>1
  <2>2. a[m + 1] = q[1]
    BY <1>2, <2>1
  <2> QED
    BY <2>2
<1>7. \A i \in 1..m : b[i] = a[i]
  BY <1>2, <1>4
<1> HIDE DEF a, b
<1> DEFINE at == [i \in 1..(m + n) |-> IF i <= m THEN i ELSE i + 1]
<1>8. \A i \in 1..(m + n) : at[i] \in 1..(m + n + 1) /\ at[i] # m + 1 /\ b[i] = a[at[i]]
  <2> TAKE i \in 1..(m + n)
  <2>1. CASE i <= m
    <3>1. i \in 1..m /\ i \in 1..(m + n + 1) /\ i # m + 1 /\ at[i] = i
      BY <2>1
    <3> QED
      BY <1>7, <3>1
  <2>2. CASE i > m
    <3>1. i \in (m + 1)..(m + n) /\ i + 1 \in 1..(m + n + 1) /\ i + 1 # m + 1 /\ at[i] = i + 1
      BY <2>2
    <3> QED
      BY <1>5, <3>1
  <2> QED
    BY <2>1, <2>2
<1>9. \A i, j \in 1..(m + n) : i < j => at[i] < at[j]
  BY <1>1
<1>10. \A i \in 1..(m + n + 1) : i # m + 1 => \E j \in 1..(m + n) : at[j] = i
  <2> SUFFICES ASSUME NEW i \in 1..(m + n + 1), i # m + 1 PROVE \E j \in 1..(m + n) : at[j] = i
    OBVIOUS
  <2>1. CASE i <= m
    <3>1. i \in 1..(m + n) /\ at[i] = i
      BY <2>1
    <3> QED
      BY <3>1
  <2>2. CASE i > m + 1
    <3>1. i - 1 \in 1..(m + n) /\ (i - 1) + 1 = i /\ ~(i - 1 <= m)
      BY <2>2
    <3>2. at[i - 1] = i
      BY <3>1
    <3> QED
      BY <3>1, <3>2
  <2>3. i <= m \/ i > m + 1
    BY <1>1
  <2> HIDE DEF at
  <2> QED
    BY <2>1, <2>2, <2>3
<1>11. m + 1 \in 1..(m + n + 1)
  BY <1>1
<1> HIDE DEF at
<1>12. \A i \in ES!Messages(b) : i \in 1..(m + n) /\ at[i] \in ES!Messages(a) /\ b[i] = a[at[i]]
  BY <1>2, <1>4, <1>8 DEF ES!Messages
<1>13. Rising(b)
  <2>1. ASSUME NEW i \in ES!Messages(b), NEW j \in ES!Messages(b), i < j
        PROVE  b[i].event < b[j].event
    <3>1. i \in 1..(m + n) /\ j \in 1..(m + n)
      BY <1>12
    <3>2. at[i] < at[j]
      BY <1>9, <2>1, <3>1
    <3>3. /\ at[i] \in ES!Messages(a) /\ at[j] \in ES!Messages(a)
          /\ b[i] = a[at[i]] /\ b[j] = a[at[j]]
      BY <1>12
    <3> QED
      BY <1>0, <3>2, <3>3
  <2> QED
    BY <2>1 DEF Rising
<1>14. ASSUME NEW i \in ES!Messages(a), i # m + 1
       PROVE  \E j \in ES!Messages(b) : a[i] = b[j]
  <2>1. i \in 1..(m + n + 1) /\ a[i].kind = "message"
    BY <1>2 DEF ES!Messages
  <2>2. PICK j \in 1..(m + n) : at[j] = i
    BY <1>10, <1>14, <2>1
  <2>3. b[j] = a[i]
    BY <1>8, <2>2
  <2>4. j \in ES!Messages(b)
    BY <1>4, <2>1, <2>3 DEF ES!Messages
  <2> QED
    BY <2>3, <2>4
<1>15. ES!EventsOf(b) \subseteq ES!EventsOf(a)
  BY <1>12 DEF ES!EventsOf
<1>16. Head(q).kind = "message" => Head(q).event \in ES!EventsOf(a)
  BY <1>2, <1>6, <1>11 DEF ES!EventsOf, ES!Messages
<1>17. ASSUME NEW k \in ES!EventsOf(a)
       PROVE  k \in ES!EventsOf(b) \/ (Head(q).kind = "message" /\ k = Head(q).event)
  <2>1. PICK i \in ES!Messages(a) : k = a[i].event
    BY DEF ES!EventsOf
  <2>2. CASE i = m + 1
    BY <1>6, <2>1, <2>2 DEF ES!Messages
  <2>3. CASE \E j \in ES!Messages(b) : a[i] = b[j]
    BY <2>1, <2>3 DEF ES!EventsOf
  <2> QED
    BY <1>14, <2>2, <2>3
<1>18. ES!EventsOf(a) =
         ES!EventsOf(b) \cup (IF Head(q).kind = "message" THEN {Head(q).event} ELSE {})
  BY <1>15, <1>16, <1>17
<1> QED
  BY <1>13, <1>18 DEF a, b

\* The items of the events handlers heard.
Heard(s) == [i \in DOMAIN s |-> [kind |-> "message", event |-> s[i]]]

SourceTypes ==
  /\ reader \in {"top", "connect", "check", "read", "sleep", "end", "done"}
  /\ connects \in 0..MaxConnects
  /\ next \in 1..(MaxEvents + 1) /\ line \in {"id", "data", "blank"}
  /\ last_id_in_event \in 0..MaxEvents /\ data_buf \in 0..MaxEvents
  /\ last_event_id \in 0..MaxEvents
  /\ inbound \in Seq(Item) /\ Len(inbound) <= SSE_QUEUE_CAP
  /\ dropped \subseteq ES!Event
  /\ closed \in BOOLEAN /\ page \in {"run", "gone"}
  /\ batch \in Seq(Item) /\ readyState \in 0..2
  /\ seen \in Seq(ES!Event)

\* The parser is in the event after the one to resume after, or some without data
\* later, and holds what it has read of it.
SourceParses ==
  /\ last_event_id < next
  /\ \A k \in ES!Event : last_event_id < k /\ k < next => k \in Silent
  /\ line = "id" => data_buf = 0
  /\ line = "data" => last_id_in_event = next /\ next \notin Silent /\ data_buf = 0
  /\ line = "blank" =>
       last_id_in_event = next /\ data_buf = IF next \in Silent THEN 0 ELSE next

\* What the page was or will be told, and what of it was dropped.
SourceTold(told, lost, last) ==
  /\ Rising(told)
  /\ ES!EventsOf(told) \cup lost = 1..last \ Silent

\* The last a thread that is done has queued says that it is closed.
SourceEnds ==
  reader = "done" =>
    IF inbound # <<>> THEN inbound[Len(inbound)].kind = "closed"
    ELSE IF batch # <<>> THEN batch[Len(batch)].kind = "closed"
    ELSE readyState = 2

SourceInv ==
  SourceTypes /\ SourceParses /\ SourceTold(ES!Told, dropped, last_event_id) /\ SourceEnds

\* Heard items are items.
LEMMA HeardItems ==
  ASSUME NEW s \in Seq(ES!Event)
  PROVE  /\ Heard(s) \in Seq(Item) /\ Len(Heard(s)) = Len(s)
         /\ \A e \in ES!Event :
              Heard(Append(s, e)) = Append(Heard(s), [kind |-> "message", event |-> e])
<1>1. \A e \in ES!Event : [kind |-> "message", event |-> e] \in Item
  BY DEF Item, ES!Message
<1>2. \A u \in Seq(ES!Event) :
        /\ Heard(u) \in Seq(Item) /\ Len(Heard(u)) = Len(u)
        /\ \A i \in 1..Len(u) : Heard(u)[i] = [kind |-> "message", event |-> u[i]]
  <2> TAKE u \in Seq(ES!Event)
  <2>1. Len(u) \in Nat /\ DOMAIN u = 1..Len(u) /\ \A i \in 1..Len(u) : u[i] \in ES!Event
    OBVIOUS
  <2>2. Heard(u) \in [1..Len(u) -> Item]
    BY <1>1, <2>1 DEF Heard
  <2> QED
    BY <2>1, <2>2, SeqDef DEF Heard
<1>3. ASSUME NEW e \in ES!Event
      PROVE  Heard(Append(s, e)) = Append(Heard(s), [kind |-> "message", event |-> e])
  <2> DEFINE m == [kind |-> "message", event |-> e]
             n == Len(s)
             h == Heard(s)
             r == Append(s, e)
  <2>1. /\ n \in Nat /\ r \in Seq(ES!Event) /\ Len(r) = n + 1
        /\ \A i \in 1..(n + 1) : r[i] = IF i <= n THEN s[i] ELSE e
    OBVIOUS
  <2>2. /\ h \in Seq(Item) /\ Len(h) = n /\ m \in Item
        /\ \A i \in 1..n : h[i] = [kind |-> "message", event |-> s[i]]
    BY <1>1, <1>2
  <2>3. /\ Heard(r) \in Seq(Item) /\ Len(Heard(r)) = n + 1
        /\ \A i \in 1..(n + 1) : Heard(r)[i] = [kind |-> "message", event |-> r[i]]
    BY <1>2, <2>1
  <2> HIDE DEF h, r, n
  <2>4. /\ Append(h, m) \in Seq(Item) /\ Len(Append(h, m)) = n + 1
        /\ \A i \in 1..(n + 1) : Append(h, m)[i] = IF i <= n THEN h[i] ELSE m
    BY <2>1, <2>2
  <2>5. \A i \in 1..(n + 1) : Heard(r)[i] = Append(h, m)[i]
    <3> TAKE i \in 1..(n + 1)
    <3>1. CASE i <= n
      <4>1. i \in 1..n
        BY <2>1, <3>1
      <4> QED
        BY <2>1, <2>2, <2>3, <2>4, <3>1, <4>1
    <3>2. CASE ~(i <= n)
      BY <2>1, <2>3, <2>4, <3>2
    <3> QED
      BY <3>1, <3>2
  <2>6. Heard(r) = Append(h, m)
    BY <2>3, <2>4, <2>5, SeqEqual
  <2> QED
    BY <2>6 DEF h, r
<1> QED
  BY <1>2, <1>3

\* What push does to the account: the new item comes last, and a message that had to
\* go for it is dropped.
LEMMA ItemPushed ==
  ASSUME NEW t \in Seq(Item), inbound \in Seq(Item), NEW item \in Item,
         Len(inbound) <= SSE_QUEUE_CAP, Rising(t \o inbound), dropped \subseteq ES!Event,
         item.kind = "message" => \A k \in ES!EventsOf(t \o inbound) : k < item.event,
         ES!Push(item)
  PROVE  /\ inbound' \in Seq(Item) /\ Len(inbound') <= SSE_QUEUE_CAP
         /\ inbound' # <<>> /\ inbound'[Len(inbound')] = item
         /\ dropped' \subseteq ES!Event
         /\ Rising(t \o inbound')
         /\ ES!EventsOf(t \o inbound') \cup dropped' =
              ES!EventsOf(t \o inbound) \cup dropped
                \cup (IF item.kind = "message" THEN {item.event} ELSE {})
<1> DEFINE q == IF Len(inbound) >= SSE_QUEUE_CAP THEN Tail(inbound) ELSE inbound
           lost == IF Len(inbound) >= SSE_QUEUE_CAP THEN {Head(inbound).event} \ {0} ELSE {}
<1>1. SSE_QUEUE_CAP \in Nat \ {0}
  BY BoundsAssumption DEF ES!Bounds
<1>2. /\ inbound' = Append(q, item) /\ dropped' = dropped \cup lost
      /\ q \in Seq(Item) /\ Len(q) + 1 <= SSE_QUEUE_CAP
  BY <1>1 DEF ES!Push, ES!None
<1>3. /\ Rising(t \o q) /\ lost \subseteq ES!Event
      /\ ES!EventsOf(t \o inbound) = ES!EventsOf(t \o q) \cup lost
  <2>1. CASE Len(inbound) >= SSE_QUEUE_CAP
    <3>1. inbound # <<>>
      BY <1>1, <2>1
    <3>2. Head(inbound) \in Item
      BY <3>1
    <3>3. /\ Head(inbound).kind = "message" =>
                Head(inbound).event \in ES!Event /\ Head(inbound).event # 0
          /\ Head(inbound).kind # "message" => Head(inbound).event = 0
      BY <3>2 DEF Item, ES!Message, ES!Notice, ES!Event, ES!None
    <3>4. lost = IF Head(inbound).kind = "message" THEN {Head(inbound).event} ELSE {}
      BY <2>1, <3>3
    <3>5. lost \subseteq ES!Event
      BY <3>3, <3>4
    <3>6. q = Tail(inbound)
      BY <2>1
    <3> HIDE DEF lost, q
    <3>7. /\ Rising(t \o Tail(inbound))
          /\ ES!EventsOf(t \o inbound) = ES!EventsOf(t \o Tail(inbound)) \cup lost
      BY <3>1, <3>4, ItemLeaves
    <3> QED
      BY <3>5, <3>6, <3>7
  <2>2. CASE ~(Len(inbound) >= SSE_QUEUE_CAP)
    BY <2>2
  <2> QED
    BY <2>1, <2>2
<1> HIDE DEF q, lost
<1>4. t \o q \in Seq(Item) /\ t \o Append(q, item) = Append(t \o q, item)
  BY <1>2, Queued
<1>5. item.kind = "message" => \A k \in ES!EventsOf(t \o q) : k < item.event
  BY <1>3
<1>6. /\ Rising(Append(t \o q, item))
      /\ ES!EventsOf(Append(t \o q, item)) =
           ES!EventsOf(t \o q) \cup (IF item.kind = "message" THEN {item.event} ELSE {})
  BY <1>3, <1>4, <1>5, ItemAdded
<1>7. /\ Append(q, item) \in Seq(Item) /\ Len(Append(q, item)) = Len(q) + 1
      /\ Append(q, item) # <<>> /\ Append(q, item)[Len(q) + 1] = item
  BY <1>2
<1> QED
  BY <1>2, <1>3, <1>4, <1>6, <1>7

\* What the page was told, as one sequence.
LEMMA SourceQueues ==
  ASSUME SourceTypes
  PROVE  /\ ES!Told = (Heard(seen) \o batch) \o inbound
         /\ Heard(seen) \in Seq(Item) /\ Heard(seen) \o batch \in Seq(Item)
         /\ MaxEvents \in Nat /\ SSE_QUEUE_CAP \in Nat \ {0}
         /\ \A k \in {"open", "error", "closed"} : ES!Note(k) \in Item /\ ES!Note(k).kind = k
         /\ \A k \in ES!Event : [kind |-> "message", event |-> k] \in Item
<1>1. Heard(seen) \in Seq(Item) /\ ES!Told = (Heard(seen) \o batch) \o inbound
  BY HeardItems DEF SourceTypes, ES!Told, Heard
<1>2. Heard(seen) \o batch \in Seq(Item)
  BY <1>1 DEF SourceTypes
<1>3. MaxEvents \in Nat /\ SSE_QUEUE_CAP \in Nat \ {0}
  BY BoundsAssumption DEF ES!Bounds
<1>4. \A k \in {"open", "error", "closed"} : ES!Note(k) \in Item /\ ES!Note(k).kind = k
  BY DEF Item, ES!Note, ES!Notice, ES!None
<1>5. \A k \in ES!Event : [kind |-> "message", event |-> k] \in Item
  BY DEF Item, ES!Message
<1> QED
  BY <1>1, <1>2, <1>3, <1>4, <1>5

\* A notice that is queued changes nothing of what messages were told.
LEMMA NoticePushed ==
  ASSUME SourceInv, NEW k \in {"open", "error", "closed"}, ES!Push(ES!Note(k)),
         UNCHANGED <<seen, batch, last_event_id>>
  PROVE  /\ inbound' \in Seq(Item) /\ Len(inbound') <= SSE_QUEUE_CAP
         /\ inbound' # <<>> /\ inbound'[Len(inbound')].kind = k
         /\ dropped' \subseteq ES!Event
         /\ SourceTold(ES!Told', dropped', last_event_id')
<1> DEFINE t == Heard(seen) \o batch
<1>1. /\ SourceTypes /\ ES!Told = t \o inbound /\ t \in Seq(Item)
      /\ ES!Note(k) \in Item /\ ES!Note(k).kind = k /\ k # "message"
      /\ SourceTold(t \o inbound, dropped, last_event_id)
  BY SourceQueues DEF SourceInv
<1>2. /\ inbound \in Seq(Item) /\ Len(inbound) <= SSE_QUEUE_CAP /\ dropped \subseteq ES!Event
  BY <1>1 DEF SourceTypes
<1>3. ES!Told' = t \o inbound'
  BY DEF ES!Told, Heard
<1> HIDE DEF t
<1>4. Rising(t \o inbound)
  BY <1>1 DEF SourceTold
<1>5. ES!Note(k).kind # "message"
  BY <1>1
<1>6. /\ inbound' \in Seq(Item) /\ Len(inbound') <= SSE_QUEUE_CAP
      /\ inbound' # <<>> /\ inbound'[Len(inbound')] = ES!Note(k)
      /\ dropped' \subseteq ES!Event
      /\ Rising(t \o inbound')
      /\ ES!EventsOf(t \o inbound') \cup dropped' = ES!EventsOf(t \o inbound) \cup dropped
  BY <1>1, <1>2, <1>4, <1>5, ItemPushed
<1> QED
  BY <1>1, <1>3, <1>6 DEF SourceTold

\* The thread's step from line to line.
LEMMA SourceStep ==
  ASSUME SourceInv, ES!Next
  PROVE  SourceInv'
<1>0. /\ SourceTypes /\ SourceParses /\ SourceTold(ES!Told, dropped, last_event_id) /\ SourceEnds
      /\ MaxEvents \in Nat /\ SSE_QUEUE_CAP \in Nat \ {0}
  BY SourceQueues DEF SourceInv
<1>1. ASSUME UNCHANGED <<seen, batch, inbound, dropped, last_event_id>>
      PROVE  SourceTold(ES!Told, dropped, last_event_id)'
  BY <1>0, <1>1 DEF ES!Told, SourceTold
<1>2. CASE ES!Top \/ ES!Check \/ ES!ReadComment \/ ES!Lose \/ ES!Wake
  <2>1. /\ UNCHANGED <<connects, next, line, last_id_in_event, data_buf, last_event_id, inbound,
                       dropped, closed, page, batch, readyState, seen>>
        /\ reader # "done" /\ reader' \in {"end", "connect", "read", "check", "sleep", "top"}
    BY <1>2 DEF ES!Top, ES!Check, ES!ReadComment, ES!Lose, ES!Wake, ES!parser, ES!script
  <2> QED
    BY <1>0, <1>1, <2>1 DEF SourceInv, SourceTypes, SourceParses, SourceEnds
<1>3. CASE ES!ConnectFails \/ ES!End
  <2>1. PICK k \in {"error", "closed"} :
          /\ ES!Push(ES!Note(k)) /\ (k = "error" => reader' = "sleep")
          /\ (k = "closed" => reader' = "done") /\ reader' \in {"sleep", "done"}
          /\ UNCHANGED <<connects, next, line, last_id_in_event, data_buf, last_event_id,
                         closed, page, batch, readyState, seen>>
    BY <1>3 DEF ES!ConnectFails, ES!End, ES!parser, ES!script
  <2>2. /\ inbound' \in Seq(Item) /\ Len(inbound') <= SSE_QUEUE_CAP
        /\ inbound' # <<>> /\ inbound'[Len(inbound')].kind = k
        /\ dropped' \subseteq ES!Event
        /\ SourceTold(ES!Told', dropped', last_event_id')
    BY <2>1, NoticePushed
  <2> QED
    BY <1>0, <2>1, <2>2 DEF SourceInv, SourceTypes, SourceParses, SourceEnds
<1>4. CASE ES!Connect
  <2>1. /\ ES!Push(ES!Note("open")) /\ reader' = "check" /\ connects < MaxConnects
        /\ connects' = connects + 1 /\ next' = last_event_id + 1 /\ line' = "id"
        /\ last_id_in_event' = 0 /\ data_buf' = 0
        /\ UNCHANGED <<last_event_id, closed, page, batch, readyState, seen>>
    BY <1>4 DEF ES!Connect, ES!script, ES!None
  <2>2. /\ inbound' \in Seq(Item) /\ Len(inbound') <= SSE_QUEUE_CAP
        /\ dropped' \subseteq ES!Event
        /\ SourceTold(ES!Told', dropped', last_event_id')
    BY <2>1, NoticePushed
  <2>3. MaxConnects \in Nat
    BY BoundsAssumption DEF ES!Bounds
  <2>4. SourceParses'
    BY <1>0, <2>1 DEF SourceParses, SourceTypes, ES!Event
  <2> QED
    BY <1>0, <2>1, <2>2, <2>3, <2>4 DEF SourceInv, SourceTypes, SourceEnds
<1>5. CASE ES!ReadId
  <2>1. /\ reader = "read" /\ next <= MaxEvents /\ line = "id" /\ reader' = "check"
        /\ last_id_in_event' = next /\ line' = IF next \in Silent THEN "blank" ELSE "data"
        /\ UNCHANGED <<connects, next, data_buf, last_event_id, inbound, dropped,
                       closed, page, batch, readyState, seen>>
    BY <1>5 DEF ES!ReadId, ES!Incoming, ES!script
  <2>2. SourceTypes' /\ SourceEnds'
    BY <1>0, <2>1 DEF SourceTypes, SourceEnds
  <2>3. SourceParses'
    BY <1>0, <2>1 DEF SourceParses
  <2> QED
    BY <1>1, <2>1, <2>2, <2>3 DEF SourceInv
<1>6. CASE ES!ReadData
  <2>1. /\ reader = "read" /\ next <= MaxEvents /\ line = "data" /\ reader' = "check"
        /\ data_buf' = next /\ line' = "blank"
        /\ UNCHANGED <<connects, next, last_id_in_event, last_event_id, inbound, dropped,
                       closed, page, batch, readyState, seen>>
    BY <1>6 DEF ES!ReadData, ES!Incoming, ES!script
  <2>2. SourceTypes' /\ SourceEnds'
    BY <1>0, <2>1 DEF SourceTypes, SourceEnds
  <2>3. SourceParses'
    BY <1>0, <2>1 DEF SourceParses
  <2> QED
    BY <1>1, <2>1, <2>2, <2>3 DEF SourceInv
<1>7. CASE ES!ReadBlank /\ data_buf = 0
  <2>1. /\ reader = "read" /\ next <= MaxEvents /\ line = "blank" /\ reader' = "check"
        /\ data_buf' = 0 /\ next' = next + 1 /\ line' = "id"
        /\ UNCHANGED <<connects, last_id_in_event, last_event_id, inbound, dropped,
                       closed, page, batch, readyState, seen>>
    BY <1>7 DEF ES!ReadBlank, ES!Incoming, ES!script, ES!None
  <2>2. SourceTypes' /\ SourceEnds'
    BY <1>0, <2>1 DEF SourceTypes, SourceEnds
  <2>3. next \in Silent /\ next \in Nat /\ last_event_id \in Nat
    BY <1>0, <1>7, <2>1 DEF SourceParses, SourceTypes
  <2>4. SourceParses'
    BY <1>0, <2>1, <2>3 DEF SourceParses, ES!Event
  <2> QED
    BY <1>1, <2>1, <2>2, <2>4 DEF SourceInv
<1>8. CASE ES!ReadBlank /\ data_buf # 0
  <2> DEFINE item == [kind |-> "message", event |-> next]
             t == Heard(seen) \o batch
  <2>1. /\ reader = "read" /\ next <= MaxEvents /\ line = "blank" /\ reader' = "check"
        /\ last_id_in_event = next /\ data_buf = next /\ next \notin Silent
        /\ next \in ES!Event /\ last_event_id \in Nat /\ last_event_id < next
    BY <1>0, <1>8 DEF ES!ReadBlank, ES!Incoming, SourceParses, SourceTypes, ES!Event
  <2>2. /\ ES!Push(item) /\ last_event_id' = next /\ last_id_in_event' = 0
        /\ data_buf' = 0 /\ next' = next + 1 /\ line' = "id"
        /\ UNCHANGED <<connects, closed, page, batch, readyState, seen>>
    BY <1>8, <2>1 DEF ES!ReadBlank, ES!script, ES!None
  <2>3. /\ t \in Seq(Item) /\ ES!Told = t \o inbound /\ item \in Item
        /\ Rising(t \o inbound)
        /\ ES!EventsOf(t \o inbound) \cup dropped = 1..last_event_id \ Silent
    BY <1>0, <2>1, SourceQueues DEF SourceTold
  <2>4. ES!Told' = t \o inbound'
    BY <2>2 DEF ES!Told, Heard
  <2>5. \A k \in ES!EventsOf(t \o inbound) : k < item.event
    BY <2>1, <2>3 DEF ES!Event
  <2>6. item.kind = "message" /\ item.event = next
    OBVIOUS
  <2>7. /\ inbound \in Seq(Item) /\ Len(inbound) <= SSE_QUEUE_CAP /\ dropped \subseteq ES!Event
    BY <1>0 DEF SourceTypes
  <2> HIDE DEF t, item
  <2>8. /\ inbound' \in Seq(Item) /\ Len(inbound') <= SSE_QUEUE_CAP
        /\ dropped' \subseteq ES!Event
        /\ Rising(t \o inbound')
        /\ ES!EventsOf(t \o inbound') \cup dropped' =
             ES!EventsOf(t \o inbound) \cup dropped \cup {next}
    BY <2>2, <2>3, <2>5, <2>6, <2>7, ItemPushed
  <2>9. 1..next \ Silent = (1..last_event_id \ Silent) \cup {next}
    BY <1>0, <2>1 DEF SourceParses, ES!Event
  <2>10. SourceTold(ES!Told', dropped', last_event_id')
    BY <2>2, <2>3, <2>4, <2>8, <2>9 DEF SourceTold
  <2>11. SourceTypes' /\ SourceEnds'
    BY <1>0, <2>1, <2>2, <2>8 DEF SourceTypes, SourceEnds, ES!Event
  <2>12. SourceParses'
    BY <1>0, <2>1, <2>2 DEF SourceParses, ES!Event
  <2> QED
    BY <2>10, <2>11, <2>12 DEF SourceInv
<1>9. CASE ES!Close \/ ES!Leave
  <2>1. /\ readyState' \in {readyState, 2} /\ closed' \in BOOLEAN /\ page' \in {"run", "gone"}
        /\ UNCHANGED <<reader, connects, next, line, last_id_in_event, data_buf, last_event_id,
                       inbound, dropped, batch, seen>>
    BY <1>0, <1>9 DEF ES!Close, ES!Leave, ES!parser, SourceTypes
  <2> QED
    BY <1>0, <1>1, <2>1 DEF SourceInv, SourceTypes, SourceParses, SourceEnds
<1>10. CASE ES!Drain
  <2>1. /\ batch = <<>> /\ inbound # <<>> /\ batch' = inbound /\ inbound' = <<>>
        /\ UNCHANGED <<reader, connects, next, line, last_id_in_event, data_buf, last_event_id,
                       dropped, closed, page, readyState, seen>>
    BY <1>10 DEF ES!Drain, ES!parser
  <2>2. ES!Told' = ES!Told
    <3>1. Heard(seen) \in Seq(Item) /\ inbound \in Seq(Item)
      BY <1>0, SourceQueues DEF SourceTypes
    <3>2. Heard(seen) \o inbound \o <<>> = Heard(seen) \o <<>> \o inbound
      BY <3>1, Emptied
    <3> QED
      BY <2>1, <3>2 DEF ES!Told, Heard
  <2>3. SourceTold(ES!Told', dropped', last_event_id')
    BY <1>0, <2>1, <2>2
  <2>4. SourceTypes' /\ SourceEnds'
    BY <1>0, <2>1 DEF SourceTypes, SourceEnds
  <2> QED
    BY <1>0, <2>1, <2>3, <2>4 DEF SourceInv, SourceParses
<1>11. CASE ES!Dispatch
  <2> DEFINE item == Head(batch)
             h == Heard(seen)
  <2>1. /\ batch # <<>> /\ batch' = Tail(batch)
        /\ seen' = IF item.kind = "message" THEN Append(seen, item.event) ELSE seen
        /\ readyState' = CASE item.kind = "open" -> 1
                           [] item.kind = "closed" -> 2
                           [] OTHER -> readyState
        /\ UNCHANGED <<reader, connects, next, line, last_id_in_event, data_buf, last_event_id,
                       inbound, dropped, closed, page>>
    BY <1>11 DEF ES!Dispatch, ES!parser
  <2>2. /\ batch \in Seq(Item) /\ inbound \in Seq(Item) /\ h \in Seq(Item)
        /\ item \in Item /\ Tail(batch) \in Seq(Item)
        /\ seen \in Seq(ES!Event)
    BY <1>0, <2>1, SourceQueues, HeadTailProperties DEF SourceTypes
  <2>3. ES!Told' = Heard(seen') \o Tail(batch) \o inbound
    BY <2>1 DEF ES!Told, Heard
  <2>4. ES!Told = h \o batch \o inbound
    BY <1>0, SourceQueues
  <2>5. readyState' \in 0..2 /\ (item.kind = "closed" => readyState' = 2)
    BY <1>0, <2>1 DEF SourceTypes
  <2>6. item.kind = "message" =>
          item.event \in ES!Event /\ item = [kind |-> "message", event |-> item.event]
    BY <2>2 DEF Item, ES!Message, ES!Notice
  <2>7. /\ seen' \in Seq(ES!Event) /\ SourceTold(ES!Told', dropped', last_event_id')
    <3>1. CASE item.kind = "message"
      <4>1. item.event \in ES!Event /\ seen' = Append(seen, item.event)
        BY <2>1, <2>6, <3>1
      <4>2. Heard(seen') = Append(h, item)
        BY <2>2, <2>6, <3>1, <4>1, HeardItems
      <4>3. Append(h, item) \o Tail(batch) \o inbound = h \o batch \o inbound
        BY <2>1, <2>2, Moved
      <4>4. ES!Told' = ES!Told
        BY <2>3, <2>4, <4>2, <4>3
      <4>5. seen' \in Seq(ES!Event)
        BY <2>2, <4>1
      <4> QED
        BY <1>0, <2>1, <4>4, <4>5
    <3>2. CASE item.kind # "message"
      <4> DEFINE q == batch \o inbound
      <4>1. seen' = seen /\ Heard(seen') = h
        BY <2>1, <3>2
      <4>2. q \in Seq(Item) /\ q # <<>> /\ Head(q) = item /\ Tail(q) = Tail(batch) \o inbound
        BY <2>1, <2>2
      <4>3. /\ h \o batch \o inbound = h \o q
            /\ h \o Tail(batch) \o inbound = h \o Tail(q)
        <5>1. \A b \in Seq(Item) : h \o b \o inbound = h \o (b \o inbound)
          <6>1. h \in Seq(Item) /\ inbound \in Seq(Item)
            BY <2>2
          <6> HIDE DEF h
          <6> QED
            BY <6>1, ConcatAssociative
        <5> QED
          BY <2>2, <4>2, <5>1
      <4> HIDE DEF q, item, h
      <4>4. Rising(h \o q) /\ ES!EventsOf(h \o q) \cup dropped = 1..last_event_id \ Silent
        BY <1>0, <2>4, <4>3 DEF SourceTold
      <4>5. Rising(h \o Tail(q)) /\ ES!EventsOf(h \o q) = ES!EventsOf(h \o Tail(q))
        <5>1. h \in Seq(Item) /\ q \in Seq(Item) /\ q # <<>> /\ Head(q).kind # "message"
          BY <2>2, <3>2, <4>2
        <5> QED
          <6> DEFINE lost == IF Head(q).kind = "message" THEN {Head(q).event} ELSE {}
          <6>1. lost = {}
            BY <5>1
          <6>2. Rising(h \o Tail(q)) /\ ES!EventsOf(h \o q) = ES!EventsOf(h \o Tail(q)) \cup lost
            BY <4>4, <5>1, ItemLeaves
          <6> QED
            BY <6>1, <6>2
      <4>6. ES!Told' = h \o Tail(q)
        BY <2>3, <4>1, <4>3
      <4> QED
        BY <2>1, <2>2, <4>1, <4>4, <4>5, <4>6 DEF SourceTold
    <3> QED
      BY <3>1, <3>2
  <2>8. SourceTypes'
    BY <1>0, <2>1, <2>2, <2>5, <2>7 DEF SourceTypes
  <2>9. SourceEnds'
    <3>1. CASE Tail(batch) = <<>>
      <4>1. batch[Len(batch)] = item
        <5>1. \A b \in Seq(Item) : b # <<>> /\ Tail(b) = <<>> => b[Len(b)] = Head(b)
          <6> SUFFICES ASSUME NEW b \in Seq(Item), b # <<>>, Tail(b) = <<>>
                       PROVE  b[Len(b)] = Head(b)
            OBVIOUS
          <6>1. Len(Tail(b)) = Len(b) - 1 /\ Len(b) \in Nat
            OBVIOUS
          <6>2. Len(Tail(b)) = 0
            BY EmptySeq
          <6>3. Len(b) = 1
            BY <6>1, <6>2
          <6>4. \A c \in Seq(Item) : c # <<>> => Head(c) = c[1]
            OBVIOUS
          <6> QED
            BY <6>3, <6>4
        <5>2. batch \in Seq(Item)
          BY <2>2
        <5> QED
          BY <2>1, <3>1, <5>1, <5>2
      <4> QED
        BY <1>0, <2>1, <2>5, <3>1, <4>1 DEF SourceEnds
    <3>2. CASE Tail(batch) # <<>>
      <4>1. Tail(batch)[Len(Tail(batch))] = batch[Len(batch)]
        BY <2>1, <2>2, <3>2
      <4> QED
        BY <1>0, <2>1, <3>2, <4>1 DEF SourceEnds
    <3> QED
      BY <3>1, <3>2
  <2> QED
    BY <1>0, <2>1, <2>7, <2>8, <2>9 DEF SourceInv, SourceParses
<1> QED
  BY <1>2, <1>3, <1>4, <1>5, <1>6, <1>7, <1>8, <1>9, <1>10, <1>11 DEF ES!Next, ES!Reader

\* A new source was told of no event.
LEMMA SourceStart == ES!Init => SourceInv
<1> SUFFICES ASSUME ES!Init PROVE SourceInv
  OBVIOUS
<1>1. SSE_QUEUE_CAP \in Nat \ {0} /\ MaxEvents \in Nat /\ MaxConnects \in Nat
  BY BoundsAssumption DEF ES!Bounds
<1>2. /\ reader = "top" /\ connects = 0 /\ next = 1 /\ line = "id" /\ last_id_in_event = 0
      /\ data_buf = 0 /\ last_event_id = 0 /\ inbound = <<>> /\ dropped = {}
      /\ closed = FALSE /\ page = "run" /\ batch = <<>> /\ readyState = 0 /\ seen = <<>>
  BY DEF ES!Init, ES!None
<1>3. SourceTypes
  <2>1. /\ inbound \in Seq(Item) /\ Len(inbound) = 0
        /\ batch \in Seq(Item) /\ seen \in Seq(ES!Event)
    BY <1>2, EmptySeq
  <2>2. /\ reader = "top" /\ connects = 0 /\ next = 1 /\ line = "id" /\ last_id_in_event = 0
        /\ data_buf = 0 /\ last_event_id = 0 /\ dropped = {}
        /\ closed \in BOOLEAN /\ page = "run" /\ readyState = 0
    BY <1>2
  <2> QED
    BY <1>1, <2>1, <2>2 DEF SourceTypes
<1>4. SourceParses /\ SourceEnds
  BY <1>2 DEF SourceParses, SourceEnds, ES!Event
<1>5. ES!Told = <<>>
  BY <1>2 DEF ES!Told
<1>6. ES!Messages(<<>>) = {}
  BY DEF ES!Messages
<1>7. SourceTold(<<>>, {}, 0)
  BY <1>6 DEF SourceTold, Rising, ES!EventsOf
<1> QED
  BY <1>2, <1>3, <1>4, <1>5, <1>7 DEF SourceInv

----------------------------------------------------------------------------
(* A channel of any kind. *)

IInv ==
  /\ kind \in {"WebSocket", "EventSource", "Worker", "SharedWorker"}
  /\ kind = "WebSocket" => SocketInv
  /\ kind = "EventSource" => SourceInv
  /\ kind = "Worker" => WorkerInv
  /\ kind = "SharedWorker" => SharedInv

\* Each kind starts in its invariant.
LEMMA Start == Init => IInv
  BY SocketStart, SourceStart, WorkerStart, SharedStart DEF Init, IInv

\* One step per kind; what another kind holds is of no account.
LEMMA Step == IInv /\ [Next]_vars => IInv'
<1> SUFFICES ASSUME IInv, [Next]_vars PROVE IInv'
  OBVIOUS
<1>1. CASE SocketNext
  <2>1. kind = "WebSocket" /\ kind' = kind /\ SocketInv /\ WS!Next
    BY <1>1 DEF SocketNext, IInv
  <2>2. SocketInv'
    BY <2>1, SocketStep
  <2> QED
    BY <2>1, <2>2 DEF IInv
<1>2. CASE SourceNext
  <2>1. kind = "EventSource" /\ kind' = kind /\ SourceInv /\ ES!Next
    BY <1>2 DEF SourceNext, IInv
  <2>2. SourceInv'
    BY <2>1, SourceStep
  <2> QED
    BY <2>1, <2>2 DEF IInv
<1>3. CASE WorkerNext
  <2>1. kind = "Worker" /\ kind' = kind /\ WorkerInv /\ WK!Next
    BY <1>3 DEF WorkerNext, IInv
  <2>2. WorkerInv'
    BY <2>1, WorkerStep
  <2> QED
    BY <2>1, <2>2 DEF IInv
<1>4. CASE SharedNext
  <2>1. kind = "SharedWorker" /\ kind' = kind /\ SharedInv /\ SW!Next
    BY <1>4 DEF SharedNext, IInv
  <2>2. SharedInv'
    BY <2>1, SharedStep
  <2> QED
    BY <2>1, <2>2 DEF IInv
<1>5. CASE UNCHANGED vars
  <2>1. /\ UNCHANGED <<kind, inbound, closed, page, batch, readyState, seen, reader, tls, sent,
                       ended, socket, read, connects, next, line, last_id_in_event, data_buf,
                       last_event_id, dropped, worker, onmessage, posted, received, replies,
                       late, shared>>
    BY <1>5 DEF vars, ofSocket, ofSource, ofWorker
  <2>2. SocketInv => SocketInv'
    BY <2>1 DEF SocketInv, SocketTypes, SocketOrder, SocketEnds, Told
  <2>3. SourceInv => SourceInv'
    BY <2>1 DEF SourceInv, SourceTypes, SourceParses, SourceTold, SourceEnds, ES!Told
  <2>4. WorkerInv => WorkerInv'
    BY <2>1 DEF WorkerInv, WorkerTypes, WorkerStops, WK!RepliesInOrder
  <2>5. SharedInv => SharedInv'
    BY <2>1 DEF SharedInv, SharedTypes, SW!RepliesInOrder, SW!HeardInOrder
  <2> QED
    BY <2>1, <2>2, <2>3, <2>4, <2>5 DEF IInv
<1> QED
  BY <1>1, <1>2, <1>3, <1>4, <1>5 DEF Next

\* The invariant holds throughout.
LEMMA Invariant == Spec => []IInv
  BY Start, Step, PTL DEF Spec

\* What SocketOrder says of places is what HeardInOrder says of the queue.
LEMMA SocketHears ==
  ASSUME SocketInv
  PROVE  WS!HeardInOrder
<1> DEFINE all == seen \o batch \o inbound
           n == Len(seen) + Len(batch) + Len(inbound)
           pushed == IF reader = "push" THEN read - 1 ELSE read
<1>1. all = Told /\ pushed = Pushed(reader, read)
  BY DEF Told, Pushed
<1>2. DOMAIN all = 1..n
  BY SocketQueues
<1> HIDE DEF all, n, pushed
<1>3. /\ \A i, j \in 1..n : i < j => all[i] < all[j]
      /\ \A k \in 0..pushed : (\A i \in 1..n : all[i] # k) => pushed - k >= WS_QUEUE_CAP
  BY <1>1 DEF SocketInv, SocketOrder, Orderly, n
<1>4. \A i, j \in DOMAIN all : i < j => all[i] < all[j]
  BY <1>2, <1>3
<1>5. \A k \in 0..pushed : k \notin {all[i] : i \in DOMAIN all} => pushed - k >= WS_QUEUE_CAP
  BY <1>2, <1>3
<1>6. readyState = 3 => ended # "no" /\ seen[Len(seen)] = sent
  BY DEF SocketInv, SocketEnds
<1> QED
  BY <1>4, <1>5, <1>6 DEF WS!HeardInOrder, WS!ToSet, WS!Last, WS!IsEnd, WS!Open, all, pushed

\* What is read and queued has the types the runs check.
THEOREM ChannelsTyped == Spec => []TypeOK
<1>1. IInv => TypeOK
  <2> SUFFICES ASSUME IInv PROVE TypeOK
    OBVIOUS
  <2>1. SocketInv => WS!TypeOK
    <3> SUFFICES ASSUME SocketInv PROVE WS!TypeOK
      OBVIOUS
    <3>1. MaxFrames \in Nat /\ WS!Position = 0..MaxFrames
      BY SocketQueues
    <3> QED
      BY <3>1 DEF SocketInv, SocketTypes, WS!TypeOK, WS!Open
  <2>2. SourceInv => ES!TypeOK
    BY DEF SourceInv, SourceTypes, ES!TypeOK, ES!Event, ES!None, Item
  <2>3. WorkerInv => WK!TypeOK
    <3> SUFFICES ASSUME WorkerInv PROVE WK!TypeOK
      OBVIOUS
    <3>1. MaxPosts \in Nat /\ late \in 0..MaxPosts
      BY BoundsAssumption DEF WK!Bounds, WorkerInv, WorkerTypes, WorkerStops
    <3>2. {replies, inbound, batch, seen} \subseteq Seq(WK!Reply)
      BY DEF WorkerInv, WorkerTypes
    <3> QED
      BY <3>1, <3>2 DEF WorkerInv, WorkerTypes, WK!TypeOK
  <2>4. SharedInv => SW!TypeOK
    <3> SUFFICES ASSUME SharedInv PROVE SW!TypeOK
      OBVIOUS
    <3>1. SharedTypes /\ \A p \in shared.ports \cup shared.onmessage : p <= shared.opened
      BY DEF SharedInv, SharedOpened
    <3>2. shared.onmessage \cup shared.ports \subseteq 1..shared.opened
      BY <3>1 DEF SharedTypes, SW!Port
    <3> QED
      BY <3>1, <3>2 DEF SharedTypes, SW!TypeOK
  <2> QED
    BY <2>1, <2>2, <2>3, <2>4 DEF IInv, TypeOK
<1> QED
  BY <1>1, Invariant, PTL

\* The handlers of a WebSocket, a Worker and a SharedWorker hear in order, and miss
\* only what a full queue let go of (push_bounded, worker_pump, handle_message).
THEOREM HeardInTheirOrder == Spec => []HeardInOrder
<1>1. IInv => HeardInOrder
  BY SocketHears DEF IInv, HeardInOrder, WorkerInv, SharedInv
<1> QED
  BY <1>1, Invariant, PTL

\* An EventSource that lost its connection goes on where it was (sse.rs,
\* last_event_id).
THEOREM SourcesResume == Spec => []ResumesExactly
<1>1. IInv => ResumesExactly
  BY DEF IInv, ResumesExactly, ES!ResumesExactly, SourceInv, SourceTold, Rising
<1> QED
  BY <1>1, Invariant, PTL

\* A closed EventSource ends in CLOSED, whatever was still on its way.
THEOREM SourcesSettle == Spec => []SettlesClosed
<1>1. IInv => SettlesClosed
  BY DEF IInv, SettlesClosed, ES!SettlesClosed, SourceInv, SourceEnds
<1> QED
  BY <1>1, Invariant, PTL

\* terminate() lets a Worker handle one message more at most.
THEOREM WorkersStop == Spec => []StopsSoon
<1>1. IInv => StopsSoon
  BY DEF IInv, StopsSoon, WK!StopsSoon, WorkerInv, WorkerStops
<1> QED
  BY <1>1, Invariant, PTL

==============================================================================
