-------------------------- MODULE KernelIpcProofs ---------------------------
(***************************************************************************)
(* Proofs about the kernel's asynchronous tasks and the ipc crate.         *)
(*                                                                         *)
(* KernelInv is the inductive invariant.  Its parts say what the tasks and *)
(* the queues hold (TaskInv, EndInv), where a request and its answer can   *)
(* be (QueueInv, MailInv), that a caller pays once (PayInv) and that who is*)
(* neither queued nor parked has a waker and no mail (WakeInv).            *)
(***************************************************************************)
EXTENDS KernelIpc, NatFacts

-----------------------------------------------------------------------------
(* The inductive invariant.                                                *)

Budgets == [capacity : 0 .. U32Max, consumed : 0 .. U32Max]

TaskInv ==
    /\ setup \in Setups
    /\ steps \in [Parties -> Nat]
    /\ \A t \in Clients \cup Servers : steps[t] \in {0, 1}
    /\ tasks \in [Live -> Budgets] /\ Live \subseteq Spawned
    /\ ready \in Seq(Spawned) /\ parked \in Seq(Spawned)
    /\ mode \in {"admit", "run", "idle"}

Waiters == [party : Parties, msg : Msgs]

EndOK(e) ==
    /\ e \in [senders : Seq(Waiters), receivers : Seq(Parties)]
    /\ e.senders = <<>> \/ e.receivers = <<>>

NoteOK(n) ==
    /\ n \in [pending : BOOLEAN, waiters : Seq(Parties)]
    /\ n.pending => n.waiters = <<>>

EndInv == EndOK(endpoint) /\ NoteOK(notification)

\* Only callers offer and only servers wait, each once; who waits has no mail.
QueueInv ==
    setup.use = "tasks" =>
      /\ \A i \in DOMAIN endpoint.senders :
           LET w == endpoint.senders[i]
           IN  w.party \in Clients /\ w.msg = Request(w.party)
      /\ \A i, j \in DOMAIN endpoint.senders :
           endpoint.senders[i].party = endpoint.senders[j].party => i = j
      /\ \A i \in DOMAIN endpoint.receivers :
           /\ endpoint.receivers[i] \in Servers
           /\ steps[endpoint.receivers[i]] = 1
           /\ \A d \in delivered : d.to # endpoint.receivers[i]
      /\ \A i, j \in DOMAIN endpoint.receivers :
           endpoint.receivers[i] = endpoint.receivers[j] => i = j

\* The four places a request can be.
Offered(t) == \E i \in DOMAIN endpoint.senders : endpoint.senders[i].party = t
Handed(t) == \E d \in delivered : d.from = t
Answered(t) == \E r \in responses : r.to = t
Returned(t) == t \in DOMAIN results

\* It is in one of them once it was sent.
OnePlace(t) ==
    /\ steps[t] = 0 => ~Offered(t) /\ ~Handed(t) /\ ~Answered(t) /\ ~Returned(t)
    /\ steps[t] = 1 => Offered(t) \/ Handed(t) \/ Answered(t) \/ Returned(t)
    /\ Offered(t) => ~Handed(t) /\ ~Answered(t) /\ ~Returned(t)
    /\ Handed(t) => ~Answered(t) /\ ~Returned(t)
    /\ Answered(t) => ~Returned(t)

MailInv ==
    /\ \A d \in delivered : d.to \in Servers /\ d.from \in Clients /\ d.msg = Request(d.from)
    /\ \A d, e \in delivered : d.from = e.from => d = e
    /\ \A r \in responses : r.to \in Clients /\ r.msg = Response(Request(r.to))
    /\ \A r, q \in responses : r.to = q.to => r = q
    /\ DOMAIN results \subseteq Clients
    /\ \A t \in DOMAIN results : results[t] = Response(Request(t))
    /\ \A t \in Clients : OnePlace(t)

\* The reply slot is free between polls, and the frame moves when its owner's
\* request is served.
MoveInv ==
    /\ ~halted /\ reply = NoReply
    /\ frame \in [at : {"client", "server"}, rights : SUBSET FrameRights]
    /\ frame.at = "client" => frame.rights = FrameRights
    /\ \A t \in Clients :
         Body(t).caps = 1 /\ frame.at = "server" => Answered(t) \/ Returned(t)

PayInv ==
    /\ budgets \in [client : Budgets, server : Budgets]
    /\ budgets.client.capacity + budgets.server.capacity = ClientBudget
    /\ \A t \in Clients : Clients = {t} =>
         /\ steps[t] = 0 => budgets = [client |-> NewBudget(ClientBudget), server |-> NewBudget(0)]
         /\ Offered(t) \/ Handed(t) =>
              budgets = [client |-> NewBudget(ClientBudget - CallDelegate),
                         server |-> NewBudget(CallDelegate)]
         /\ Answered(t) \/ Returned(t) =>
              /\ Remaining(budgets.client) = ClientBudget - WorkUnits
              /\ Remaining(budgets.server) = 0

WakeInv ==
    /\ wakers \subseteq Clients \cup Servers
    /\ \A t \in Live \ (Range(ready) \cup Range(parked)) :
         /\ t \in wakers /\ steps[t] = 1
         /\ \A m \in delivered \cup responses : m.to # t
    /\ \A i, j \in DOMAIN parked : parked[i] = parked[j] => i = j
    /\ \A t \in Range(parked) : t \in Live /\ IsDepleted(tasks[t])

KernelInv == TaskInv /\ EndInv /\ QueueInv /\ MailInv /\ MoveInv /\ PayInv /\ WakeInv

-----------------------------------------------------------------------------
(* Sequences.                                                              *)

LEMMA EmptyFacts ==
  ASSUME NEW S
  PROVE  <<>> \in Seq(S) /\ Len(<<>>) = 0 /\ DOMAIN <<>> = {} /\ Range(<<>>) = {}
<1>1. DOMAIN <<>> = {}
  OBVIOUS
<1>2. QED
  BY <1>1 DEF Range

LEMMA AppendFacts ==
  ASSUME NEW S, NEW s \in Seq(S), NEW x \in S
  PROVE  /\ Append(s, x) \in Seq(S) /\ Append(s, x) # <<>>
         /\ DOMAIN s = 1 .. Len(s) /\ DOMAIN Append(s, x) = 1 .. Len(s) + 1 /\ Len(s) \in Nat
         /\ \A i \in 1 .. Len(s) : Append(s, x)[i] = s[i]
         /\ Append(s, x)[Len(s) + 1] = x
         /\ Range(Append(s, x)) = Range(s) \cup {x}
<1> DEFINE a == Append(s, x)
<1>1. /\ a \in Seq(S) /\ Len(a) = Len(s) + 1 /\ Len(s) \in Nat
      /\ DOMAIN s = 1 .. Len(s) /\ DOMAIN a = 1 .. Len(s) + 1
      /\ \A i \in 1 .. Len(s) : a[i] = s[i]
      /\ a[Len(s) + 1] = x
  OBVIOUS
<1>2. a # <<>>
  BY <1>1
<1> HIDE DEF a
<1>3. Range(a) = Range(s) \cup {x}
  <2>1. ASSUME NEW i \in DOMAIN a PROVE a[i] \in Range(s) \cup {x}
    BY <1>1 DEF Range
  <2>2. ASSUME NEW i \in DOMAIN s PROVE s[i] \in Range(a)
    <3>1. i \in DOMAIN a /\ a[i] = s[i]
      BY <1>1
    <3>2. QED
      BY Zenon, <3>1 DEF Range
  <2>3. x \in Range(a)
    <3>1. Len(s) + 1 \in DOMAIN a
      BY <1>1
    <3>2. QED
      BY Zenon, <3>1, <1>1 DEF Range
  <2>4. QED
    BY Zenon, <2>1, <2>2, <2>3 DEF Range
<1>4. QED
  BY Zenon, <1>1, <1>2, <1>3 DEF a

LEMMA TailFacts ==
  ASSUME NEW S, NEW s \in Seq(S), s # <<>>
  PROVE  /\ Tail(s) \in Seq(S) /\ Head(s) \in S /\ Head(s) = s[1]
         /\ Len(s) \in Nat \ {0} /\ DOMAIN s = 1 .. Len(s) /\ DOMAIN Tail(s) = 1 .. Len(s) - 1
         /\ \A i \in 1 .. Len(s) - 1 : Tail(s)[i] = s[i + 1] /\ i + 1 \in DOMAIN s
         /\ Range(s) = {Head(s)} \cup Range(Tail(s))
<1> DEFINE a == Tail(s)
<1>1. /\ a \in Seq(S) /\ Head(s) \in S /\ Head(s) = s[1]
      /\ Len(s) \in Nat \ {0} /\ DOMAIN s = 1 .. Len(s)
      /\ DOMAIN a = 1 .. Len(s) - 1
      /\ \A i \in 1 .. Len(s) - 1 : a[i] = s[i + 1]
  OBVIOUS
<1> HIDE DEF a
<1>2. \A i \in 1 .. Len(s) - 1 : i + 1 \in DOMAIN s
  BY <1>1
<1>3. Range(s) = {Head(s)} \cup Range(a)
  <2>1. ASSUME NEW i \in DOMAIN s, i # 1 PROVE s[i] \in Range(a)
    <3>1. i - 1 \in DOMAIN a /\ a[i - 1] = s[i]
      BY <2>1, <1>1
    <3>2. QED
      BY Zenon, <3>1 DEF Range
  <2>2. ASSUME NEW i \in DOMAIN a PROVE a[i] \in Range(s)
    BY Zenon, <1>1, <1>2 DEF Range
  <2>3. 1 \in DOMAIN s
    BY <1>1
  <2>4. QED
    BY ZenonT(30), <2>1, <2>2, <2>3, <1>1 DEF Range
<1>4. QED
  BY Zenon, <1>1, <1>2, <1>3 DEF a

LEMMA ConcatFacts ==
  ASSUME NEW S, NEW s \in Seq(S), NEW r \in Seq(S)
  PROVE  s \o r \in Seq(S) /\ Range(s \o r) = Range(s) \cup Range(r)
<1> DEFINE a == s \o r
<1>1. /\ a \in Seq(S) /\ Len(s) \in Nat /\ Len(r) \in Nat
      /\ DOMAIN s = 1 .. Len(s) /\ DOMAIN r = 1 .. Len(r) /\ DOMAIN a = 1 .. Len(s) + Len(r)
      /\ \A i \in DOMAIN a : a[i] = IF i <= Len(s) THEN s[i] ELSE r[i - Len(s)]
  OBVIOUS
<1> HIDE DEF a
<1>2. ASSUME NEW i \in DOMAIN a PROVE a[i] \in Range(s) \cup Range(r)
  <2>1. CASE i <= Len(s)
    <3>1. i \in DOMAIN s /\ a[i] = s[i]
      BY <2>1, <1>1
    <3>2. QED
      BY Zenon, <3>1 DEF Range
  <2>2. CASE ~(i <= Len(s))
    <3>1. i - Len(s) \in DOMAIN r /\ a[i] = r[i - Len(s)]
      BY <2>2, <1>1
    <3>2. QED
      BY Zenon, <3>1 DEF Range
  <2>3. QED
    BY Zenon, <2>1, <2>2
<1>3. ASSUME NEW i \in DOMAIN s PROVE s[i] \in Range(a)
  <2>1. i \in DOMAIN a /\ a[i] = s[i]
    BY <1>1
  <2>2. QED
    BY Zenon, <2>1 DEF Range
<1>4. ASSUME NEW i \in DOMAIN r PROVE r[i] \in Range(a)
  <2>1. i + Len(s) \in DOMAIN a /\ a[i + Len(s)] = r[i]
    BY <1>1
  <2>2. QED
    BY Zenon, <2>1 DEF Range
<1>5. Range(a) = Range(s) \cup Range(r)
  BY Zenon, <1>2, <1>3, <1>4 DEF Range
<1>6. QED
  BY Zenon, <1>1, <1>5 DEF a

(* The function that Upto defines by recursion exists.                     *)
UptoFun(s, I, n, f) ==
    f = [k \in 0 .. n |->
           IF k = 0 THEN <<>> ELSE IF k \in I THEN Append(f[k - 1], s[k]) ELSE f[k - 1]]

LEMMA UptoExists ==
  ASSUME NEW s, NEW I
  PROVE  \A n \in Nat : \E f : UptoFun(s, I, n, f)
<1> DEFINE P == {n \in Nat : \E f : UptoFun(s, I, n, f)}
<1>1. 0 \in P
  <2> DEFINE f == [k \in 0 .. 0 |-> <<>>]
  <2>1. UptoFun(s, I, 0, f)
    BY DEF UptoFun
  <2>2. QED
    BY Zenon, <2>1
<1>2. ASSUME NEW n \in P PROVE n + 1 \in P
  <2>1. PICK f : UptoFun(s, I, n, f)
    BY Zenon
  <2> DEFINE top == IF n + 1 \in I THEN Append(f[n], s[n + 1]) ELSE f[n]
             g == [k \in 0 .. n + 1 |-> IF k = n + 1 THEN top ELSE f[k]]
  <2>2. n \in Nat /\ \A k \in 0 .. n + 1 : k # n + 1 => k \in 0 .. n
    OBVIOUS
  <2>3. \A k \in 0 .. n :
          f[k] = IF k = 0 THEN <<>> ELSE IF k \in I THEN Append(f[k - 1], s[k]) ELSE f[k - 1]
    BY Zenon, <2>1 DEF UptoFun
  <2>4. ASSUME NEW k \in 0 .. n + 1
        PROVE  g[k] = IF k = 0 THEN <<>>
                      ELSE IF k \in I THEN Append(g[k - 1], s[k]) ELSE g[k - 1]
    <3>1. CASE k = n + 1
      <4>1. k # 0 /\ k - 1 = n /\ n \in 0 .. n + 1 /\ n # n + 1
        BY <3>1, <2>2
      <4>2. g[k] = top /\ g[k - 1] = f[n]
        BY Zenon, <4>1, <3>1
      <4>3. QED
        BY Zenon, <4>1, <4>2, <3>1
    <3>2. CASE k # n + 1
      <4>1. k \in 0 .. n /\ g[k] = f[k]
        BY Zenon, <3>2, <2>2
      <4>2. k # 0 => k - 1 \in 0 .. n + 1 /\ k - 1 # n + 1 /\ g[k - 1] = f[k - 1]
        BY <4>1, <2>2
      <4>3. QED
        BY Zenon, <4>1, <4>2, <2>3
    <3>3. QED
      BY Zenon, <3>1, <3>2
  <2>5. g = [k \in 0 .. n + 1 |->
               IF k = 0 THEN <<>> ELSE IF k \in I THEN Append(g[k - 1], s[k]) ELSE g[k - 1]]
    BY Zenon, <2>4
  <2>6. UptoFun(s, I, n + 1, g)
    BY Zenon, <2>5 DEF UptoFun
  <2>7. QED
    BY <2>2, <2>6
<1>3. P \in SUBSET Nat
  BY Zenon
<1> HIDE DEF P
<1>4. Nat \subseteq P
  BY Zenon, <1>1, <1>2, <1>3, NatSetInduction
<1>5. QED
  BY Zenon, <1>4 DEF P

LEMMA UptoStep ==
  ASSUME NEW s, Len(s) \in Nat, NEW I
  PROVE  /\ Upto(s, I)[0] = <<>>
         /\ \A n \in 1 .. Len(s) :
              Upto(s, I)[n] = IF n \in I THEN Append(Upto(s, I)[n - 1], s[n])
                              ELSE Upto(s, I)[n - 1]
<1>1. PICK f : UptoFun(s, I, Len(s), f)
  BY Zenon, UptoExists
<1>2. UptoFun(s, I, Len(s), Upto(s, I))
  BY Zenon, <1>1 DEF UptoFun, Upto
<1> DEFINE g == Upto(s, I)
<1>3. g = [k \in 0 .. Len(s) |->
             IF k = 0 THEN <<>> ELSE IF k \in I THEN Append(g[k - 1], s[k]) ELSE g[k - 1]]
  BY Zenon, <1>2 DEF UptoFun
<1> HIDE DEF g
<1>4. \A k \in 0 .. Len(s) :
        g[k] = IF k = 0 THEN <<>> ELSE IF k \in I THEN Append(g[k - 1], s[k]) ELSE g[k - 1]
  BY Zenon, <1>3
<1>5. g[0] = <<>> /\ \A n \in 1 .. Len(s) : g[n] = IF n \in I THEN Append(g[n - 1], s[n]) ELSE g[n - 1]
  BY <1>4
<1>6. QED
  BY Zenon, <1>5 DEF g

(* Entries holds the entries at the indices in I, and no others.           *)
LEMMA EntriesFacts ==
  ASSUME NEW S, NEW s \in Seq(S), NEW I
  PROVE  /\ Entries(s, I) \in Seq(S)
         /\ Range(Entries(s, I)) = {s[i] : i \in I \cap DOMAIN s}
<1> DEFINE u == Upto(s, I)
           Good(n) == /\ u[n] \in Seq(S)
                      /\ Range(u[n]) = {s[i] : i \in I \cap (1 .. n)}
           P == {n \in Nat : n <= Len(s) => Good(n)}
<1>1. Len(s) \in Nat /\ DOMAIN s = 1 .. Len(s) /\ \A i \in 1 .. Len(s) : s[i] \in S
  OBVIOUS
<1>2. u[0] = <<>> /\ \A n \in 1 .. Len(s) : u[n] = IF n \in I THEN Append(u[n - 1], s[n]) ELSE u[n - 1]
  BY <1>1, UptoStep
<1> HIDE DEF u
<1>3. 0 \in P
  <2>1. I \cap (1 .. 0) = {}
    OBVIOUS
  <2>2. QED
    BY Zenon, <2>1, <1>2, EmptyFacts
<1>4. ASSUME NEW n \in P PROVE n + 1 \in P
  <2>1. SUFFICES ASSUME n + 1 <= Len(s) PROVE Good(n + 1)
    OBVIOUS
  <2>2. n \in Nat /\ n + 1 \in 1 .. Len(s) /\ (n + 1) - 1 = n /\ s[n + 1] \in S
    BY <2>1, <1>1
  <2>3. Good(n)
    BY <2>1, <2>2, <1>1
  <2>4. u[n + 1] = IF n + 1 \in I THEN Append(u[n], s[n + 1]) ELSE u[n]
    BY Zenon, <2>2, <1>2
  <2>5. CASE n + 1 \in I
    <3>1. u[n + 1] = Append(u[n], s[n + 1])
      BY Zenon, <2>4, <2>5
    <3>2. u[n + 1] \in Seq(S) /\ Range(u[n + 1]) = Range(u[n]) \cup {s[n + 1]}
      BY <3>1, <2>2, <2>3, AppendFacts
    <3>3. {s[i] : i \in I \cap (1 .. n + 1)} = {s[i] : i \in I \cap (1 .. n)} \cup {s[n + 1]}
      BY <2>2, <2>5
    <3>4. QED
      BY Zenon, <3>2, <3>3, <2>3
  <2>6. CASE n + 1 \notin I
    <3>1. I \cap (1 .. n + 1) = I \cap (1 .. n)
      BY <2>2, <2>6
    <3>2. QED
      BY Zenon, <3>1, <2>3, <2>4, <2>6
  <2>7. QED
    BY Zenon, <2>5, <2>6
<1>5. P \in SUBSET Nat
  BY Zenon
<1> HIDE DEF P
<1>6. P = Nat
  BY Zenon, <1>3, <1>4, <1>5, NatSetInduction
<1>7. Len(s) \in P
  BY Zenon, <1>1, <1>6
<1>8. Good(Len(s))
  BY <1>1, <1>7 DEF P
<1>9. QED
  BY Zenon, <1>1, <1>8 DEF Entries, u

LEMMA EntriesEmpty ==
  ASSUME NEW I
  PROVE  Entries(<<>>, I) = <<>>
BY Zenon, UptoStep DEF Entries

\* s with f applied to every entry.
Image(f, s) == [i \in DOMAIN s |-> f[s[i]]]

(* Taking entries out of a sequence and of its image is the same.           *)
LEMMA EntriesImage ==
  ASSUME NEW S, NEW s \in Seq(S), NEW I, NEW f
  PROVE  Entries(Image(f, s), I) = Image(f, Entries(s, I))
<1> DEFINE m == Image(f, s)
           u == Upto(s, I)
           v == Upto(m, I)
           Good(n) == u[n] \in Seq(S) /\ v[n] = [i \in DOMAIN u[n] |-> f[u[n][i]]]
           P == {n \in Nat : n <= Len(s) => Good(n)}
<1>1. /\ Len(s) \in Nat /\ Len(m) = Len(s)
      /\ \A i \in 1 .. Len(s) : s[i] \in S /\ m[i] = f[s[i]]
  BY DEF Image
<1> HIDE DEF m
<1>2. /\ u[0] = <<>>
      /\ \A n \in 1 .. Len(s) : u[n] = IF n \in I THEN Append(u[n - 1], s[n]) ELSE u[n - 1]
  BY <1>1, UptoStep
<1>3. /\ v[0] = <<>>
      /\ \A n \in 1 .. Len(s) : v[n] = IF n \in I THEN Append(v[n - 1], m[n]) ELSE v[n - 1]
  BY <1>1, UptoStep
<1> HIDE DEF u, v
<1>4. 0 \in P
  BY <1>2, <1>3
<1>5. ASSUME NEW n \in P PROVE n + 1 \in P
  <2>1. SUFFICES ASSUME n + 1 <= Len(s) PROVE Good(n + 1)
    OBVIOUS
  <2>2. n \in Nat /\ n + 1 \in 1 .. Len(s) /\ (n + 1) - 1 = n
    BY <2>1, <1>1
  <2>3. Good(n)
    BY <2>1, <2>2, <1>1
  <2>4. /\ u[n + 1] = IF n + 1 \in I THEN Append(u[n], s[n + 1]) ELSE u[n]
        /\ v[n + 1] = IF n + 1 \in I THEN Append(v[n], m[n + 1]) ELSE v[n]
    BY Zenon, <2>2, <1>2, <1>3
  <2>5. CASE n + 1 \in I
    <3> DEFINE a == u[n]
               b == v[n]
               x == s[n + 1]
               c == Append(a, x)
               d == Append(b, f[x])
    <3>1. u[n + 1] = c /\ v[n + 1] = d
      BY Zenon, <2>2, <2>4, <2>5, <1>1
    <3>2. a \in Seq(S) /\ b = [i \in DOMAIN a |-> f[a[i]]] /\ x \in S
      BY Zenon, <2>2, <2>3, <1>1
    <3> HIDE DEF a, b, x
    <3>3. Len(a) \in Nat /\ DOMAIN a = 1 .. Len(a) /\ Len(b) = Len(a) /\ b \in Seq({f[y] : y \in S})
      BY <3>2
    <3>4. c \in Seq(S) /\ DOMAIN c = 1 .. Len(a) + 1 /\ DOMAIN d = 1 .. Len(a) + 1
      BY <3>2, <3>3
    <3>5. \A i \in 1 .. Len(a) + 1 : d[i] = f[c[i]]
      BY <3>2, <3>3
    <3>6. d = [i \in 1 .. Len(a) + 1 |-> d[i]]
      BY <3>3, <3>4
    <3>7. d = [i \in DOMAIN c |-> f[c[i]]]
      BY Zenon, <3>4, <3>5, <3>6
    <3>8. QED
      BY Zenon, <3>1, <3>4, <3>7
  <2>6. CASE n + 1 \notin I
    BY Zenon, <2>3, <2>4, <2>6
  <2>7. QED
    BY Zenon, <2>5, <2>6
<1>6. P \in SUBSET Nat
  BY Zenon
<1> HIDE DEF P
<1>7. P = Nat
  BY Zenon, <1>4, <1>5, <1>6, NatSetInduction
<1>8. Len(s) \in P
  BY Zenon, <1>1, <1>7
<1>9. Good(Len(s))
  BY <1>1, <1>8 DEF P
<1>10. QED
  BY Zenon, <1>1, <1>9 DEF Entries, Image, u, v, m

-----------------------------------------------------------------------------
(* Setups, messages and budgets.                                           *)

LEMMA SetupFacts ==
  ASSUME setup \in Setups
  PROVE  /\ Spawned \subseteq Parties /\ Parties \subseteq Nat \ {0}
         /\ Clients \subseteq Spawned /\ Servers \subseteq Spawned
         /\ Clients \cap Servers = {} /\ Workers \cap (Clients \cup Servers) = {}
         /\ \A t \in Spawned : Body(t).budget \in 0 .. U32Max
         /\ \A t \in Clients : Body(t).caps \in {0, 1}
         /\ \A t, u \in Clients : Body(t).caps = 1 /\ Body(u).caps = 1 => t = u
         /\ setup.use # "tasks" => Spawned = {} /\ Clients = {} /\ Servers = {}
<1> DEFINE b == setup.bodies
<1>1. /\ b \in Seq(Bodies) /\ 1 .. Len(b) \subseteq Parties /\ Parties \subseteq Nat \ {0}
      /\ setup.use # "tasks" => b = <<>>
      /\ \A t, u \in 1 .. Len(b) :
           b[t].kind = "client" /\ b[u].kind = "client" /\ t # u => b[t].caps = 0 \/ b[u].caps = 0
  BY Zenon, KernelIpcAssumption
<1>2. Spawned = 1 .. Len(b) /\ \A t : Body(t) = b[t]
  BY Zenon DEF Spawned, Body
<1> HIDE DEF b
<1>3. \A t \in Spawned : Body(t) \in Bodies
  BY <1>1, <1>2
<1>4. \A t \in Spawned :
        Body(t).budget \in 0 .. U32Max /\ (Body(t).kind = "client" => Body(t).caps \in {0, 1})
  BY Zenon, <1>3 DEF Bodies
<1>5. setup.use # "tasks" => Spawned = {}
  BY <1>1, <1>2
<1>6. \A t, u \in Clients : Body(t).caps = 1 /\ Body(u).caps = 1 => t = u
  BY <1>1, <1>2 DEF Clients, IsKind
<1>7. QED
  BY Zenon, <1>1, <1>2, <1>4, <1>5, <1>6 DEF Clients, Servers, Workers, IsKind

LEMMA SameSetup ==
  ASSUME setup' = setup
  PROVE  /\ Spawned' = Spawned /\ Clients' = Clients /\ Servers' = Servers
         /\ \A t : Body(t)' = Body(t) /\ Request(t)' = Request(t)
BY Zenon DEF Spawned, Clients, Servers, IsKind, Body, Request

(* A request travels with the one transfer its client has, and its answer   *)
(* does not depend on the badge the endpoint puts on it.                   *)
LEMMA MessageFacts ==
  ASSUME setup \in Setups, NEW t \in Clients
  PROVE  /\ Request(t) \in Msgs
         /\ Body(t).caps = 0 => Transfers(Request(t)) = <<>>
         /\ Body(t).caps = 1 => Transfers(Request(t)) = <<{"READ"}>>
         /\ \A x : Response([Request(t) EXCEPT !.badge = x]) = Response(Request(t))
<1> DEFINE m == WithData(t % 2, <<(t * WordMax) % (WordMax + 1)>>)
           n == IF Len(<<(t * WordMax) % (WordMax + 1)>>) < MsgRegs
                  THEN Len(<<(t * WordMax) % (WordMax + 1)>>) ELSE MsgRegs
           r == [i \in 1 .. MsgRegs |-> IF i <= n THEN <<(t * WordMax) % (WordMax + 1)>>[i] ELSE 0]
<1>1. t \in Parties /\ Body(t).caps \in {0, 1}
  BY Zenon, SetupFacts
<1>2. Request(t) \in Msgs
  BY <1>1 DEF Request, Msgs
<1>3. m = [info |-> [label |-> t % 2, n_regs |-> n, n_caps |-> 0], regs |-> r, caps |-> <<>>, badge |-> 0]
  BY Zenon DEF WithData
<1>4. MaxCaps \in Int /\ MaxCaps >= 1
  BY DescriptorAssumption
<1>5. Request(t) = IF Body(t).caps = 0 THEN m
                   ELSE [m EXCEPT !.info.n_caps = 1, !.caps = <<{"READ"}>>]
  BY Zenon DEF Request, RequestOf
<1> HIDE DEF n, r
<1>6. /\ Request(t).info.n_caps = Body(t).caps
      /\ Body(t).caps = 0 => Request(t).caps = <<>>
      /\ Body(t).caps = 1 => Request(t).caps = <<{"READ"}>>
      /\ "info" \in DOMAIN Request(t) /\ "regs" \in DOMAIN Request(t)
  <2> DEFINE i == [label |-> t % 2, n_regs |-> n, n_caps |-> 0]
             c == <<{"READ"}>>
             j == [i EXCEPT !.n_caps = 1]
  <2>1. CASE Body(t).caps = 0
    BY <2>1, <1>3, <1>5
  <2>2. CASE Body(t).caps = 1
    <3>1. m.info = i /\ DOMAIN m = {"info", "regs", "caps", "badge"}
      BY <1>3
    <3>2. j.n_caps = 1
      BY Zenon
    <3>3. Request(t) = [m EXCEPT !.info.n_caps = 1, !.caps = c]
      BY <1>5, <2>2
    <3> HIDE DEF m, i, c
    <3>4. [m EXCEPT !.info.n_caps = 1, !.caps = c] = [m EXCEPT !.info = j, !.caps = c]
      BY Zenon, <3>1
    <3> HIDE DEF j
    <3>5. Request(t).info = j /\ Request(t).caps = c /\ DOMAIN Request(t) = DOMAIN m
      BY Zenon, <3>1, <3>3, <3>4
    <3>6. QED
      BY <2>2, <3>1, <3>2, <3>5 DEF c
  <2>3. QED
    BY Zenon, <1>1, <2>1, <2>2
<1>7. ASSUME Body(t).caps = 0 PROVE Transfers(Request(t)) = <<>>
  <2>1. Transfers(Request(t)) = SubSeq(<<>>, 1, 0)
    BY <1>4, <1>6, <1>7 DEF Transfers
  <2>2. QED
    BY <2>1
<1>8. ASSUME Body(t).caps = 1 PROVE Transfers(Request(t)) = <<{"READ"}>>
  <2> DEFINE c == <<{"READ"}>>
  <2>1. Request(t).caps = c /\ Request(t).info.n_caps = 1
    BY Zenon, <1>6, <1>8
  <2>2. c \in Seq({{"READ"}}) /\ Len(c) = 1
    OBVIOUS
  <2> HIDE DEF c
  <2>3. Transfers(Request(t)) = SubSeq(c, 1, Len(c))
    BY <1>4, <2>1, <2>2 DEF Transfers
  <2>4. SubSeq(c, 1, Len(c)) = c
    BY <2>2
  <2>5. QED
    BY Zenon, <2>3, <2>4 DEF c
<1>9. ASSUME NEW x PROVE Response([Request(t) EXCEPT !.badge = x]) = Response(Request(t))
  <2> DEFINE e == [Request(t) EXCEPT !.badge = x]
             q == Request(t)
  <2>1. e.info = q.info /\ e.regs = q.regs
    BY Zenon, <1>6
  <2> HIDE DEF e, q
  <2>2. Response(e) = Response(q)
    BY Zenon, <2>1 DEF Response, Data
  <2>3. QED
    BY Zenon, <2>2 DEF e, q
<1>10. QED
  BY Zenon, <1>2, <1>7, <1>8, <1>9

LEMMA BudgetFacts ==
  ASSUME NEW b \in Budgets
  PROVE  /\ U32Max \in Nat /\ b.capacity \in 0 .. U32Max /\ b.consumed \in 0 .. U32Max
         /\ Remaining(b) \in 0 .. b.capacity
         /\ \A n \in Nat : /\ Charge(b, n) \in Budgets
                           /\ Charge(b, n).capacity = b.capacity
                           /\ Charge(b, n).consumed = IF b.consumed + n > U32Max THEN U32Max
                                                      ELSE b.consumed + n
         /\ Refilled(b) \in Budgets
<1>1. U32Max \in Nat /\ b = [capacity |-> b.capacity, consumed |-> b.consumed]
      /\ b.capacity \in 0 .. U32Max /\ b.consumed \in 0 .. U32Max
  BY Zenon, KernelIpcAssumption DEF Budgets
<1>2. Remaining(b) \in 0 .. b.capacity
  BY <1>1 DEF Remaining
<1>3. ASSUME NEW n \in Nat
      PROVE  Charge(b, n) = [capacity |-> b.capacity,
                             consumed |-> IF b.consumed + n > U32Max THEN U32Max
                                          ELSE b.consumed + n]
  BY <1>1 DEF Charge
<1>4. Refilled(b) = [capacity |-> b.capacity, consumed |-> 0]
  BY <1>1 DEF Refilled
<1>5. QED
  BY <1>1, <1>2, <1>3, <1>4 DEF Budgets

(* Budget::delegate conserves the capacity of the two.                     *)
LEMMA DelegateFacts ==
  ASSUME NEW b \in Budgets, NEW c \in Budgets, NEW n \in Nat
  PROVE  LET p == Delegate(b, c, n)
         IN  /\ p[1] \in Budgets /\ p[2] \in Budgets
             /\ p[1].capacity + p[2].capacity = b.capacity + c.capacity
             /\ p[1].consumed = b.consumed /\ p[2].consumed = c.consumed
             /\ (n # 0 /\ n <= Remaining(b) /\ c.capacity + n <= U32Max) =>
                  p[1].capacity = b.capacity - n /\ p[2].capacity = c.capacity + n
             /\ ~(n # 0 /\ n <= Remaining(b) /\ c.capacity + n <= U32Max) => p[1] = b /\ p[2] = c
<1>1. /\ U32Max \in Nat /\ Remaining(b) \in 0 .. b.capacity
      /\ b.capacity \in 0 .. U32Max /\ c.capacity \in 0 .. U32Max
      /\ b.consumed \in 0 .. U32Max /\ c.consumed \in 0 .. U32Max
      /\ b = [capacity |-> b.capacity, consumed |-> b.consumed]
      /\ c = [capacity |-> c.capacity, consumed |-> c.consumed]
  BY Zenon, BudgetFacts DEF Budgets
<1> DEFINE ok == n # 0 /\ n <= Remaining(b) /\ c.capacity + n <= U32Max
<1>2. CASE ok
  <2>1. Delegate(b, c, n) = <<[b EXCEPT !.capacity = @ - n], [c EXCEPT !.capacity = @ + n]>>
    BY <1>1, <1>2 DEF Delegate
  <2>2. /\ [b EXCEPT !.capacity = @ - n] = [capacity |-> b.capacity - n, consumed |-> b.consumed]
        /\ [c EXCEPT !.capacity = @ + n] = [capacity |-> c.capacity + n, consumed |-> c.consumed]
    BY <1>1
  <2>3. QED
    BY <1>1, <1>2, <2>1, <2>2 DEF Budgets
<1>3. CASE ~ok
  <2>1. Delegate(b, c, n) = <<b, c>>
    BY <1>1, <1>3 DEF Delegate
  <2>2. QED
    BY <1>1, <1>3, <2>1
<1>4. QED
  BY Zenon, <1>2, <1>3

-----------------------------------------------------------------------------
(* The objects of the ipc crate.                                           *)

LEMMA SendFacts ==
  ASSUME NEW e, EndOK(e), NEW from \in Parties, NEW msg \in Msgs
  PROVE  /\ EndOK(Send(e, from, msg))
         /\ e.receivers # <<>> =>
              /\ e.senders = <<>> /\ Send(e, from, msg).senders = <<>>
              /\ Send(e, from, msg).receivers = Tail(e.receivers)
         /\ e.receivers = <<>> =>
              /\ Send(e, from, msg).receivers = <<>>
              /\ Send(e, from, msg).senders = Append(e.senders, SendWaiter(from, msg))
              /\ SendWaiter(from, msg) \in Waiters
<1>1. /\ e = [senders |-> e.senders, receivers |-> e.receivers]
      /\ e.senders \in Seq(Waiters) /\ e.receivers \in Seq(Parties)
      /\ e.senders = <<>> \/ e.receivers = <<>>
  BY Zenon DEF EndOK
<1>2. CASE e.receivers # <<>>
  <2>1. Send(e, from, msg) = [senders |-> e.senders, receivers |-> Tail(e.receivers)]
    BY Zenon, <1>1, <1>2 DEF Send
  <2>2. Tail(e.receivers) \in Seq(Parties)
    BY Zenon, <1>1, <1>2, TailFacts
  <2>3. QED
    BY <1>1, <1>2, <2>1, <2>2 DEF EndOK
<1>3. CASE e.receivers = <<>>
  <2> DEFINE w == SendWaiter(from, msg)
  <2>1. Send(e, from, msg) = [senders |-> Append(e.senders, w), receivers |-> e.receivers]
    BY Zenon, <1>1, <1>3 DEF Send
  <2>2. w \in Waiters
    BY Zenon DEF SendWaiter, Waiters
  <2> HIDE DEF w
  <2>3. Append(e.senders, w) \in Seq(Waiters)
    BY Zenon, <1>1, <2>2, AppendFacts
  <2>4. EndOK(Send(e, from, msg))
    BY <1>1, <1>3, <2>1, <2>3 DEF EndOK
  <2>5. QED
    BY <1>3, <2>1, <2>2, <2>4 DEF w
<1>4. QED
  BY Zenon, <1>2, <1>3

LEMMA RecvFacts ==
  ASSUME NEW e, EndOK(e), NEW by \in Parties
  PROVE  /\ EndOK(Recv(e, by))
         /\ e.senders # <<>> =>
              /\ e.receivers = <<>> /\ Recv(e, by).receivers = <<>>
              /\ Recv(e, by).senders = Tail(e.senders)
              /\ Head(e.senders) \in Waiters
         /\ e.senders = <<>> =>
              /\ Recv(e, by).senders = <<>>
              /\ Recv(e, by).receivers = Append(e.receivers, by)
<1>1. /\ e = [senders |-> e.senders, receivers |-> e.receivers]
      /\ e.senders \in Seq(Waiters) /\ e.receivers \in Seq(Parties)
      /\ e.senders = <<>> \/ e.receivers = <<>>
  BY Zenon DEF EndOK
<1>2. CASE e.senders # <<>>
  <2>1. Recv(e, by) = [senders |-> Tail(e.senders), receivers |-> e.receivers]
    BY Zenon, <1>1, <1>2 DEF Recv
  <2>2. Tail(e.senders) \in Seq(Waiters) /\ Head(e.senders) \in Waiters
    BY Zenon, <1>1, <1>2, TailFacts
  <2>3. QED
    BY <1>1, <1>2, <2>1, <2>2 DEF EndOK
<1>3. CASE e.senders = <<>>
  <2>1. Recv(e, by) = [senders |-> e.senders, receivers |-> Append(e.receivers, by)]
    BY Zenon, <1>1, <1>3 DEF Recv
  <2>2. Append(e.receivers, by) \in Seq(Parties)
    BY Zenon, <1>1, AppendFacts
  <2>3. QED
    BY <1>1, <1>3, <2>1, <2>2 DEF EndOK
<1>4. QED
  BY Zenon, <1>2, <1>3

LEMMA CancelFacts ==
  ASSUME NEW e, EndOK(e), NEW p
  PROVE  EndOK(Cancel(e, p))
<1>1. /\ e.senders \in Seq(Waiters) /\ e.receivers \in Seq(Parties)
      /\ e.senders = <<>> \/ e.receivers = <<>>
  BY Zenon DEF EndOK
<1> DEFINE I == {i \in DOMAIN e.senders : e.senders[i].party # p}
           J == {i \in DOMAIN e.receivers : e.receivers[i] # p}
           a == Entries(e.senders, I)
           b == Entries(e.receivers, J)
<1>2. Cancel(e, p) = [senders |-> a, receivers |-> b]
  BY Zenon DEF Cancel
<1> HIDE DEF I, J
<1>3. a \in Seq(Waiters) /\ b \in Seq(Parties)
  BY Zenon, <1>1, EntriesFacts
<1>4. (e.senders = <<>> => a = <<>>) /\ (e.receivers = <<>> => b = <<>>)
  BY Zenon, EntriesEmpty
<1> HIDE DEF a, b
<1>5. QED
  BY <1>1, <1>2, <1>3, <1>4 DEF EndOK

LEMMA NoteFacts ==
  ASSUME NEW n, NoteOK(n), NEW p \in Parties
  PROVE  NoteOK(Signal(n)) /\ NoteOK(Wait(n, p)) /\ NoteOK(CancelWait(n, p))
<1>1. /\ n = [pending |-> n.pending, waiters |-> n.waiters]
      /\ n.pending \in BOOLEAN /\ n.waiters \in Seq(Parties)
      /\ n.pending => n.waiters = <<>>
  BY Zenon DEF NoteOK
<1>2. NoteOK(Signal(n))
  <2>1. CASE n.waiters # <<>>
    <3>1. Signal(n) = [pending |-> n.pending, waiters |-> Tail(n.waiters)]
      BY Zenon, <1>1, <2>1 DEF Signal
    <3>2. Tail(n.waiters) \in Seq(Parties)
      BY Zenon, <1>1, <2>1, TailFacts
    <3>3. QED
      BY <1>1, <2>1, <3>1, <3>2 DEF NoteOK
  <2>2. CASE n.waiters = <<>>
    <3>1. Signal(n) = [pending |-> TRUE, waiters |-> n.waiters]
      BY Zenon, <1>1, <2>2 DEF Signal
    <3>2. QED
      BY <1>1, <2>2, <3>1 DEF NoteOK
  <2>3. QED
    BY Zenon, <2>1, <2>2
<1>3. NoteOK(Wait(n, p))
  <2>1. CASE n.pending
    <3>1. Wait(n, p) = [pending |-> FALSE, waiters |-> n.waiters]
      BY Zenon, <1>1, <2>1 DEF Wait
    <3>2. QED
      BY <1>1, <3>1 DEF NoteOK
  <2>2. CASE ~n.pending
    <3>1. Wait(n, p) = [pending |-> n.pending, waiters |-> Append(n.waiters, p)]
      BY Zenon, <1>1, <2>2 DEF Wait
    <3>2. Append(n.waiters, p) \in Seq(Parties)
      BY Zenon, <1>1, AppendFacts
    <3>3. QED
      BY <1>1, <2>2, <3>1, <3>2 DEF NoteOK
  <2>3. QED
    BY Zenon, <2>1, <2>2
<1>4. NoteOK(CancelWait(n, p))
  <2> DEFINE I == {i \in DOMAIN n.waiters : n.waiters[i] # p}
             a == Entries(n.waiters, I)
  <2>1. CancelWait(n, p) = [pending |-> n.pending, waiters |-> a]
    BY <1>1 DEF CancelWait
  <2> HIDE DEF I
  <2>2. a \in Seq(Parties) /\ (n.waiters = <<>> => a = <<>>)
    BY Zenon, <1>1, EntriesFacts, EntriesEmpty
  <2> HIDE DEF a
  <2>3. QED
    BY <1>1, <2>1, <2>2 DEF NoteOK
<1>5. QED
  BY Zenon, <1>2, <1>3, <1>4

-----------------------------------------------------------------------------
(* The executor.                                                           *)

(* A poll changes the budget or the presence of its task alone, and that    *)
(* task is not parked.                                                     *)
LEMMA PollFacts ==
  ASSUME TaskInv, WakeInv, NEW t, MayPoll(t), setup' = setup,
         NEW q \in Seq(Spawned), NEW fin \in BOOLEAN, Polled(t, q, fin)
  PROVE  /\ tasks' \in [Live' -> Budgets] /\ Live' = IF fin THEN Live \ {t} ELSE Live
         /\ ready' = q /\ parked' = parked /\ mode' = mode
         /\ \A u \in Range(parked) : u \in Live' /\ IsDepleted(tasks'[u])
<1>1. t \in Live /\ ~IsDepleted(tasks[t]) /\ tasks \in [Live -> Budgets]
  BY Zenon DEF MayPoll, TaskInv
<1>2. \A u \in Range(parked) : u \in Live /\ IsDepleted(tasks[u])
  BY Zenon DEF WakeInv
<1>3. t \notin Range(parked)
  BY Zenon, <1>1, <1>2
<1>4. CASE fin
  <2>1. tasks' = [u \in Live \ {t} |-> tasks[u]] /\ ready' = q /\ parked' = parked /\ mode' = mode
    BY Zenon, <1>4 DEF Polled
  <2>2. Live' = Live \ {t}
    BY Zenon, <2>1 DEF Live
  <2>3. QED
    BY Zenon, <1>1, <1>2, <1>3, <1>4, <2>1, <2>2
<1>5. CASE ~fin
  <2>1. tasks' = [tasks EXCEPT ![t] = Charge(@, 1)] /\ ready' = q /\ parked' = parked /\ mode' = mode
    BY Zenon, <1>5 DEF Polled
  <2>2. Charge(tasks[t], 1) \in Budgets
    BY Zenon, <1>1, BudgetFacts
  <2>3. Live' = Live
    BY Zenon, <1>1, <2>1 DEF Live
  <2>4. QED
    BY Zenon, <1>1, <1>2, <1>3, <1>5, <2>1, <2>2, <2>3
<1>6. QED
  BY Zenon, <1>4, <1>5

(* What a poll of t may do to the others and keep their wake-ups: q is the  *)
(* queue it leaves.                                                        *)
NewMail == (delivered' \cup responses') \ (delivered \cup responses)

OthersWake(t, q) ==
    \A u \in Live \ {t} :
      u \in wakers /\ u \notin Range(q) =>
        u \in wakers' /\ \A m \in NewMail : m.to # u

NoMailLate(t, q) ==
    \A u \in Live \ {t} : u \in Range(ready) => u \in Range(q)

LEMMA PollWakes ==
  ASSUME TaskInv, WakeInv, NEW t, MayPoll(t), setup' = setup,
         NEW q \in Seq(Spawned), NEW fin \in BOOLEAN, Polled(t, q, fin),
         wakers' \subseteq Clients \cup Servers,
         \A u \in Spawned \ {t} : steps'[u] = steps[u],
         OthersWake(t, q), NoMailLate(t, q),
         fin \/ t \in Range(q)
           \/ (t \in wakers' /\ steps'[t] = 1 /\ \A m \in delivered' \cup responses' : m.to # t)
  PROVE  WakeInv'
<1>1. /\ Live' = (IF fin THEN Live \ {t} ELSE Live)
      /\ ready' = q /\ parked' = parked
      /\ \A u \in Range(parked) : u \in Live' /\ IsDepleted(tasks'[u])
  BY Zenon, PollFacts
<1>2. Clients' = Clients /\ Servers' = Servers
  BY Zenon, SameSetup
<1>3. Live \subseteq Spawned
  BY Zenon DEF TaskInv
<1>4. ASSUME NEW u \in Live', u \notin Range(q) \cup Range(parked)
      PROVE  u \in wakers' /\ steps'[u] = 1 /\ \A m \in delivered' \cup responses' : m.to # u
  <2>1. CASE u = t
    BY Zenon, <2>1, <1>1, <1>4
  <2>2. CASE u # t
    <3>1. u \in Live \ {t} /\ u \notin Range(ready) \cup Range(parked)
      BY Zenon, <2>2, <1>1, <1>4 DEF NoMailLate
    <3>2. u \in wakers /\ steps[u] = 1 /\ \A m \in delivered \cup responses : m.to # u
      BY Zenon, <3>1 DEF WakeInv
    <3>3. u \in wakers' /\ \A m \in NewMail : m.to # u
      BY Zenon, <3>1, <3>2, <1>4 DEF OthersWake
    <3>4. QED
      BY Zenon, <3>1, <3>2, <3>3, <1>3 DEF NewMail
  <2>3. QED
    BY Zenon, <2>1, <2>2
<1>5. QED
  BY Zenon, <1>1, <1>2, <1>4 DEF WakeInv

LEMMA PollTasks ==
  ASSUME TaskInv, WakeInv, NEW t, MayPoll(t), setup' = setup,
         NEW q \in Seq(Spawned), NEW fin \in BOOLEAN, Polled(t, q, fin),
         steps' \in [Parties -> Nat], \A u \in Clients \cup Servers : steps'[u] \in {0, 1}
  PROVE  TaskInv'
<1>1. /\ tasks' \in [Live' -> Budgets] /\ Live' \subseteq Live
      /\ ready' = q /\ parked' = parked /\ mode' = mode
  BY PollFacts
<1>2. Spawned' = Spawned /\ Clients' = Clients /\ Servers' = Servers
  BY Zenon, SameSetup
<1>3. QED
  BY Zenon, <1>1, <1>2 DEF TaskInv

LEMMA WakeFacts ==
  ASSUME NEW queue \in Seq(Spawned), NEW p \in Spawned
  PROVE  /\ Wake(queue, p) \in Seq(Spawned)
         /\ Range(queue) \subseteq Range(Wake(queue, p))
         /\ p \in wakers => p \in Range(Wake(queue, p))
BY AppendFacts DEF Wake, Woken

LEMMA HeadFacts ==
  ASSUME TaskInv, NEW t, MayPoll(t)
  PROVE  /\ t \in Live /\ t \in Spawned /\ t \in Parties
         /\ Tail(ready) \in Seq(Spawned) /\ Range(ready) = {t} \cup Range(Tail(ready))
BY Zenon, TailFacts, SetupFacts DEF TaskInv, MayPoll

-----------------------------------------------------------------------------
(* The first poll of a call.                                               *)

(* What CallSend reads, and the budgets it leaves.                         *)
LEMMA CallSendBasics ==
  ASSUME KernelInv, setup' = setup, NEW t, IsKind(t, "client"), MayPoll(t), CallSend(t)
  PROVE  /\ t \in Clients /\ t \in Parties /\ t \notin Servers /\ setup.use = "tasks"
         /\ Request(t) \in Msgs
         /\ steps[t] = 0 /\ steps' = [steps EXCEPT ![t] = 1]
         /\ steps' \in [Parties -> Nat] /\ steps'[t] = 1
         /\ \A u \in Parties \ {t} : steps'[u] = steps[u]
         /\ \A u \in Clients \cup Servers : steps'[u] \in {0, 1}
         /\ ~Offered(t) /\ ~Handed(t) /\ ~Answered(t) /\ ~Returned(t)
         /\ endpoint' = Send(endpoint, t, Request(t))
         /\ responses' = responses /\ frame' = frame /\ reply' = reply
         /\ results' = results /\ halted' = halted
<1>1. t \in Clients
  BY Zenon DEF IsKind, Clients
<1>2. t \in Parties /\ t \notin Servers /\ setup.use = "tasks" /\ Clients \cup Servers \subseteq Parties
  BY Zenon, <1>1, SetupFacts DEF KernelInv, TaskInv
<1>3. Request(t) \in Msgs
  BY Zenon, <1>1, MessageFacts DEF KernelInv, TaskInv
<1>4. steps[t] = 0 /\ steps' = [steps EXCEPT ![t] = 1] /\ steps \in [Parties -> Nat]
      /\ \A u \in Clients \cup Servers : steps[u] \in {0, 1}
  BY Zenon DEF CallSend, KernelInv, TaskInv
<1>5. /\ steps' \in [Parties -> Nat] /\ steps'[t] = 1
      /\ \A u \in Parties \ {t} : steps'[u] = steps[u]
  BY Zenon, <1>2, <1>4
<1>6. \A u \in Clients \cup Servers : steps'[u] \in {0, 1}
  BY Zenon, <1>2, <1>4, <1>5
<1>7. ~Offered(t) /\ ~Handed(t) /\ ~Answered(t) /\ ~Returned(t)
  BY Zenon, <1>1, <1>4 DEF KernelInv, MailInv, OnePlace
<1>8. QED
  BY Zenon, <1>1, <1>2, <1>3, <1>4, <1>5, <1>6, <1>7 DEF CallSend

LEMMA CallSendPays ==
  ASSUME KernelInv, setup' = setup, NEW t, IsKind(t, "client"), MayPoll(t), CallSend(t),
         Offered(t)' \/ Handed(t)', ~Answered(t)', ~Returned(t)'
  PROVE  PayInv'
<1> DEFINE c == budgets.client
           s == budgets.server
           p == Delegate(c, s, CallDelegate)
<1>1. c \in Budgets /\ s \in Budgets /\ c.capacity + s.capacity = ClientBudget
  BY Zenon DEF KernelInv, PayInv
<1>2. budgets' = [client |-> p[1], server |-> p[2]]
  BY Zenon DEF CallSend
<1>3. /\ CallDelegate \in Nat /\ CallDelegate # 0 /\ CallDelegate <= ClientBudget
      /\ ClientBudget \in 0 .. U32Max /\ U32Max \in Nat
  BY KernelIpcAssumption
<1>4. /\ p[1] \in Budgets /\ p[2] \in Budgets
      /\ p[1].capacity + p[2].capacity = c.capacity + s.capacity
      /\ p[1].consumed = c.consumed /\ p[2].consumed = s.consumed
      /\ (CallDelegate # 0 /\ CallDelegate <= Remaining(c) /\ s.capacity + CallDelegate <= U32Max) =>
           p[1].capacity = c.capacity - CallDelegate /\ p[2].capacity = s.capacity + CallDelegate
  BY SMTT(30), <1>1, <1>3, DelegateFacts
<1>5. t \in Clients /\ steps'[t] = 1 /\ steps[t] = 0
  BY Zenon, CallSendBasics
<1>6. ASSUME Clients = {t}
      PROVE  /\ p[1] = NewBudget(ClientBudget - CallDelegate)
             /\ p[2] = NewBudget(CallDelegate)
  <2>1. c = NewBudget(ClientBudget) /\ s = NewBudget(0)
    BY <1>5, <1>6 DEF KernelInv, PayInv
  <2>2. Remaining(c) = ClientBudget
    BY <2>1, <1>3 DEF Remaining, NewBudget
  <2>3. c.capacity = ClientBudget /\ c.consumed = 0 /\ s.capacity = 0 /\ s.consumed = 0
    BY <2>1 DEF NewBudget
  <2>4. /\ p[1].capacity = ClientBudget - CallDelegate /\ p[2].capacity = CallDelegate
        /\ p[1].consumed = 0 /\ p[2].consumed = 0
    BY <1>3, <1>4, <2>2, <2>3
  <2>5. QED
    BY Zenon, <1>4, <2>4 DEF Budgets, NewBudget
<1> HIDE DEF p, c, s
<1>7. /\ budgets' \in [client : Budgets, server : Budgets]
      /\ budgets'.client.capacity + budgets'.server.capacity = ClientBudget
  BY Zenon, <1>1, <1>2, <1>4
<1>8. Clients' = Clients
  BY Zenon, SameSetup
<1>9. ASSUME NEW u \in Clients, Clients = {u}
      PROVE  u = t /\ steps'[u] = 1
             /\ budgets' = [client |-> NewBudget(ClientBudget - CallDelegate),
                            server |-> NewBudget(CallDelegate)]
  BY Zenon, <1>2, <1>5, <1>6, <1>9
<1>10. QED
  BY <1>7, <1>8, <1>9 DEF PayInv

(* A receiver waits: the request is put aside for it.                      *)
LEMMA CallSendDelivers ==
  ASSUME KernelInv, setup' = setup, notification' = notification,
         NEW t, IsKind(t, "client"), MayPoll(t), CallSend(t), Delivers(endpoint)
  PROVE  KernelInv'
<1> DEFINE r == Head(endpoint.receivers)
           d == [to |-> r, from |-> t, msg |-> Request(t)]
           q == Wake(Tail(ready), r)
<1>1. /\ t \in Clients /\ t \in Parties /\ t \notin Servers /\ setup.use = "tasks"
      /\ Request(t) \in Msgs /\ steps[t] = 0
      /\ steps' \in [Parties -> Nat] /\ steps'[t] = 1
      /\ \A u \in Parties \ {t} : steps'[u] = steps[u]
      /\ \A u \in Clients \cup Servers : steps'[u] \in {0, 1}
      /\ ~Offered(t) /\ ~Handed(t) /\ ~Answered(t) /\ ~Returned(t)
      /\ endpoint' = Send(endpoint, t, Request(t))
      /\ responses' = responses /\ frame' = frame /\ reply' = reply
      /\ results' = results /\ halted' = halted
  BY Zenon, CallSendBasics
<1>2. /\ delivered' = Insert(delivered, d) /\ wakers' = (wakers \ {r}) \cup {t}
      /\ Polled(t, q, FALSE)
  BY Zenon DEF CallSend, Receiver
<1>3. /\ TaskInv /\ EndInv /\ QueueInv /\ MailInv /\ MoveInv /\ WakeInv
      /\ EndOK(endpoint) /\ endpoint.receivers # <<>>
  BY Zenon DEF KernelInv, EndInv, Delivers
<1>4. /\ EndOK(endpoint') /\ endpoint.senders = <<>> /\ endpoint'.senders = <<>>
      /\ endpoint'.receivers = Tail(endpoint.receivers)
  BY <1>1, <1>3, SendFacts
<1>5. /\ endpoint.receivers \in Seq(Parties)
      /\ r = endpoint.receivers[1] /\ 1 \in DOMAIN endpoint.receivers
      /\ \A i \in DOMAIN endpoint'.receivers :
           /\ i + 1 \in DOMAIN endpoint.receivers /\ i + 1 # 1
           /\ endpoint'.receivers[i] = endpoint.receivers[i + 1]
           /\ i \in Int
  BY <1>3, <1>4, TailFacts DEF EndOK
<1>6. /\ r \in Servers /\ steps[r] = 1 /\ \A e \in delivered : e.to # r
      /\ \A i \in DOMAIN endpoint.receivers :
           /\ endpoint.receivers[i] \in Servers /\ steps[endpoint.receivers[i]] = 1
           /\ \A e \in delivered : e.to # endpoint.receivers[i]
           /\ i # 1 => endpoint.receivers[i] # r
      /\ \A i, j \in DOMAIN endpoint.receivers :
           endpoint.receivers[i] = endpoint.receivers[j] => i = j
  BY SMTT(30), <1>1, <1>3, <1>5 DEF QueueInv
<1>7. /\ Spawned \subseteq Parties /\ Clients \cup Servers \subseteq Spawned
      /\ Clients \cap Servers = {} /\ r # t
  BY Zenon, <1>1, <1>3, <1>6, SetupFacts DEF TaskInv
<1>8. delivered' = delivered \cup {d}
  BY Zenon, <1>2, <1>6 DEF Insert
<1>9. Spawned' = Spawned /\ Clients' = Clients /\ Servers' = Servers
      /\ \A u : Body(u)' = Body(u) /\ Request(u)' = Request(u)
  BY Zenon, SameSetup
<1>10. d.to = r /\ d.from = t /\ d.msg = Request(t)
  BY Zenon
<1> HIDE DEF d, r
<1>11. q \in Seq(Spawned) /\ Range(Tail(ready)) \subseteq Range(q) /\ (r \in wakers => r \in Range(q))
  BY Zenon, <1>3, <1>6, <1>7, HeadFacts, WakeFacts
<1> HIDE DEF q
<1>12. TaskInv'
  BY Zenon, <1>1, <1>2, <1>3, <1>11, PollTasks
<1>13. EndInv'
  BY Zenon, <1>3, <1>4 DEF EndInv
<1>14. QueueInv'
  <2>1. ASSUME NEW i \in DOMAIN endpoint'.receivers
        PROVE  /\ endpoint'.receivers[i] \in Servers /\ steps'[endpoint'.receivers[i]] = 1
               /\ \A e \in delivered' : e.to # endpoint'.receivers[i]
    BY SMTT(30), <1>1, <1>5, <1>6, <1>7, <1>8, <1>10
  <2>2. ASSUME NEW i \in DOMAIN endpoint'.receivers, NEW j \in DOMAIN endpoint'.receivers,
               endpoint'.receivers[i] = endpoint'.receivers[j]
        PROVE  i = j
    <3>1. i + 1 = j + 1
      BY <2>2, <1>5, <1>6
    <3>2. QED
      BY <3>1, <1>5
  <2>3. DOMAIN endpoint'.senders = {}
    BY <1>4
  <2>4. QED
    BY Zenon, <2>1, <2>2, <2>3, <1>9 DEF QueueInv
<1>15. \A u \in Clients : /\ Offered(u)' <=> Offered(u)
                          /\ Handed(u)' <=> Handed(u) \/ u = t
                          /\ Answered(u)' <=> Answered(u)
                          /\ Returned(u)' <=> Returned(u)
  BY <1>1, <1>4, <1>8, <1>10 DEF Offered, Handed, Answered, Returned
<1>16. MailInv'
  <2>1. \A e \in delivered' : e.to \in Servers /\ e.from \in Clients /\ e.msg = Request(e.from)
    BY Zenon, <1>1, <1>3, <1>6, <1>8, <1>10 DEF MailInv
  <2>2. \A e, f \in delivered' : e.from = f.from => e = f
    BY SMTT(30), <1>1, <1>3, <1>8, <1>10 DEF MailInv, Handed
  <2>3. ASSUME NEW u \in Clients PROVE OnePlace(u)'
    <3>1. OnePlace(u)
      BY Zenon, <1>3 DEF MailInv
    <3>2. CASE u = t
      BY <3>2, <1>1, <1>15 DEF OnePlace
    <3>3. CASE u # t
      <4>1. steps'[u] = steps[u]
        BY Zenon, <3>3, <1>1, <1>7
      <4>2. QED
        BY Zenon, <3>1, <3>3, <4>1, <1>15 DEF OnePlace
    <3>4. QED
      BY Zenon, <3>2, <3>3
  <2>4. QED
    BY Zenon, <2>1, <2>2, <2>3, <1>1, <1>3, <1>9 DEF MailInv
<1>17. MoveInv'
  BY Zenon, <1>1, <1>3, <1>9, <1>15 DEF MoveInv
<1>18. PayInv'
  BY Zenon, <1>1, <1>15, CallSendPays
<1>19. WakeInv'
  <2>1. wakers' \subseteq Clients \cup Servers
    BY Zenon, <1>1, <1>2, <1>3 DEF WakeInv
  <2>2. OthersWake(t, q)
    BY SMTT(30), <1>1, <1>2, <1>8, <1>10, <1>11 DEF OthersWake, NewMail
  <2>3. NoMailLate(t, q)
    BY Zenon, <1>3, <1>11, HeadFacts DEF NoMailLate
  <2>4. t \in wakers' /\ \A m \in delivered' \cup responses' : m.to # t
    BY Zenon, <1>1, <1>2, <1>3, <1>7, <1>8, <1>10 DEF MailInv, Answered
  <2>5. \A u \in Spawned \ {t} : steps'[u] = steps[u]
    BY Zenon, <1>1, <1>7
  <2>6. QED
    BY Zenon, <1>1, <1>2, <1>3, <1>11, <2>1, <2>2, <2>3, <2>4, <2>5, PollWakes
<1>20. QED
  BY Zenon, <1>12, <1>13, <1>14, <1>16, <1>17, <1>18, <1>19 DEF KernelInv

(* Nobody waits: the request is offered.                                   *)
LEMMA CallSendQueues ==
  ASSUME KernelInv, setup' = setup, notification' = notification,
         NEW t, IsKind(t, "client"), MayPoll(t), CallSend(t), ~Delivers(endpoint)
  PROVE  KernelInv'
<1> DEFINE w == SendWaiter(t, Request(t))
           s == endpoint.senders
           q == Tail(ready)
<1>1. /\ t \in Clients /\ t \in Parties /\ t \notin Servers /\ setup.use = "tasks"
      /\ Request(t) \in Msgs /\ steps[t] = 0
      /\ steps' \in [Parties -> Nat] /\ steps'[t] = 1
      /\ \A u \in Parties \ {t} : steps'[u] = steps[u]
      /\ \A u \in Clients \cup Servers : steps'[u] \in {0, 1}
      /\ ~Offered(t) /\ ~Handed(t) /\ ~Answered(t) /\ ~Returned(t)
      /\ endpoint' = Send(endpoint, t, Request(t))
      /\ responses' = responses /\ frame' = frame /\ reply' = reply
      /\ results' = results /\ halted' = halted
  BY Zenon, CallSendBasics
<1>2. delivered' = delivered /\ wakers' = wakers \cup {t} /\ Polled(t, q, FALSE)
  BY Zenon DEF CallSend
<1>3. /\ TaskInv /\ EndInv /\ QueueInv /\ MailInv /\ MoveInv /\ WakeInv
      /\ EndOK(endpoint) /\ endpoint.receivers = <<>> /\ s \in Seq(Waiters)
  BY Zenon DEF KernelInv, EndInv, Delivers, EndOK
<1>4. /\ EndOK(endpoint') /\ endpoint'.receivers = <<>> /\ w \in Waiters
      /\ endpoint'.senders = Append(s, w)
  BY SMTT(30), <1>1, <1>3, SendFacts
<1>5. w.party = t /\ w.msg = Request(t)
  BY Zenon DEF SendWaiter
<1> HIDE DEF w
<1>6. /\ DOMAIN s = 1 .. Len(s) /\ DOMAIN endpoint'.senders = 1 .. Len(s) + 1 /\ Len(s) \in Nat
      /\ \A i \in DOMAIN s : endpoint'.senders[i] = s[i] /\ i \in DOMAIN endpoint'.senders
      /\ endpoint'.senders[Len(s) + 1] = w
      /\ \A i \in DOMAIN endpoint'.senders : i \in DOMAIN s \/ i = Len(s) + 1
      /\ Len(s) + 1 \in DOMAIN endpoint'.senders
  BY SMTT(30), <1>3, <1>4, AppendFacts
<1>7. /\ \A i \in DOMAIN s : s[i].party \in Clients /\ s[i].msg = Request(s[i].party) /\ s[i].party # t
      /\ \A i, j \in DOMAIN s : s[i].party = s[j].party => i = j
  BY Zenon, <1>1, <1>3 DEF QueueInv, Offered
<1> HIDE DEF s
<1>8. /\ Spawned \subseteq Parties /\ Clients \cup Servers \subseteq Spawned
      /\ Clients \cap Servers = {}
  BY Zenon, <1>3, SetupFacts DEF TaskInv
<1>9. Spawned' = Spawned /\ Clients' = Clients /\ Servers' = Servers
      /\ \A u : Body(u)' = Body(u) /\ Request(u)' = Request(u)
  BY Zenon, SameSetup
<1>10. q \in Seq(Spawned) /\ Range(ready) = {t} \cup Range(q)
  BY Zenon, <1>3, HeadFacts
<1> HIDE DEF q
<1>12. TaskInv'
  BY Zenon, <1>1, <1>2, <1>3, <1>10, PollTasks
<1>13. EndInv'
  BY Zenon, <1>3, <1>4 DEF EndInv
<1>14. QueueInv'
  <2>1. \A i \in DOMAIN endpoint'.senders :
          /\ endpoint'.senders[i].party \in Clients
          /\ endpoint'.senders[i].msg = Request(endpoint'.senders[i].party)
    BY SMTT(30), <1>1, <1>5, <1>6, <1>7
  <2>2. \A i, j \in DOMAIN endpoint'.senders :
          endpoint'.senders[i].party = endpoint'.senders[j].party => i = j
    BY Zenon, <1>5, <1>6, <1>7
  <2>3. DOMAIN endpoint'.receivers = {}
    BY <1>4
  <2>4. QED
    BY Zenon, <2>1, <2>2, <2>3, <1>9 DEF QueueInv
<1>15. \A u \in Clients : /\ Offered(u)' <=> Offered(u) \/ u = t
                          /\ Handed(u)' <=> Handed(u)
                          /\ Answered(u)' <=> Answered(u)
                          /\ Returned(u)' <=> Returned(u)
  <2>1. ASSUME NEW u \in Clients PROVE Offered(u)' <=> Offered(u) \/ u = t
    BY Zenon, <1>5, <1>6 DEF Offered, s
  <2>2. QED
    BY Zenon, <2>1, <1>1, <1>2 DEF Handed, Answered, Returned
<1>16. MailInv'
  <2>1. ASSUME NEW u \in Clients PROVE OnePlace(u)'
    <3>1. OnePlace(u)
      BY Zenon, <1>3 DEF MailInv
    <3>2. CASE u = t
      BY <3>2, <1>1, <1>15 DEF OnePlace
    <3>3. CASE u # t
      <4>1. steps'[u] = steps[u]
        BY Zenon, <3>3, <1>1, <1>8
      <4>2. QED
        BY Zenon, <3>1, <3>3, <4>1, <1>15 DEF OnePlace
    <3>4. QED
      BY Zenon, <3>2, <3>3
  <2>2. QED
    BY Zenon, <2>1, <1>1, <1>2, <1>3, <1>9 DEF MailInv
<1>17. MoveInv'
  BY Zenon, <1>1, <1>3, <1>9, <1>15 DEF MoveInv
<1>18. PayInv'
  BY Zenon, <1>1, <1>15, CallSendPays
<1>19. WakeInv'
  <2>1. wakers' \subseteq Clients \cup Servers
    BY Zenon, <1>1, <1>2, <1>3 DEF WakeInv
  <2>2. OthersWake(t, q) /\ NoMailLate(t, q)
    BY Zenon, <1>1, <1>2, <1>10 DEF OthersWake, NewMail, NoMailLate
  <2>3. t \in wakers' /\ \A m \in delivered' \cup responses' : m.to # t
    BY SMTT(30), <1>1, <1>2, <1>3, <1>8 DEF MailInv, Answered
  <2>4. \A u \in Spawned \ {t} : steps'[u] = steps[u]
    BY Zenon, <1>1, <1>8
  <2>5. QED
    BY Zenon, <1>1, <1>2, <1>3, <1>10, <2>1, <2>2, <2>3, <2>4, PollWakes
<1>20. QED
  BY Zenon, <1>12, <1>13, <1>14, <1>16, <1>17, <1>18, <1>19 DEF KernelInv

(* A later poll of a call.                                                 *)
LEMMA CallAwaitStep ==
  ASSUME KernelInv, setup' = setup, notification' = notification,
         NEW t, IsKind(t, "client"), MayPoll(t), CallAwait(t)
  PROVE  KernelInv'
<1> DEFINE q == Tail(ready)
<1>1. t \in Clients
  BY Zenon DEF IsKind, Clients
<1>2. /\ TaskInv /\ EndInv /\ QueueInv /\ MailInv /\ MoveInv /\ PayInv /\ WakeInv
      /\ steps \in [Parties -> Nat] /\ \A u \in Clients \cup Servers : steps[u] \in {0, 1}
  BY Zenon DEF KernelInv, TaskInv
<1>3. /\ steps[t] = 1 /\ steps' = steps /\ endpoint' = endpoint /\ delivered' = delivered
      /\ budgets' = budgets /\ frame' = frame /\ reply' = reply /\ halted' = halted
  BY Zenon DEF CallAwait
<1>4. /\ Spawned \subseteq Parties /\ Clients \cup Servers \subseteq Spawned
      /\ Clients \cap Servers = {}
  BY Zenon, <1>2, SetupFacts DEF TaskInv
<1>5. Spawned' = Spawned /\ Clients' = Clients /\ Servers' = Servers
      /\ \A u : Body(u)' = Body(u) /\ Request(u)' = Request(u)
  BY Zenon, SameSetup
<1>6. q \in Seq(Spawned) /\ Range(ready) = {t} \cup Range(q)
  BY Zenon, <1>2, HeadFacts
<1>7. EndInv'
  BY Zenon, <1>2, <1>3 DEF EndInv
<1>8. QueueInv'
  BY Zenon, <1>2, <1>3, <1>5 DEF QueueInv
<1> HIDE DEF q
<1>9. CASE ResponseFor(t) # {}
  <2> DEFINE resp == CHOOSE r \in ResponseFor(t) : TRUE
  <2>1. resp \in responses /\ resp.to = t
    BY Zenon, <1>9 DEF ResponseFor
  <2>2. /\ responses' = responses \ {resp} /\ wakers' = wakers
        /\ results' = [c \in DOMAIN results \cup {t} |-> IF c = t THEN resp.msg ELSE results[c]]
        /\ Polled(t, q, TRUE)
    BY Zenon, <1>9 DEF CallAwait, q
  <2> HIDE DEF resp
  <2>3. /\ \A u \in Clients : /\ Offered(u)' <=> Offered(u)
                              /\ Handed(u)' <=> Handed(u)
                              /\ Answered(u)' <=> Answered(u) /\ u # t
                              /\ Returned(u)' <=> Returned(u) \/ u = t
    <3>1. \A r \in responses : r.to = t => r = resp
      BY Zenon, <2>1, <1>2 DEF MailInv
    <3>2. ASSUME NEW u \in Clients PROVE Answered(u)' <=> Answered(u) /\ u # t
      BY Zenon, <3>1, <2>1, <2>2 DEF Answered
    <3>3. QED
      BY Zenon, <3>2, <2>2, <1>3 DEF Offered, Handed, Returned
  <2>4. Answered(t) /\ OnePlace(t)
    BY Zenon, <2>1, <1>1, <1>2 DEF Answered, MailInv
  <2>5. MailInv'
    <3>1. ASSUME NEW u \in Clients PROVE OnePlace(u)'
      <4>1. OnePlace(u)
        BY Zenon, <1>2 DEF MailInv
      <4>2. CASE u = t
        BY Zenon, <4>2, <1>3, <2>3, <2>4 DEF OnePlace
      <4>3. CASE u # t
        BY Zenon, <4>1, <4>3, <1>3, <2>3 DEF OnePlace
      <4>4. QED
        BY Zenon, <4>2, <4>3
    <3>2. /\ DOMAIN results' \subseteq Clients
          /\ \A u \in DOMAIN results' : results'[u] = Response(Request(u))
      BY Zenon, <2>1, <2>2, <1>1, <1>2 DEF MailInv
    <3>3. QED
      BY Zenon, <3>1, <3>2, <2>2, <1>2, <1>3, <1>5 DEF MailInv
  <2>6. MoveInv'
    BY Zenon, <2>3, <1>2, <1>3, <1>5 DEF MoveInv
  <2>7. PayInv'
    BY Zenon, <2>3, <2>4, <1>2, <1>3, <1>5 DEF PayInv
  <2>8. TaskInv'
    BY Zenon, <1>2, <1>3, <1>6, <2>2, PollTasks
  <2>9. WakeInv'
    <3>1. wakers' \subseteq Clients \cup Servers
      BY Zenon, <1>2, <2>2 DEF WakeInv
    <3>2. OthersWake(t, q) /\ NoMailLate(t, q)
      BY Zenon, <1>3, <1>6, <2>2 DEF OthersWake, NewMail, NoMailLate
    <3>3. QED
      BY Zenon, <1>2, <1>3, <1>6, <2>2, <3>1, <3>2, PollWakes
  <2>10. QED
    BY Zenon, <1>7, <1>8, <2>5, <2>6, <2>7, <2>8, <2>9 DEF KernelInv
<1>10. CASE ResponseFor(t) = {}
  <2>1. /\ responses' = responses /\ results' = results /\ wakers' = wakers \cup {t}
        /\ Polled(t, q, FALSE)
    BY Zenon, <1>10 DEF CallAwait, q
  <2>2. \A u \in Clients : /\ Offered(u)' <=> Offered(u)
                           /\ Handed(u)' <=> Handed(u)
                           /\ Answered(u)' <=> Answered(u)
                           /\ Returned(u)' <=> Returned(u)
    BY Zenon, <2>1, <1>3 DEF Offered, Handed, Answered, Returned
  <2>3. MailInv'
    BY Zenon, <2>1, <2>2, <1>2, <1>3, <1>5 DEF MailInv, OnePlace
  <2>4. MoveInv'
    BY Zenon, <2>2, <1>2, <1>3, <1>5 DEF MoveInv
  <2>5. PayInv'
    BY Zenon, <2>2, <1>2, <1>3, <1>5 DEF PayInv
  <2>6. TaskInv'
    BY Zenon, <1>2, <1>3, <1>6, <2>1, PollTasks
  <2>7. WakeInv'
    <3>1. wakers' \subseteq Clients \cup Servers
      BY Zenon, <1>1, <1>2, <2>1 DEF WakeInv
    <3>2. OthersWake(t, q) /\ NoMailLate(t, q)
      BY Zenon, <1>3, <1>6, <2>1 DEF OthersWake, NewMail, NoMailLate
    <3>3. t \in wakers' /\ \A m \in delivered' \cup responses' : m.to # t
      BY Zenon, <1>1, <1>2, <1>3, <1>4, <1>10, <2>1 DEF MailInv, ResponseFor
    <3>4. QED
      BY Zenon, <1>2, <1>3, <1>6, <2>1, <3>1, <3>2, <3>3, PollWakes
  <2>8. QED
    BY Zenon, <1>7, <1>8, <2>3, <2>4, <2>5, <2>6, <2>7 DEF KernelInv
<1>11. QED
  BY Zenon, <1>9, <1>10

-----------------------------------------------------------------------------
(* Serving a request.                                                      *)

(* The reply slot is free and the transfer is the client's to make, so      *)
(* on_request succeeds.                                                    *)
LEMMA RequestSucceeds ==
  ASSUME KernelInv, NEW s \in Clients, Offered(s) \/ Handed(s)
  PROVE  /\ ~RequestFails(Request(s))
         /\ Granted(Request(s)) \in [at : {"client", "server"}, rights : SUBSET FrameRights]
         /\ Granted(Request(s)).at = "client" => Granted(Request(s)).rights = FrameRights
         /\ Granted(Request(s)).at = "server" => frame.at = "server" \/ Body(s).caps = 1
<1>1. /\ OnePlace(s) /\ reply = NoReply
      /\ frame \in [at : {"client", "server"}, rights : SUBSET FrameRights]
      /\ frame.at = "client" => frame.rights = FrameRights
      /\ Body(s).caps = 1 /\ frame.at = "server" => Answered(s) \/ Returned(s)
      /\ setup \in Setups
  BY Zenon DEF KernelInv, TaskInv, MailInv, MoveInv
<1>2. ~Answered(s) /\ ~Returned(s)
  BY Zenon, <1>1 DEF OnePlace
<1>3. Body(s).caps \in {0, 1}
  BY Zenon, <1>1, SetupFacts
<1>4. CASE Body(s).caps = 0
  <2>1. Transfers(Request(s)) = <<>> /\ DOMAIN <<>> = {}
    BY <1>1, <1>4, MessageFacts
  <2>2. QED
    BY Zenon, <1>1, <2>1 DEF RequestFails, GrantFails, Granted
<1>5. CASE Body(s).caps = 1
  <2> DEFINE c == <<{"READ"}>>
  <2>1. Transfers(Request(s)) = c
    BY Zenon, <1>1, <1>5, MessageFacts
  <2>2. DOMAIN c = {1} /\ c[1] = {"READ"} /\ c # <<>>
    OBVIOUS
  <2>3. frame.at = "client" /\ frame.rights = FrameRights /\ {"READ"} \subseteq FrameRights
    BY Zenon, <1>1, <1>2, <1>5 DEF FrameRights
  <2> HIDE DEF c
  <2>4. ~RequestFails(Request(s))
    BY Zenon, <1>1, <2>1, <2>2, <2>3 DEF RequestFails, GrantFails
  <2>5. Granted(Request(s)) = [at |-> "server", rights |-> {"READ"}]
    BY Zenon, <2>1, <2>2 DEF Granted
  <2>6. QED
    BY <1>5, <2>3, <2>4, <2>5
<1>6. QED
  BY Zenon, <1>3, <1>4, <1>5

(* The server's work comes out of what the caller lent, and the rest goes   *)
(* back.                                                                   *)
LEMMA ServePays ==
  ASSUME NEW c \in Budgets, NEW s \in Budgets
  PROVE  LET worked == Charge(s, WorkUnits)
             back   == Delegate(worked, c, Remaining(worked))
         IN  /\ back[1] \in Budgets /\ back[2] \in Budgets
             /\ back[2].capacity + back[1].capacity = c.capacity + s.capacity
             /\ c = NewBudget(ClientBudget - CallDelegate) /\ s = NewBudget(CallDelegate) =>
                  Remaining(back[2]) = ClientBudget - WorkUnits /\ Remaining(back[1]) = 0
<1> DEFINE w == Charge(s, WorkUnits)
           n == Remaining(w)
           p == Delegate(w, c, n)
<1>1. /\ WorkUnits \in Nat /\ WorkUnits <= CallDelegate /\ CallDelegate \in Nat
      /\ CallDelegate <= ClientBudget /\ ClientBudget \in Nat /\ ClientBudget <= U32Max
      /\ U32Max \in Nat
  BY KernelIpcAssumption
<1>2. /\ w \in Budgets /\ w.capacity = s.capacity
      /\ w.consumed = IF s.consumed + WorkUnits > U32Max THEN U32Max ELSE s.consumed + WorkUnits
      /\ s.consumed \in Nat /\ s.capacity \in Nat /\ c.capacity \in Nat
  <2>1. s.consumed \in Nat /\ s.capacity \in Nat /\ c.capacity \in Nat
    BY <1>1 DEF Budgets
  <2>2. QED
    BY Zenon, <2>1, <1>1, BudgetFacts
<1> HIDE DEF w
<1>3. n \in Nat
  BY <1>2, BudgetFacts
<1> HIDE DEF n
<1>4. /\ p[1] \in Budgets /\ p[2] \in Budgets
      /\ p[1].capacity + p[2].capacity = w.capacity + c.capacity
      /\ p[1].consumed = w.consumed /\ p[2].consumed = c.consumed
      /\ (n # 0 /\ n <= Remaining(w) /\ c.capacity + n <= U32Max) =>
           p[1].capacity = w.capacity - n /\ p[2].capacity = c.capacity + n
      /\ ~(n # 0 /\ n <= Remaining(w) /\ c.capacity + n <= U32Max) => p[1] = w /\ p[2] = c
  BY <1>2, <1>3, DelegateFacts
<1> HIDE DEF p
<1>5. p[1].capacity \in Nat /\ p[2].capacity \in Nat
  BY <1>1, <1>4 DEF Budgets
<1>6. ASSUME c = NewBudget(ClientBudget - CallDelegate), s = NewBudget(CallDelegate)
      PROVE  Remaining(p[2]) = ClientBudget - WorkUnits /\ Remaining(p[1]) = 0
  <2>1. /\ c.capacity = ClientBudget - CallDelegate /\ c.consumed = 0
        /\ s.capacity = CallDelegate /\ s.consumed = 0
    BY Zenon, <1>6 DEF NewBudget
  <2>2. w.capacity = CallDelegate /\ w.consumed = WorkUnits
    BY <1>1, <1>2, <2>1
  <2>3. n = CallDelegate - WorkUnits /\ n = Remaining(w)
    BY <1>1, <2>2 DEF n, Remaining
  <2>4. CASE n = 0
    <3>1. p[1] = w /\ p[2] = c
      BY Zenon, <1>4, <2>4
    <3>2. QED
      BY <3>1, <1>1, <2>1, <2>2, <2>3, <2>4 DEF Remaining
  <2>5. CASE n # 0
    <3>1. p[1].capacity = w.capacity - n /\ p[2].capacity = c.capacity + n
      BY <1>1, <1>3, <1>4, <2>1, <2>3, <2>5
    <3>2. QED
      BY <3>1, <1>1, <1>4, <2>1, <2>2, <2>3 DEF Remaining
  <2>6. QED
    BY Zenon, <2>4, <2>5
<1>7. /\ p[1] \in Budgets /\ p[2] \in Budgets
      /\ p[2].capacity + p[1].capacity = c.capacity + s.capacity
  BY <1>2, <1>4, <1>5
<1>8. QED
  BY Zenon, <1>6, <1>7 DEF w, n, p

(* The request of s leaves its place.                                      *)
Taken(s) ==
    \A u \in Clients : /\ Offered(u)' <=> Offered(u) /\ u # s
                       /\ Handed(u)' <=> Handed(u) /\ u # s

LEMMA ServeStep ==
  ASSUME KernelInv, setup' = setup, NEW t \in Servers, MayPoll(t),
         NEW s \in Clients, Offered(s) \/ Handed(s), Serve(t, s, Request(s)),
         Taken(s), delivered' \subseteq delivered, results' = results,
         steps' \in [Parties -> Nat], steps'[t] \in {0, 1},
         \A u \in Parties \ {t} : steps'[u] = steps[u]
  PROVE  TaskInv' /\ MailInv' /\ MoveInv' /\ PayInv' /\ WakeInv'
<1> DEFINE a == [to |-> s, msg |-> Response(Request(s))]
           q == Wake(Tail(ready), s)
           worked == Charge(budgets.server, WorkUnits)
           back == Delegate(worked, budgets.client, Remaining(worked))
<1>1. /\ TaskInv /\ QueueInv /\ MailInv /\ MoveInv /\ PayInv /\ WakeInv /\ setup \in Setups
      /\ budgets.client \in Budgets /\ budgets.server \in Budgets /\ OnePlace(s)
      /\ \A u \in Clients \cup Servers : steps[u] \in {0, 1}
  BY Zenon DEF KernelInv, TaskInv, MailInv, PayInv
<1>2. /\ Spawned \subseteq Parties /\ Clients \cup Servers \subseteq Spawned
      /\ Clients \cap Servers = {} /\ s # t
      /\ \A u, v \in Clients : Body(u).caps = 1 /\ Body(v).caps = 1 => u = v
      /\ \A u \in Clients : Body(u).caps \in {0, 1}
  BY Zenon, <1>1, SetupFacts
<1>3. ~Answered(s) /\ ~Returned(s) /\ \A r \in responses : r.to # s
  BY Zenon, <1>1 DEF OnePlace, Answered
<1>4. /\ ~RequestFails(Request(s))
      /\ Granted(Request(s)) \in [at : {"client", "server"}, rights : SUBSET FrameRights]
      /\ Granted(Request(s)).at = "client" => Granted(Request(s)).rights = FrameRights
      /\ Granted(Request(s)).at = "server" => frame.at = "server" \/ Body(s).caps = 1
  BY Zenon, RequestSucceeds
<1>5. /\ reply' = NoReply /\ frame' = Granted(Request(s)) /\ halted' = halted
      /\ responses' = Insert(responses, [to |-> s, msg |-> Response([Request(s) EXCEPT !.badge = s])])
      /\ wakers' = wakers \ {s}
      /\ budgets' = [server |-> back[1], client |-> back[2]]
      /\ Polled(t, q, TRUE)
  BY Zenon, <1>4 DEF Serve, Consume
<1>6. Response([Request(s) EXCEPT !.badge = s]) = Response(Request(s))
  BY Zenon, <1>1, MessageFacts
<1>7. responses' = responses \cup {a}
  BY Zenon, <1>3, <1>5, <1>6 DEF Insert
<1>8. a.to = s /\ a.msg = Response(Request(s))
  BY Zenon
<1> HIDE DEF a
<1>9. /\ back[1] \in Budgets /\ back[2] \in Budgets
      /\ back[2].capacity + back[1].capacity = budgets.client.capacity + budgets.server.capacity
      /\ budgets.client = NewBudget(ClientBudget - CallDelegate)
           /\ budgets.server = NewBudget(CallDelegate) =>
           Remaining(back[2]) = ClientBudget - WorkUnits /\ Remaining(back[1]) = 0
  BY Zenon, <1>1, ServePays
<1> HIDE DEF back, worked
<1>10. Spawned' = Spawned /\ Clients' = Clients /\ Servers' = Servers
       /\ \A u : Body(u)' = Body(u) /\ Request(u)' = Request(u)
  BY Zenon, SameSetup
<1>11. /\ Tail(ready) \in Seq(Spawned) /\ Range(ready) = {t} \cup Range(Tail(ready)) /\ s \in Spawned
       /\ q \in Seq(Spawned) /\ Range(Tail(ready)) \subseteq Range(q) /\ (s \in wakers => s \in Range(q))
  BY Zenon, <1>1, <1>2, HeadFacts, WakeFacts
<1> HIDE DEF q
<1>12. \A u \in Clients : /\ Offered(u)' <=> Offered(u) /\ u # s
                          /\ Handed(u)' <=> Handed(u) /\ u # s
                          /\ Answered(u)' <=> Answered(u) \/ u = s
                          /\ Returned(u)' <=> Returned(u)
                          /\ steps'[u] = steps[u]
  BY Zenon, <1>2, <1>7, <1>8 DEF Taken, Answered, Returned
<1>13. steps[s] = 1
  BY Zenon, <1>1 DEF OnePlace
<1>14. TaskInv'
  <2>1. \A u \in Clients \cup Servers : steps'[u] \in {0, 1}
    BY Zenon, <1>1, <1>2
  <2>2. QED
    BY Zenon, <2>1, <1>1, <1>5, <1>11, PollTasks
<1>15. MailInv'
  <2>1. ASSUME NEW u \in Clients PROVE OnePlace(u)'
    <3>1. OnePlace(u)
      BY Zenon, <1>1 DEF MailInv
    <3>2. CASE u = s
      <4>1. /\ ~Offered(u)' /\ ~Handed(u)' /\ Answered(u)' /\ ~Returned(u)'
            /\ steps'[u] = 1
        BY Zenon, <3>2, <1>3, <1>12, <1>13
      <4>2. 0 # 1
        OBVIOUS
      <4>3. QED
        BY Zenon, <4>1, <4>2 DEF OnePlace
    <3>3. CASE u # s
      BY <3>1, <3>3, <1>12 DEF OnePlace
    <3>4. QED
      BY Zenon, <3>2, <3>3
  <2>2. /\ \A r \in responses' : r.to \in Clients /\ r.msg = Response(Request(r.to))
        /\ \A r, p \in responses' : r.to = p.to => r = p
    BY Zenon, <1>1, <1>3, <1>7, <1>8 DEF MailInv
  <2>3. QED
    BY Zenon, <2>1, <2>2, <1>1, <1>10 DEF MailInv
<1>16. MoveInv'
  <2>1. ASSUME NEW u \in Clients, Body(u).caps = 1, frame'.at = "server"
        PROVE  Answered(u)' \/ Returned(u)'
    BY Zenon, <2>1, <1>1, <1>2, <1>4, <1>5, <1>12 DEF MoveInv
  <2>2. QED
    BY Zenon, <2>1, <1>1, <1>4, <1>5, <1>10 DEF MoveInv
<1>17. PayInv'
  <2>1. /\ budgets' \in [client : Budgets, server : Budgets]
        /\ budgets'.client = back[2] /\ budgets'.server = back[1]
        /\ budgets'.client.capacity + budgets'.server.capacity = ClientBudget
    BY Zenon, <1>1, <1>5, <1>9 DEF PayInv
  <2>2. ASSUME NEW u \in Clients, Clients = {u}
        PROVE  /\ u = s /\ steps'[u] # 0 /\ ~Offered(u)' /\ ~Handed(u)'
               /\ Remaining(budgets'.client) = ClientBudget - WorkUnits
               /\ Remaining(budgets'.server) = 0
    <3>1. u = s /\ Clients = {s}
      BY Zenon, <2>2
    <3>2. budgets = [client |-> NewBudget(ClientBudget - CallDelegate),
                     server |-> NewBudget(CallDelegate)]
      BY Zenon, <3>1, <1>1 DEF PayInv
    <3>3. budgets.client = NewBudget(ClientBudget - CallDelegate)
          /\ budgets.server = NewBudget(CallDelegate)
      BY Zenon, <3>2
    <3>4. QED
      BY SMTT(30), <3>1, <3>3, <2>1, <1>9, <1>12, <1>13
  <2>3. QED
    BY Zenon, <2>1, <2>2, <1>10 DEF PayInv
<1>18. WakeInv'
  <2>1. wakers' \subseteq Clients \cup Servers
    BY Zenon, <1>1, <1>5 DEF WakeInv
  <2>2. NewMail \subseteq {a}
    BY Zenon, <1>7 DEF NewMail
  <2>3. OthersWake(t, q)
    BY Zenon, <2>2, <1>5, <1>8, <1>11 DEF OthersWake
  <2>4. NoMailLate(t, q)
    BY Zenon, <1>11 DEF NoMailLate
  <2>5. \A u \in Spawned \ {t} : steps'[u] = steps[u]
    BY Zenon, <1>2
  <2>6. QED
    BY Zenon, <1>1, <1>5, <1>11, <2>1, <2>3, <2>4, <2>5, PollWakes
<1>19. QED
  BY Zenon, <1>14, <1>15, <1>16, <1>17, <1>18

LEMMA ServerFacts ==
  ASSUME KernelInv, NEW t, IsKind(t, "server"), MayPoll(t)
  PROVE  /\ t \in Servers /\ t \in Parties /\ t \notin Clients /\ setup.use = "tasks"
         /\ TaskInv /\ EndInv /\ QueueInv /\ MailInv /\ MoveInv /\ PayInv /\ WakeInv
         /\ EndOK(endpoint) /\ setup \in Setups
         /\ steps \in [Parties -> Nat] /\ \A u \in Clients \cup Servers : steps[u] \in {0, 1}
         /\ Spawned \subseteq Parties /\ Clients \cup Servers \subseteq Spawned
<1>1. t \in Servers
  BY Zenon DEF IsKind, Servers
<1>2. QED
  BY Zenon, <1>1, SetupFacts DEF KernelInv, TaskInv, EndInv

(* A request was put aside for the receiver.                               *)
LEMMA RecvDeliveredStep ==
  ASSUME KernelInv, setup' = setup, notification' = notification,
         NEW t, IsKind(t, "server"), MayPoll(t), RecvDelivered(t)
  PROVE  KernelInv'
<1>1. /\ t \in Servers /\ t \in Parties /\ EndInv /\ QueueInv /\ MailInv
      /\ steps \in [Parties -> Nat] /\ steps[t] \in {0, 1}
  BY Zenon, ServerFacts
<1>2. PICK d \in delivered :
        /\ delivered' = delivered \ {d} /\ Serve(t, d.from, d.msg)
        /\ steps' = steps /\ endpoint' = endpoint /\ results' = results /\ met' = met
  BY Zenon DEF RecvDelivered
<1> DEFINE s == d.from
<1>3. s \in Clients /\ d.msg = Request(s) /\ Handed(s) /\ OnePlace(s)
      /\ \A e \in delivered : e.from = s => e = d
  BY Zenon, <1>1 DEF MailInv, Handed
<1>4. Taken(s)
  <2>1. ~Offered(s)
    BY Zenon, <1>3 DEF OnePlace
  <2>2. ASSUME NEW u \in Clients PROVE Handed(u)' <=> Handed(u) /\ u # s
    BY Zenon, <1>2, <1>3 DEF Handed
  <2>3. ASSUME NEW u \in Clients PROVE Offered(u)' <=> Offered(u) /\ u # s
    BY Zenon, <1>2, <2>1 DEF Offered
  <2>4. QED
    BY Zenon, <2>2, <2>3 DEF Taken
<1>5. Serve(t, s, Request(s)) /\ delivered' \subseteq delivered
  BY Zenon, <1>2, <1>3
<1> HIDE DEF s
<1>6. TaskInv' /\ MailInv' /\ MoveInv' /\ PayInv' /\ WakeInv'
  BY Zenon, <1>1, <1>2, <1>3, <1>4, <1>5, ServeStep
<1>7. EndInv'
  BY Zenon, <1>1, <1>2 DEF EndInv
<1>8. QueueInv'
  BY Zenon, <1>1, <1>2, <1>5, SameSetup DEF QueueInv
<1>9. QED
  BY Zenon, <1>6, <1>7, <1>8 DEF KernelInv

(* The receiver takes the oldest offer.                                    *)
LEMMA RecvTakes ==
  ASSUME KernelInv, setup' = setup, notification' = notification,
         NEW t, IsKind(t, "server"), MayPoll(t), RecvAsk(t), Receives(endpoint)
  PROVE  KernelInv'
<1> DEFINE w == Head(endpoint.senders)
           s == w.party
<1>1. /\ t \in Servers /\ t \in Parties /\ t \notin Clients /\ EndInv /\ QueueInv /\ MailInv
      /\ setup.use = "tasks" /\ EndOK(endpoint)
      /\ steps \in [Parties -> Nat] /\ Clients \cup Servers \subseteq Parties
  BY Zenon, ServerFacts
<1>2. /\ steps' = [steps EXCEPT ![t] = 1] /\ endpoint' = Recv(endpoint, t)
      /\ Serve(t, w.party, w.msg) /\ delivered' = delivered /\ results' = results
      /\ endpoint.senders # <<>>
  BY Zenon DEF RecvAsk, Sender, Receives
<1>3. /\ EndOK(endpoint') /\ endpoint.receivers = <<>> /\ endpoint'.receivers = <<>>
      /\ endpoint'.senders = Tail(endpoint.senders)
      /\ endpoint.senders \in Seq(Waiters)
  BY Zenon, <1>1, <1>2, RecvFacts DEF EndOK
<1>4. /\ w = endpoint.senders[1] /\ 1 \in DOMAIN endpoint.senders
      /\ \A i \in DOMAIN endpoint'.senders :
           /\ i + 1 \in DOMAIN endpoint.senders /\ i + 1 # 1 /\ i \in Int
           /\ endpoint'.senders[i] = endpoint.senders[i + 1]
      /\ \A i \in DOMAIN endpoint.senders :
           i = 1 \/ (i - 1 \in DOMAIN endpoint'.senders
                      /\ endpoint'.senders[i - 1] = endpoint.senders[i])
  BY SMTT(30), <1>2, <1>3, TailFacts
<1>5. /\ \A i \in DOMAIN endpoint.senders :
           /\ endpoint.senders[i].party \in Clients
           /\ endpoint.senders[i].msg = Request(endpoint.senders[i].party)
      /\ \A i, j \in DOMAIN endpoint.senders :
           endpoint.senders[i].party = endpoint.senders[j].party => i = j
  BY Zenon, <1>1 DEF QueueInv
<1>6. s \in Clients /\ w.msg = Request(s) /\ Offered(s) /\ OnePlace(s)
  BY SMTT(30), <1>1, <1>4, <1>5 DEF MailInv, Offered
<1> HIDE DEF s, w
<1>7. Taken(s)
  <2>1. ~Handed(s)
    BY Zenon, <1>6 DEF OnePlace
  <2>2. ASSUME NEW u \in Clients PROVE Offered(u)' <=> Offered(u) /\ u # s
    <3>1. ASSUME Offered(u)' PROVE Offered(u) /\ u # s
      BY <3>1, <1>4, <1>5 DEF Offered, s
    <3>2. ASSUME Offered(u), u # s PROVE Offered(u)'
      BY <3>2, <1>4 DEF Offered, s
    <3>3. QED
      BY Zenon, <3>1, <3>2
  <2>3. ASSUME NEW u \in Clients PROVE Handed(u)' <=> Handed(u) /\ u # s
    BY Zenon, <1>2, <2>1 DEF Handed
  <2>4. QED
    BY Zenon, <2>2, <2>3 DEF Taken
<1>8. /\ steps' \in [Parties -> Nat] /\ steps'[t] \in {0, 1}
      /\ \A u \in Parties \ {t} : steps'[u] = steps[u]
  BY Zenon, <1>1, <1>2
<1>9. Serve(t, s, Request(s)) /\ delivered' \subseteq delivered
  BY Zenon, <1>2, <1>6 DEF s
<1>10. TaskInv' /\ MailInv' /\ MoveInv' /\ PayInv' /\ WakeInv'
  BY Zenon, <1>1, <1>2, <1>6, <1>7, <1>8, <1>9, ServeStep
<1>11. EndInv'
  BY Zenon, <1>1, <1>3 DEF EndInv
<1>12. QueueInv'
  <2>1. \A i \in DOMAIN endpoint'.senders :
          /\ endpoint'.senders[i].party \in Clients
          /\ endpoint'.senders[i].msg = Request(endpoint'.senders[i].party)
    BY <1>4, <1>5
  <2>2. ASSUME NEW i \in DOMAIN endpoint'.senders, NEW j \in DOMAIN endpoint'.senders,
               endpoint'.senders[i].party = endpoint'.senders[j].party
        PROVE  i = j
    <3>1. i + 1 = j + 1
      BY <2>2, <1>4, <1>5
    <3>2. QED
      BY <3>1, <1>4
  <2>3. DOMAIN endpoint'.receivers = {}
    BY <1>3
  <2>4. QED
    BY Zenon, <2>1, <2>2, <2>3, SameSetup DEF QueueInv
<1>13. QED
  BY Zenon, <1>10, <1>11, <1>12 DEF KernelInv

(* What a poll that leaves the mail alone keeps.                           *)
LEMMA MailKept ==
  ASSUME KernelInv, setup' = setup,
         delivered' = delivered, responses' = responses, results' = results,
         budgets' = budgets, frame' = frame, reply' = reply, halted' = halted,
         \A u \in Clients : steps'[u] = steps[u] /\ (Offered(u)' <=> Offered(u))
  PROVE  MailInv' /\ MoveInv' /\ PayInv'
<1>1. Spawned' = Spawned /\ Clients' = Clients /\ Servers' = Servers
      /\ \A u : Body(u)' = Body(u) /\ Request(u)' = Request(u)
  BY Zenon, SameSetup
<1>2. MailInv /\ MoveInv /\ PayInv
  BY Zenon DEF KernelInv
<1>3. \A u \in Clients : /\ Handed(u)' <=> Handed(u)
                         /\ Answered(u)' <=> Answered(u)
                         /\ Returned(u)' <=> Returned(u)
  BY Zenon DEF Handed, Answered, Returned
<1>4. \A u \in Clients : OnePlace(u)'
  BY Zenon, <1>2, <1>3 DEF MailInv, OnePlace
<1>5. MailInv'
  BY Zenon, <1>1, <1>2, <1>4 DEF MailInv
<1>6. MoveInv'
  BY Zenon, <1>1, <1>2, <1>3 DEF MoveInv
<1>7. PayInv'
  BY Zenon, <1>1, <1>2, <1>3 DEF PayInv
<1>8. QED
  BY Zenon, <1>5, <1>6, <1>7

(* Nobody offers: the receiver joins the queue and registers.              *)
LEMMA RecvWaits ==
  ASSUME KernelInv, setup' = setup, notification' = notification,
         NEW t, IsKind(t, "server"), MayPoll(t), RecvAsk(t), ~Receives(endpoint)
  PROVE  KernelInv'
<1> DEFINE q == Tail(ready)
           r == endpoint.receivers
<1>1. /\ t \in Servers /\ t \in Parties /\ t \notin Clients /\ setup.use = "tasks"
      /\ TaskInv /\ EndInv /\ QueueInv /\ MailInv /\ WakeInv
      /\ EndOK(endpoint) /\ r \in Seq(Parties)
      /\ steps \in [Parties -> Nat] /\ \A u \in Clients \cup Servers : steps[u] \in {0, 1}
      /\ Spawned \subseteq Parties /\ Clients \cup Servers \subseteq Spawned
  BY Zenon, ServerFacts DEF EndOK
<1>2. /\ steps[t] = 0 /\ steps' = [steps EXCEPT ![t] = 1] /\ endpoint' = Recv(endpoint, t)
      /\ wakers' = wakers \cup {t} /\ Polled(t, q, FALSE)
      /\ responses' = responses /\ budgets' = budgets /\ frame' = frame /\ reply' = reply
      /\ halted' = halted /\ delivered' = delivered /\ results' = results
      /\ endpoint.senders = <<>> /\ \A d \in delivered : d.to # t
  BY Zenon DEF RecvAsk, Receives
<1>3. /\ EndOK(endpoint') /\ endpoint'.senders = <<>> /\ endpoint'.receivers = Append(r, t)
  BY Zenon, <1>1, <1>2, RecvFacts
<1>4. /\ DOMAIN r = 1 .. Len(r) /\ Len(r) \in Nat
      /\ \A i \in DOMAIN r : endpoint'.receivers[i] = r[i]
      /\ endpoint'.receivers[Len(r) + 1] = t
      /\ \A i \in DOMAIN endpoint'.receivers : i \in DOMAIN r \/ i = Len(r) + 1
  BY <1>1, <1>3, AppendFacts
<1>5. /\ \A i \in DOMAIN r : /\ r[i] \in Servers /\ steps[r[i]] = 1 /\ r[i] # t
                             /\ \A d \in delivered : d.to # r[i]
      /\ \A i, j \in DOMAIN r : r[i] = r[j] => i = j
  BY SMTT(30), <1>1, <1>2 DEF QueueInv
<1> HIDE DEF r
<1>6. /\ steps' \in [Parties -> Nat] /\ steps'[t] = 1
      /\ \A u \in Parties \ {t} : steps'[u] = steps[u]
  BY Zenon, <1>1, <1>2
<1>7. \A u \in Clients \cup Servers : steps'[u] \in {0, 1}
  BY Zenon, <1>1, <1>6
<1>8. q \in Seq(Spawned) /\ Range(ready) = {t} \cup Range(q)
  BY Zenon, <1>1, HeadFacts
<1> HIDE DEF q
<1>9. \A u \in Clients : steps'[u] = steps[u] /\ (Offered(u)' <=> Offered(u))
  BY SMTT(30), <1>1, <1>2, <1>3, <1>6 DEF Offered
<1>10. MailInv' /\ MoveInv' /\ PayInv'
  BY Zenon, <1>2, <1>9, MailKept
<1>11. TaskInv'
  BY Zenon, <1>1, <1>2, <1>6, <1>7, <1>8, PollTasks
<1>12. EndInv'
  BY Zenon, <1>1, <1>3 DEF EndInv
<1>13. QueueInv'
  <2>1. \A i \in DOMAIN endpoint'.receivers :
          /\ endpoint'.receivers[i] \in Servers /\ steps'[endpoint'.receivers[i]] = 1
          /\ \A d \in delivered' : d.to # endpoint'.receivers[i]
    BY SMTT(30), <1>1, <1>2, <1>4, <1>5, <1>6
  <2>2. \A i, j \in DOMAIN endpoint'.receivers :
          endpoint'.receivers[i] = endpoint'.receivers[j] => i = j
    BY Zenon, <1>4, <1>5
  <2>3. DOMAIN endpoint'.senders = {}
    BY <1>3
  <2>4. QED
    BY Zenon, <2>1, <2>2, <2>3, SameSetup DEF QueueInv
<1>14. WakeInv'
  <2>1. wakers' \subseteq Clients \cup Servers
    BY Zenon, <1>1, <1>2 DEF WakeInv
  <2>2. OthersWake(t, q) /\ NoMailLate(t, q)
    BY Zenon, <1>2, <1>8 DEF OthersWake, NewMail, NoMailLate
  <2>3. t \in wakers' /\ \A m \in delivered' \cup responses' : m.to # t
    BY Zenon, <1>1, <1>2 DEF MailInv
  <2>4. \A u \in Spawned \ {t} : steps'[u] = steps[u]
    BY Zenon, <1>1, <1>6
  <2>5. QED
    BY Zenon, <1>1, <1>2, <1>6, <1>8, <2>1, <2>2, <2>3, <2>4, PollWakes
<1>15. QED
  BY Zenon, <1>10, <1>11, <1>12, <1>13, <1>14 DEF KernelInv

LEMMA RecvPendingStep ==
  ASSUME KernelInv, setup' = setup, notification' = notification,
         NEW t, IsKind(t, "server"), MayPoll(t), RecvPending(t)
  PROVE  KernelInv'
<1> DEFINE q == Tail(ready)
<1>1. /\ t \in Servers /\ t \notin Clients
      /\ TaskInv /\ EndInv /\ QueueInv /\ MailInv /\ WakeInv
      /\ steps \in [Parties -> Nat] /\ \A u \in Clients \cup Servers : steps[u] \in {0, 1}
  BY Zenon, ServerFacts
<1>2. /\ steps[t] = 1 /\ steps' = steps /\ endpoint' = endpoint
      /\ wakers' = wakers \cup {t} /\ Polled(t, q, FALSE)
      /\ responses' = responses /\ budgets' = budgets /\ frame' = frame /\ reply' = reply
      /\ halted' = halted /\ delivered' = delivered /\ results' = results
      /\ \A d \in delivered : d.to # t
  BY Zenon DEF RecvPending
<1>3. q \in Seq(Spawned) /\ Range(ready) = {t} \cup Range(q)
  BY Zenon, <1>1, HeadFacts
<1> HIDE DEF q
<1>4. \A u \in Clients : steps'[u] = steps[u] /\ (Offered(u)' <=> Offered(u))
  BY Zenon, <1>2 DEF Offered
<1>5. MailInv' /\ MoveInv' /\ PayInv'
  BY Zenon, <1>2, <1>4, MailKept
<1>6. TaskInv'
  BY Zenon, <1>1, <1>2, <1>3, PollTasks
<1>7. EndInv' /\ QueueInv'
  BY Zenon, <1>1, <1>2, SameSetup DEF EndInv, QueueInv
<1>8. WakeInv'
  <2>1. wakers' \subseteq Clients \cup Servers
    BY Zenon, <1>1, <1>2 DEF WakeInv
  <2>2. OthersWake(t, q) /\ NoMailLate(t, q)
    BY Zenon, <1>2, <1>3 DEF OthersWake, NewMail, NoMailLate
  <2>3. t \in wakers' /\ \A m \in delivered' \cup responses' : m.to # t
    BY Zenon, <1>1, <1>2 DEF MailInv
  <2>4. QED
    BY Zenon, <1>1, <1>2, <1>3, <2>1, <2>2, <2>3, PollWakes
<1>9. QED
  BY Zenon, <1>5, <1>6, <1>7, <1>8 DEF KernelInv

LEMMA WorkerPolls ==
  ASSUME KernelInv, setup' = setup, notification' = notification,
         NEW t, IsKind(t, "worker"), MayPoll(t), WorkerStep(t)
  PROVE  KernelInv'
<1>1. /\ TaskInv /\ EndInv /\ QueueInv /\ MailInv /\ WakeInv
      /\ steps \in [Parties -> Nat] /\ \A u \in Clients \cup Servers : steps[u] \in {0, 1}
      /\ setup \in Setups
  BY Zenon DEF KernelInv, TaskInv
<1>2. t \notin Clients \cup Servers
  BY Zenon DEF IsKind, Clients, Servers
<1>3. /\ t \in Parties /\ t \in Spawned /\ Tail(ready) \in Seq(Spawned)
      /\ Range(ready) = {t} \cup Range(Tail(ready))
  BY Zenon, <1>1, HeadFacts
<1>4. /\ endpoint' = endpoint /\ wakers' = wakers /\ responses' = responses /\ budgets' = budgets
      /\ frame' = frame /\ reply' = reply /\ halted' = halted /\ delivered' = delivered
      /\ results' = results
  BY Zenon DEF WorkerStep, worldVars
<1>5. /\ steps' \in [Parties -> Nat]
      /\ \A u \in Parties \ {t} : steps'[u] = steps[u]
  <2>1. steps' = [steps EXCEPT ![t] = steps[t] + 1] \/ steps' = steps
    BY Zenon DEF WorkerStep
  <2>2. steps[t] + 1 \in Nat
    BY <1>1, <1>3
  <2>3. QED
    BY Zenon, <1>1, <1>3, <2>1, <2>2
<1>6. PICK q \in Seq(Spawned), fin \in BOOLEAN :
        /\ Polled(t, q, fin) /\ Range(Tail(ready)) \subseteq Range(q)
        /\ fin \/ t \in Range(q)
  <2>1. CASE steps[t] < Body(t).iters
    <3> DEFINE r == Tail(ready)
    <3>1. Polled(t, Append(r, t), FALSE) /\ r \in Seq(Spawned) /\ t \in Spawned
      BY Zenon, <2>1, <1>3 DEF WorkerStep, Woken
    <3> HIDE DEF r
    <3>2. Append(r, t) \in Seq(Spawned) /\ Range(Append(r, t)) = Range(r) \cup {t}
      BY SMTT(30), <3>1, AppendFacts
    <3>3. QED
      BY Zenon, <3>1, <3>2 DEF r
  <2>2. CASE ~(steps[t] < Body(t).iters)
    <3>1. Polled(t, Tail(ready), TRUE)
      BY Zenon, <2>2 DEF WorkerStep
    <3>2. QED
      BY Zenon, <3>1, <1>3
  <2>3. QED
    BY Zenon, <2>1, <2>2
<1>7. Spawned \subseteq Parties /\ Clients \cup Servers \subseteq Spawned
  BY Zenon, <1>1, SetupFacts
<1>8. \A u \in Clients : steps'[u] = steps[u] /\ (Offered(u)' <=> Offered(u))
  BY Zenon, <1>2, <1>4, <1>5, <1>7 DEF Offered
<1>9. MailInv' /\ MoveInv' /\ PayInv'
  BY Zenon, <1>4, <1>8, MailKept
<1>10. \A u \in Clients \cup Servers : steps'[u] = steps[u]
  BY Zenon, <1>2, <1>5, <1>7
<1>11. TaskInv'
  BY Zenon, <1>1, <1>5, <1>6, <1>10, PollTasks
<1>12. EndInv'
  BY Zenon, <1>1, <1>4 DEF EndInv
<1>13. QueueInv'
  BY SMTT(30), <1>1, <1>4, <1>10, SameSetup DEF QueueInv
<1>14. WakeInv'
  <2>1. wakers' \subseteq Clients \cup Servers
    BY Zenon, <1>1, <1>4 DEF WakeInv
  <2>2. OthersWake(t, q) /\ NoMailLate(t, q)
    BY Zenon, <1>3, <1>4, <1>6 DEF OthersWake, NewMail, NoMailLate
  <2>3. \A u \in Spawned \ {t} : steps'[u] = steps[u]
    BY Zenon, <1>5, <1>7
  <2>4. QED
    BY Zenon, <1>1, <1>6, <2>1, <2>2, <2>3, PollWakes
<1>15. QED
  BY Zenon, <1>9, <1>11, <1>12, <1>13, <1>14 DEF KernelInv

-----------------------------------------------------------------------------
(* The steps that leave the world alone.                                   *)

LEMMA WorldKept ==
  ASSUME KernelInv, setup' = setup, notification' = notification,
         UNCHANGED <<worldVars, steps, halted>>
  PROVE  /\ EndInv' /\ QueueInv' /\ MailInv' /\ MoveInv' /\ PayInv'
         /\ steps' = steps /\ wakers' = wakers
         /\ delivered' = delivered /\ responses' = responses
<1>1. /\ endpoint' = endpoint /\ wakers' = wakers /\ responses' = responses /\ budgets' = budgets
      /\ frame' = frame /\ reply' = reply /\ halted' = halted /\ delivered' = delivered
      /\ results' = results /\ steps' = steps
  BY Zenon DEF worldVars
<1>2. \A u \in Clients : steps'[u] = steps[u] /\ (Offered(u)' <=> Offered(u))
  BY Zenon, <1>1 DEF Offered
<1>3. MailInv' /\ MoveInv' /\ PayInv'
  BY Zenon, <1>1, <1>2, MailKept
<1>4. EndInv' /\ QueueInv'
  BY Zenon, <1>1, SameSetup DEF KernelInv, EndInv, QueueInv
<1>5. QED
  BY Zenon, <1>1, <1>3, <1>4

LEMMA SpawnStep ==
  ASSUME KernelInv, setup' = setup, notification' = notification, SpawnNext
  PROVE  KernelInv'
<1>1. /\ EndInv' /\ QueueInv' /\ MailInv' /\ MoveInv' /\ PayInv'
      /\ steps' = steps /\ wakers' = wakers /\ delivered' = delivered /\ responses' = responses
  BY Zenon, WorldKept DEF SpawnNext
<1>2. PICK t \in Spawned : Live = 1 .. t - 1 /\ Spawn(t, NewBudget(Body(t).budget))
  BY Zenon DEF SpawnNext
<1>3. TaskInv /\ WakeInv
  BY Zenon DEF KernelInv
<1>4. NewBudget(Body(t).budget) \in Budgets
  <2>1. Body(t).budget \in 0 .. U32Max /\ 0 \in 0 .. U32Max
    BY <1>3, SetupFacts, KernelIpcAssumption DEF TaskInv
  <2>2. QED
    BY Zenon, <2>1 DEF NewBudget, Budgets
<1> DEFINE b == NewBudget(Body(t).budget)
<1> HIDE DEF b
<1>5. /\ tasks' = [u \in Live \cup {t} |-> IF u = t THEN b ELSE tasks[u]]
      /\ ready' = Append(ready, t) /\ parked' = parked /\ mode' = mode
  BY Zenon, <1>2 DEF Spawn, b
<1>6. Live' = Live \cup {t}
  BY Zenon, <1>5 DEF Live
<1>7. t \notin Live
  BY <1>2, <1>3, SetupFacts DEF TaskInv
<1>8. Append(ready, t) \in Seq(Spawned) /\ Range(Append(ready, t)) = Range(ready) \cup {t}
  BY <1>3, AppendFacts DEF TaskInv
<1>9. Spawned' = Spawned /\ Clients' = Clients /\ Servers' = Servers
  BY Zenon, SameSetup
<1>10. TaskInv'
  <2>1. tasks' \in [Live' -> Budgets]
    BY Zenon, <1>3, <1>4, <1>5, <1>6 DEF TaskInv, b
  <2>2. QED
    BY Zenon, <2>1, <1>1, <1>3, <1>5, <1>6, <1>8, <1>9 DEF TaskInv
<1>11. WakeInv'
  <2>1. \A u \in Range(parked) : u \in Live' /\ IsDepleted(tasks'[u])
    BY Zenon, <1>3, <1>5, <1>6, <1>7 DEF WakeInv
  <2>2. QED
    BY Zenon, <2>1, <1>1, <1>3, <1>5, <1>6, <1>8, <1>9 DEF WakeInv
<1>12. QED
  BY Zenon, <1>1, <1>10, <1>11 DEF KernelInv

(* The loop pops a stale or a depleted task, returns, or is entered.        *)
LEMMA LoopStep ==
  ASSUME KernelInv, setup' = setup, notification' = notification, Loop \/ Enter
  PROVE  KernelInv'
<1>1. /\ EndInv' /\ QueueInv' /\ MailInv' /\ MoveInv' /\ PayInv'
      /\ steps' = steps /\ wakers' = wakers /\ delivered' = delivered /\ responses' = responses
  BY Zenon, WorldKept DEF Loop, Enter
<1>2. TaskInv /\ WakeInv /\ ready \in Seq(Spawned) /\ parked \in Seq(Spawned)
  BY Zenon DEF KernelInv, TaskInv
<1>3. Spawned' = Spawned /\ Clients' = Clients /\ Servers' = Servers
  BY Zenon, SameSetup
<1>4. CASE PopStale
  <2>1. /\ ready # <<>> /\ Head(ready) \notin Live /\ ready' = Tail(ready)
        /\ tasks' = tasks /\ parked' = parked /\ mode' = mode
    BY Zenon, <1>4 DEF PopStale
  <2>2. Live' = Live
    BY Zenon, <2>1 DEF Live
  <2>3. Tail(ready) \in Seq(Spawned) /\ Range(ready) = {Head(ready)} \cup Range(Tail(ready))
    BY Zenon, <1>2, <2>1, TailFacts
  <2>4. TaskInv'
    BY Zenon, <1>1, <1>2, <1>3, <2>1, <2>2, <2>3 DEF TaskInv
  <2>5. WakeInv'
    BY Zenon, <1>1, <1>2, <1>3, <2>1, <2>2, <2>3 DEF WakeInv
  <2>6. QED
    BY Zenon, <1>1, <2>4, <2>5 DEF KernelInv
<1>5. CASE PopDepleted
  <2> DEFINE h == Head(ready)
  <2>1. /\ ready # <<>> /\ h \in Live /\ IsDepleted(tasks[h]) /\ ready' = Tail(ready)
        /\ tasks' = tasks /\ parked' = Park(h) /\ mode' = mode
    BY Zenon, <1>5 DEF PopDepleted
  <2>2. Live' = Live
    BY Zenon, <2>1 DEF Live
  <2>3. /\ Tail(ready) \in Seq(Spawned) /\ Range(ready) = {h} \cup Range(Tail(ready))
        /\ h \in Spawned
    BY Zenon, <1>2, <2>1, TailFacts
  <2> HIDE DEF h
  <2>4. /\ Park(h) \in Seq(Spawned) /\ Range(Park(h)) = Range(parked) \cup {h}
        /\ \A i, j \in DOMAIN Park(h) : Park(h)[i] = Park(h)[j] => i = j
    <3>1. \A i, j \in DOMAIN parked : parked[i] = parked[j] => i = j
      BY Zenon, <1>2 DEF WakeInv
    <3>2. CASE h \in Range(parked)
      BY Zenon, <1>2, <3>1, <3>2 DEF Park
    <3>3. CASE h \notin Range(parked)
      <4> DEFINE a == Append(parked, h)
      <4>1. /\ a \in Seq(Spawned) /\ Range(a) = Range(parked) \cup {h}
            /\ DOMAIN parked = 1 .. Len(parked) /\ DOMAIN a = 1 .. Len(parked) + 1
            /\ Len(parked) \in Nat /\ a[Len(parked) + 1] = h
            /\ \A i \in 1 .. Len(parked) : a[i] = parked[i]
        BY <1>2, <2>3, AppendFacts
      <4>2. \A i \in DOMAIN parked : parked[i] # h
        BY Zenon, <3>3 DEF Range
      <4>3. Park(h) = a
        BY Zenon, <3>3 DEF Park
      <4> HIDE DEF a
      <4>4. \A i, j \in DOMAIN a : a[i] = a[j] => i = j
        BY <3>1, <4>1, <4>2
      <4>5. QED
        BY Zenon, <4>1, <4>3, <4>4
    <3>4. QED
      BY Zenon, <3>2, <3>3
  <2>5. TaskInv'
    BY Zenon, <1>1, <1>2, <1>3, <2>1, <2>2, <2>3, <2>4 DEF TaskInv
  <2>6. WakeInv'
    BY Zenon, <1>1, <1>2, <1>3, <2>1, <2>2, <2>3, <2>4 DEF WakeInv
  <2>7. QED
    BY Zenon, <1>1, <2>5, <2>6 DEF KernelInv
<1>6. CASE Return \/ Enter
  <2>1. /\ ready' = ready /\ tasks' = tasks /\ parked' = parked /\ mode' \in {"idle", "run"}
    BY Zenon, <1>6 DEF Return, Enter, Run
  <2>2. Live' = Live
    BY Zenon, <2>1 DEF Live
  <2>3. TaskInv'
    BY Zenon, <1>1, <1>2, <1>3, <2>1, <2>2 DEF TaskInv
  <2>4. WakeInv'
    BY Zenon, <1>1, <1>2, <1>3, <2>1, <2>2 DEF WakeInv
  <2>5. QED
    BY Zenon, <1>1, <2>3, <2>4 DEF KernelInv
<1>7. QED
  BY Zenon, <1>4, <1>5, <1>6 DEF Loop

(* A new period queues the parked tasks again.                             *)
LEMMA PeriodStep ==
  ASSUME KernelInv, setup' = setup, notification' = notification, Period
  PROVE  KernelInv'
<1> DEFINE I == {i \in DOMAIN parked : parked[i] \in Live}
           e == Entries(parked, I)
<1>1. /\ EndInv' /\ QueueInv' /\ MailInv' /\ MoveInv' /\ PayInv'
      /\ steps' = steps /\ wakers' = wakers /\ delivered' = delivered /\ responses' = responses
  BY Zenon, WorldKept DEF Period
<1>2. /\ TaskInv /\ WakeInv /\ ready \in Seq(Spawned) /\ parked \in Seq(Spawned)
      /\ tasks \in [Live -> Budgets]
  BY Zenon DEF KernelInv, TaskInv
<1>3. Spawned' = Spawned /\ Clients' = Clients /\ Servers' = Servers
  BY Zenon, SameSetup
<1>4. /\ tasks' = [t \in Live |-> Refilled(tasks[t])] /\ ready' = ready \o e
      /\ parked' = <<>> /\ mode' = "run"
  BY Zenon DEF Period, Replenish
<1>5. Live' = Live
  BY Zenon, <1>4 DEF Live
<1>6. \A i \in DOMAIN parked : i \in I
  BY Zenon, <1>2 DEF WakeInv, Range
<1> HIDE DEF I
<1>7. e \in Seq(Spawned) /\ Range(e) = {parked[i] : i \in I \cap DOMAIN parked}
  BY Zenon, <1>2, EntriesFacts
<1>8. Range(e) = Range(parked)
  BY Zenon, <1>6, <1>7 DEF Range
<1> HIDE DEF e
<1>9. ready \o e \in Seq(Spawned) /\ Range(ready \o e) = Range(ready) \cup Range(parked)
  BY <1>2, <1>7, <1>8, ConcatFacts
<1>10. tasks' \in [Live' -> Budgets]
  BY Zenon, <1>2, <1>4, <1>5, BudgetFacts
<1>11. parked' \in Seq(Spawned) /\ DOMAIN parked' = {} /\ Range(parked') = {}
  BY Zenon, <1>4, EmptyFacts
<1>12. TaskInv'
  BY Zenon, <1>1, <1>2, <1>3, <1>4, <1>5, <1>9, <1>10, <1>11 DEF TaskInv
<1>13. WakeInv'
  BY Zenon, <1>1, <1>2, <1>3, <1>4, <1>5, <1>9, <1>11 DEF WakeInv
<1>14. QED
  BY Zenon, <1>1, <1>12, <1>13 DEF KernelInv

LEMMA StrayStep ==
  ASSUME KernelInv, setup' = setup, notification' = notification, NEW t \in Spawned, Stray(t)
  PROVE  KernelInv'
<1>1. /\ EndInv' /\ QueueInv' /\ MailInv' /\ MoveInv' /\ PayInv'
      /\ steps' = steps /\ wakers' = wakers /\ delivered' = delivered /\ responses' = responses
  BY Zenon, WorldKept DEF Stray
<1>2. TaskInv /\ WakeInv /\ ready \in Seq(Spawned)
  BY Zenon DEF KernelInv, TaskInv
<1>3. Spawned' = Spawned /\ Clients' = Clients /\ Servers' = Servers
  BY Zenon, SameSetup
<1>4. ready' = Append(ready, t) /\ tasks' = tasks /\ parked' = parked /\ mode' = mode
  BY Zenon DEF Stray, StrayWake, Woken
<1>5. Live' = Live
  BY Zenon, <1>4 DEF Live
<1>6. Append(ready, t) \in Seq(Spawned) /\ Range(Append(ready, t)) = Range(ready) \cup {t}
  BY <1>2, AppendFacts
<1>7. TaskInv'
  BY Zenon, <1>1, <1>2, <1>3, <1>4, <1>5, <1>6 DEF TaskInv
<1>8. WakeInv'
  BY Zenon, <1>1, <1>2, <1>3, <1>4, <1>5, <1>6 DEF WakeInv
<1>9. QED
  BY Zenon, <1>1, <1>7, <1>8 DEF KernelInv

-----------------------------------------------------------------------------
(* The crate by itself.                                                    *)

LEMMA DirectStep ==
  ASSUME KernelInv, DirectNext
  PROVE  KernelInv'
<1>1. /\ setup.use = "objects" /\ tasks' = tasks /\ ready' = ready /\ parked' = parked
      /\ mode' = mode /\ setup' = setup /\ steps' = steps /\ wakers' = wakers
      /\ delivered' = delivered /\ responses' = responses /\ budgets' = budgets
      /\ frame' = frame /\ reply' = reply /\ results' = results /\ halted' = halted
  BY Zenon DEF DirectNext, execVars
<1>2. TaskInv /\ EndInv /\ MailInv /\ MoveInv /\ PayInv /\ WakeInv /\ setup \in Setups
  BY Zenon DEF KernelInv, TaskInv
<1>3. Clients = {} /\ Servers = {}
  BY Zenon, <1>1, <1>2, SetupFacts
<1>4. /\ Spawned' = Spawned /\ Clients' = Clients /\ Servers' = Servers
      /\ \A t : Body(t)' = Body(t) /\ Request(t)' = Request(t)
  BY Zenon, <1>1, SameSetup
<1>5. Live' = Live
  BY Zenon, <1>1 DEF Live
<1>6. EndInv'
  <2>1. EndOK(endpoint) /\ NoteOK(notification)
    BY Zenon, <1>2 DEF EndInv
  <2>2. PICK p \in Parties :
          \/ DirectSend(p) \/ DirectRecv(p) \/ DirectSignal \/ DirectWait(p) \/ DirectGiveUp(p)
    BY Zenon DEF DirectNext
  <2>3. DirectMsg(p) \in Msgs
    BY DEF Msgs
  <2>4. EndOK(endpoint')
    <3>1. \/ endpoint' = Send(endpoint, p, DirectMsg(p)) \/ endpoint' = Recv(endpoint, p)
          \/ endpoint' = Cancel(endpoint, p) \/ endpoint' = endpoint
      BY Zenon, <2>2 DEF DirectSend, DirectRecv, DirectSignal, DirectWait, DirectGiveUp
    <3>2. EndOK(Send(endpoint, p, DirectMsg(p)))
      BY Zenon, <2>1, <2>3, SendFacts
    <3>3. EndOK(Recv(endpoint, p))
      BY Zenon, <2>1, RecvFacts
    <3>4. EndOK(Cancel(endpoint, p))
      BY Zenon, <2>1, CancelFacts
    <3>5. QED
      BY Zenon, <2>1, <3>1, <3>2, <3>3, <3>4
  <2>5. NoteOK(notification')
    <3>1. \/ notification' = Signal(notification) \/ notification' = Wait(notification, p)
          \/ notification' = CancelWait(notification, p) \/ notification' = notification
      BY Zenon, <2>2 DEF DirectSend, DirectRecv, DirectSignal, DirectWait, DirectGiveUp
    <3>2. QED
      BY Zenon, <2>1, <3>1, NoteFacts
  <2>6. QED
    BY Zenon, <2>4, <2>5 DEF EndInv
<1>7. TaskInv'
  BY Zenon, <1>1, <1>2, <1>4, <1>5 DEF TaskInv
<1>8. QueueInv'
  BY Zenon, <1>1 DEF QueueInv
<1>9. MailInv'
  BY Zenon, <1>1, <1>2, <1>3, <1>4 DEF MailInv
<1>10. MoveInv' /\ PayInv'
  BY Zenon, <1>1, <1>2, <1>3, <1>4 DEF MoveInv, PayInv
<1>11. WakeInv'
  BY Zenon, <1>1, <1>2, <1>4, <1>5 DEF WakeInv
<1>12. QED
  BY Zenon, <1>6, <1>7, <1>8, <1>9, <1>10, <1>11 DEF KernelInv

-----------------------------------------------------------------------------
(* The invariant holds.                                                    *)

LEMMA KernelInit == Init => KernelInv
<1> SUFFICES ASSUME Init PROVE KernelInv
  BY Zenon
<1>1. /\ tasks = <<>> /\ ready = <<>> /\ parked = <<>> /\ mode = "admit"
      /\ setup \in Setups /\ steps = [t \in Parties |-> 0] /\ endpoint = NewEndpoint
      /\ notification = NewNotification /\ wakers = {} /\ delivered = {} /\ responses = {}
      /\ budgets = [client |-> NewBudget(ClientBudget), server |-> NewBudget(0)]
      /\ frame = [at |-> "client", rights |-> FrameRights] /\ reply = NoReply
      /\ results = <<>> /\ halted = FALSE
  BY Zenon DEF Init, ExecInit
<1>2. DOMAIN <<>> = {} /\ Range(<<>>) = {} /\ Live = {}
  BY <1>1 DEF Range, Live
<1>3. /\ Clients \cup Servers \subseteq Parties /\ Clients \subseteq Parties
  BY Zenon, <1>1, SetupFacts
<1>4. TaskInv
  <2>1. tasks \in [Live -> Budgets]
    BY <1>1, <1>2
  <2>2. ready \in Seq(Spawned) /\ parked \in Seq(Spawned)
    BY Zenon, <1>1, EmptyFacts
  <2>3. QED
    BY Zenon, <1>1, <1>2, <1>3, <2>1, <2>2 DEF TaskInv
<1>5. EndInv
  BY SMTT(30), <1>1 DEF EndInv, EndOK, NoteOK, NewEndpoint, NewNotification
<1>6. endpoint.senders = <<>> /\ endpoint.receivers = <<>>
  BY Zenon, <1>1 DEF NewEndpoint
<1>7. QueueInv
  BY Zenon, <1>2, <1>6 DEF QueueInv
<1>8. \A t : ~Offered(t) /\ ~Handed(t) /\ ~Answered(t) /\ ~Returned(t)
  BY Zenon, <1>1, <1>2, <1>6 DEF Offered, Handed, Answered, Returned
<1>9. \A t \in Clients : steps[t] = 0
  BY Zenon, <1>1, <1>3
<1>10. MailInv
  BY SMTT(30), <1>1, <1>2, <1>8, <1>9 DEF MailInv, OnePlace
<1>11. MoveInv
  BY Zenon, <1>1 DEF MoveInv
<1>12. PayInv
  <2>1. NewBudget(ClientBudget) \in Budgets /\ NewBudget(0) \in Budgets
        /\ NewBudget(ClientBudget).capacity + NewBudget(0).capacity = ClientBudget
    BY KernelIpcAssumption DEF NewBudget, Budgets
  <2>2. QED
    BY Zenon, <2>1, <1>1, <1>8 DEF PayInv
<1>13. WakeInv
  BY Zenon, <1>1, <1>2 DEF WakeInv
<1>14. QED
  BY Zenon, <1>4, <1>5, <1>7, <1>10, <1>11, <1>12, <1>13 DEF KernelInv

LEMMA KernelNext == KernelInv /\ [Next]_vars => KernelInv'
<1> SUFFICES ASSUME KernelInv, [Next]_vars PROVE KernelInv'
  BY Zenon
<1>1. CASE ExecNext
  <2>1. setup' = setup /\ notification' = notification
    BY Zenon, <1>1 DEF ExecNext
  <2>2. ASSUME NEW t \in Parties, PollClient(t) PROVE KernelInv'
    BY Zenon, <2>1, <2>2, CallSendDelivers, CallSendQueues, CallAwaitStep DEF PollClient
  <2>3. ASSUME NEW t \in Parties, PollServer(t) PROVE KernelInv'
    BY Zenon, <2>1, <2>3, RecvDeliveredStep, RecvTakes, RecvWaits, RecvPendingStep DEF PollServer
  <2>4. ASSUME NEW t \in Parties, PollWorker(t) PROVE KernelInv'
    BY Zenon, <2>1, <2>4, WorkerPolls DEF PollWorker
  <2>5. CASE SpawnNext
    BY Zenon, <2>1, <2>5, SpawnStep
  <2>6. CASE Enter \/ Loop
    BY Zenon, <2>1, <2>6, LoopStep
  <2>7. CASE Period
    BY Zenon, <2>1, <2>7, PeriodStep
  <2>8. ASSUME NEW t \in Spawned, Stray(t) PROVE KernelInv'
    BY Zenon, <2>1, <2>8, StrayStep
  <2>9. QED
    BY Zenon, <1>1, <2>2, <2>3, <2>4, <2>5, <2>6, <2>7, <2>8 DEF ExecNext, ExecStep
<1>2. CASE DirectNext
  BY Zenon, <1>2, DirectStep
<1>3. CASE DecodeWord \/ UNCHANGED vars
  <2>1. /\ UNCHANGED <<worldVars, steps, halted>> /\ setup' = setup /\ notification' = notification
        /\ tasks' = tasks /\ ready' = ready /\ parked' = parked /\ mode' = mode
    BY Zenon, <1>3 DEF DecodeWord, vars, execVars
  <2>2. /\ EndInv' /\ QueueInv' /\ MailInv' /\ MoveInv' /\ PayInv'
        /\ steps' = steps /\ wakers' = wakers /\ delivered' = delivered /\ responses' = responses
    BY Zenon, <2>1, WorldKept
  <2>3. TaskInv /\ WakeInv
    BY Zenon DEF KernelInv
  <2>4. Spawned' = Spawned /\ Clients' = Clients /\ Servers' = Servers
    BY Zenon, <2>1, SameSetup
  <2>5. Live' = Live
    BY Zenon, <2>1 DEF Live
  <2>6. TaskInv' /\ WakeInv'
    BY Zenon, <2>1, <2>2, <2>3, <2>4, <2>5 DEF TaskInv, WakeInv
  <2>7. QED
    BY Zenon, <2>2, <2>6 DEF KernelInv
<1>4. QED
  BY Zenon, <1>1, <1>2, <1>3 DEF Next

LEMMA KernelInvariant == Spec => []KernelInv
BY KernelInit, KernelNext, PTL DEF Spec

(* No wake-up is lost: whatever the interleaving of polls, stray wakes and  *)
(* periods, a live task that is neither queued nor parked has a waker       *)
(* registered and nothing has arrived for it.                              *)
THEOREM WakeupsKept == Spec => []NoLostWakeup
<1>1. KernelInv => NoLostWakeup
  <2> SUFFICES ASSUME KernelInv PROVE NoLostWakeup
    BY Zenon
  <2>1. /\ TaskInv /\ EndInv /\ QueueInv /\ MailInv /\ MoveInv /\ PayInv /\ WakeInv
        /\ setup \in Setups /\ EndOK(endpoint) /\ NoteOK(notification)
    BY Zenon DEF KernelInv, TaskInv, EndInv
  <2>2. Clients \cap Servers = {} /\ Workers \cap (Clients \cup Servers) = {}
    BY Zenon, <2>1, SetupFacts
  <2>3. \A s \in Seq(Spawned) : Range(s) \subseteq Spawned
    BY DEF Range
  <2>4. \A s \in Seq(Parties) : Range(s) \subseteq Parties
    BY DEF Range
  <2>5. /\ endpoint.senders \in Seq(Waiters) /\ endpoint.receivers \in Seq(Parties)
        /\ notification.waiters \in Seq(Parties)
    BY Zenon, <2>1 DEF EndOK, NoteOK
  <2>6. \A w \in Range(endpoint.senders) : w.party \in Parties /\ w.msg \in Msgs
    <3>1. Range(endpoint.senders) \subseteq Waiters
      BY <2>5 DEF Range
    <3>2. QED
      BY Zenon, <3>1 DEF Waiters
  <2>7. Blocked \subseteq Parties
    BY Zenon, <2>4, <2>5, <2>6 DEF Blocked, AtEndpoint, AtNotification
  <2>8. \A t \in Clients : Request(t) \in Msgs
    BY Zenon, <2>1, MessageFacts
  <2>9. \A t \in Live : tasks[t].capacity \in 0 .. U32Max /\ tasks[t].consumed \in 0 .. U32Max
    BY Zenon, <2>1 DEF TaskInv, Budgets
  <2>10. /\ budgets.client \in Budgets /\ budgets.server \in Budgets
    BY Zenon, <2>1 DEF PayInv
  <2>11. \A b \in {"client", "server"} :
           budgets[b].capacity \in 0 .. U32Max /\ budgets[b].consumed \in 0 .. U32Max
    BY Zenon, <2>10 DEF Budgets
  <2>12. TypeOK
    <3>1. Live \subseteq Spawned /\ Range(ready) \cup Range(parked) \subseteq Spawned
          /\ mode \in {"admit", "run", "idle"}
      BY Zenon, <2>1, <2>3 DEF TaskInv
    <3>2. \A d \in delivered : d.to \in Servers /\ d.from \in Clients /\ d.msg \in Msgs
      BY Zenon, <2>1, <2>8 DEF MailInv
    <3>3. (\A r \in responses : r.to \in Clients) /\ DOMAIN results \subseteq Clients
      BY Zenon, <2>1 DEF MailInv
    <3>4. /\ frame.at \in {"client", "server"} /\ frame.rights \subseteq FrameRights
          /\ reply \in Clients \cup {NoReply} /\ wakers \subseteq Clients \cup Servers
      BY Zenon, <2>1 DEF MoveInv, WakeInv
    <3>5. QED
      BY Zenon, <2>6, <2>7, <2>9, <2>11, <3>1, <3>2, <3>3, <3>4 DEF TypeOK
  <2>13. QED
    BY Zenon, <2>1, <2>2, <2>12 DEF NoLostWakeup, WakeInv, NoteOK
<1>2. QED
  BY <1>1, KernelInvariant, PTL

(* Every request that was sent is in exactly one place, its caller gets the *)
(* answer to it, and on_request never fails.                               *)
THEOREM RequestsServedOnce == Spec => []RequestOnce
<1>1. KernelInv => RequestOnce
  <2> SUFFICES ASSUME KernelInv PROVE RequestOnce
    BY Zenon
  <2>1. TaskInv /\ QueueInv /\ MailInv /\ MoveInv /\ setup \in Setups
    BY Zenon DEF KernelInv, TaskInv
  <2>2. ASSUME NEW t \in Clients
        PROVE  LET places == Cardinality({i \in DOMAIN endpoint.senders : endpoint.senders[i].party = t})
                             + Cardinality({d \in delivered : d.from = t})
                             + Cardinality({r \in responses : r.to = t})
                             + (IF t \in DOMAIN results THEN 1 ELSE 0)
               IN  places = steps[t]
    <3> DEFINE A == {i \in DOMAIN endpoint.senders : endpoint.senders[i].party = t}
               B == {d \in delivered : d.from = t}
               C == {r \in responses : r.to = t}
               D == IF t \in DOMAIN results THEN 1 ELSE 0
    <3>1. OnePlace(t) /\ steps[t] \in {0, 1}
      BY Zenon, <2>1 DEF MailInv, TaskInv
    <3>2. setup.use = "tasks"
      BY Zenon, <2>1, SetupFacts
    <3>3. (A = {} \/ \E i : A = {i}) /\ (Offered(t) <=> A # {})
      <4>1. \A i, j \in A : i = j
        BY <2>1, <3>2 DEF QueueInv
      <4>2. QED
        BY Zenon, <4>1 DEF Offered
    <3>4. (B = {} \/ \E d : B = {d}) /\ (Handed(t) <=> B # {})
      <4>1. \A d, e \in B : d = e
        BY Zenon, <2>1 DEF MailInv
      <4>2. QED
        BY Zenon, <4>1 DEF Handed
    <3>5. (C = {} \/ \E r : C = {r}) /\ (Answered(t) <=> C # {})
      <4>1. \A r, q \in C : r = q
        BY Zenon, <2>1 DEF MailInv
      <4>2. QED
        BY Zenon, <4>1 DEF Answered
    <3>6. D = IF Returned(t) THEN 1 ELSE 0
      BY Zenon DEF Returned
    <3> HIDE DEF A, B, C, D
    <3>7. /\ Cardinality(A) = IF Offered(t) THEN 1 ELSE 0
          /\ Cardinality(B) = IF Handed(t) THEN 1 ELSE 0
          /\ Cardinality(C) = IF Answered(t) THEN 1 ELSE 0
      BY Zenon, <3>3, <3>4, <3>5, FS_EmptySet, FS_Singleton
    <3>8. Cardinality(A) + Cardinality(B) + Cardinality(C) + D = steps[t]
      BY <3>1, <3>6, <3>7 DEF OnePlace
    <3>9. QED
      BY Zenon, <3>8 DEF A, B, C, D
  <2>3. QED
    BY Zenon, <2>1, <2>2 DEF RequestOnce, MoveInv, MailInv
<1>2. QED
  BY <1>1, KernelInvariant, PTL

(* Passive server: the capacity a call lends is conserved, and a lone       *)
(* caller has paid for the work, and nothing else, when its call returns.   *)
THEOREM CallersPay == Spec => []CallerPays
<1>1. KernelInv => CallerPays
  <2> SUFFICES ASSUME KernelInv PROVE CallerPays
    BY Zenon
  <2>1. PayInv /\ MailInv
    BY Zenon DEF KernelInv
  <2>2. ASSUME Cardinality(Clients) = 1, DOMAIN results = Clients
        PROVE  /\ Remaining(budgets.client) = ClientBudget - WorkUnits
               /\ Remaining(budgets.server) = 0
    <3>1. IsFiniteSet(Clients)
      <4>1. Clients \subseteq 1 .. Len(setup.bodies) /\ Len(setup.bodies) \in Nat
        BY KernelIpcAssumption DEF Clients, Spawned, KernelInv, TaskInv
      <4>2. IsFiniteSet(1 .. Len(setup.bodies))
        BY <4>1, FS_Interval
      <4>3. QED
        BY Zenon, <4>1, <4>2, FS_Subset
    <3>2. PICK t : Clients = {t}
      BY Zenon, <3>1, <2>2, FS_Singleton
    <3>3. t \in Clients /\ Returned(t)
      BY Zenon, <2>2, <3>2 DEF Returned
    <3>4. QED
      BY Zenon, <2>1, <3>2, <3>3 DEF PayInv
  <2>3. QED
    BY Zenon, <2>1, <2>2 DEF CallerPays, PayInv
<1>2. QED
  BY <1>1, KernelInvariant, PTL

-----------------------------------------------------------------------------
(* The endpoint implements the rendezvous.                                 *)

LEMMA ImageFacts ==
  ASSUME NEW S, NEW f, NEW s \in Seq(S)
  PROVE  /\ Image(f, s) \in Seq({f[y] : y \in S}) /\ Len(Image(f, s)) = Len(s)
         /\ \A i \in 1 .. Len(s) : Image(f, s)[i] = f[s[i]]
         /\ (Image(f, s) = <<>>) <=> (s = <<>>)
<1> DEFINE m == Image(f, s)
<1>1. Len(s) \in Nat /\ DOMAIN s = 1 .. Len(s) /\ \A i \in 1 .. Len(s) : s[i] \in S
  OBVIOUS
<1>2. m = [i \in 1 .. Len(s) |-> f[s[i]]]
  BY Zenon, <1>1 DEF Image
<1>3. /\ m \in Seq({f[y] : y \in S}) /\ Len(m) = Len(s)
      /\ \A i \in 1 .. Len(s) : m[i] = f[s[i]]
  BY <1>1, <1>2
<1> HIDE DEF m
<1>4. (m = <<>>) <=> (s = <<>>)
  BY <1>1, <1>3
<1>5. QED
  BY Zenon, <1>3, <1>4 DEF m

LEMMA ImageAppend ==
  ASSUME NEW S, NEW f, NEW s \in Seq(S), NEW x \in S
  PROVE  Image(f, Append(s, x)) = Append(Image(f, s), f[x])
<1> DEFINE m == Image(f, s)
           a == Append(s, x)
           b == Append(m, f[x])
           T == {f[y] : y \in S}
<1>1. /\ m \in Seq(T) /\ Len(m) = Len(s) /\ \A i \in 1 .. Len(s) : m[i] = f[s[i]]
      /\ Len(s) \in Nat /\ f[x] \in T
  BY ImageFacts
<1>2. /\ DOMAIN a = 1 .. Len(s) + 1 /\ a[Len(s) + 1] = x
      /\ \A i \in 1 .. Len(s) : a[i] = s[i]
  BY <1>1
<1> HIDE DEF m, T
<1>3. /\ b \in Seq(T) /\ Len(b) = Len(s) + 1 /\ b[Len(s) + 1] = f[x]
      /\ \A i \in 1 .. Len(s) : b[i] = m[i]
  BY <1>1
<1> HIDE DEF a, b
<1>4. b = [i \in 1 .. Len(s) + 1 |-> b[i]]
  BY <1>3
<1>5. \A i \in 1 .. Len(s) + 1 : b[i] = f[a[i]]
  BY <1>1, <1>2, <1>3
<1>6. b = [i \in DOMAIN a |-> f[a[i]]]
  BY Zenon, <1>2, <1>4, <1>5
<1>7. QED
  BY Zenon, <1>6 DEF Image, a, b, m

LEMMA ImageTail ==
  ASSUME NEW S, NEW f, NEW s \in Seq(S)
  PROVE  s # <<>> => /\ Image(f, s) # <<>> /\ Image(f, Tail(s)) = Tail(Image(f, s))
                     /\ Head(Image(f, s)) = f[Head(s)]
<1> DEFINE m == Image(f, s)
           a == Tail(s)
           b == Tail(m)
           T == {f[y] : y \in S}
<1>0. Len(s) \in Nat /\ DOMAIN s = 1 .. Len(s) /\ \A i \in 1 .. Len(s) : s[i] \in S
  OBVIOUS
<1>1. /\ m \in Seq(T) /\ Len(m) = Len(s) /\ \A i \in 1 .. Len(s) : m[i] = f[s[i]]
      /\ Len(s) \in Nat
  BY <1>0 DEF Image
<1> HIDE DEF m, T
<1> SUFFICES ASSUME s # <<>>
             PROVE  m # <<>> /\ Image(f, a) = b /\ Head(m) = f[Head(s)]
  BY Zenon DEF m
<1>2. m # <<>>
  BY <1>1
<1>3. /\ DOMAIN a = 1 .. Len(s) - 1 /\ Len(s) > 0 /\ Head(s) = s[1]
      /\ \A i \in 1 .. Len(s) - 1 : a[i] = s[i + 1]
  BY <1>1
<1>4. /\ b \in Seq(T) /\ Len(b) = Len(s) - 1 /\ Head(m) = m[1]
      /\ \A i \in 1 .. Len(s) - 1 : b[i] = m[i + 1]
  BY <1>1, <1>2
<1> HIDE DEF a, b
<1>5. b = [i \in 1 .. Len(s) - 1 |-> b[i]]
  BY <1>1, <1>3, <1>4
<1>6. \A i \in 1 .. Len(s) - 1 : b[i] = f[a[i]]
  BY SMTT(30), <1>1, <1>3, <1>4
<1>7. b = [i \in DOMAIN a |-> f[a[i]]]
  BY Zenon, <1>3, <1>5, <1>6
<1>8. m[1] = f[s[1]]
  BY <1>1, <1>3
<1>9. QED
  BY Zenon, <1>3, <1>4, <1>7, <1>8, <1>2 DEF Image, a

\* How Line shows an offer and a waiting receiver.
Shown == [w \in Waiters |-> [kind |-> "offer", party |-> w.party, msg |-> w.msg]]
ShownTaker == [p \in Parties |-> [kind |-> "take", party |-> p]]
LineOf(e) == Image(Shown, e.senders) \o Image(ShownTaker, e.receivers)

LEMMA LineFacts ==
  ASSUME NEW e, EndOK(e)
  PROVE  /\ e.receivers = <<>> => LineOf(e) = Image(Shown, e.senders)
         /\ e.senders = <<>> => LineOf(e) = Image(ShownTaker, e.receivers)
<1>1. e.senders \in Seq(Waiters) /\ e.receivers \in Seq(Parties)
  BY Zenon DEF EndOK
<1> DEFINE T == {Shown[w] : w \in Waiters}
           R == {ShownTaker[p] : p \in Parties}
           a == Image(Shown, e.senders)
           b == Image(ShownTaker, e.receivers)
<1>2. a \in Seq(T) /\ b \in Seq(R)
  BY <1>1, ImageFacts
<1>5. (e.senders = <<>> => a = <<>>) /\ (e.receivers = <<>> => b = <<>>)
  BY DEF Image
<1>6. LineOf(e) = a \o b
  BY Zenon DEF LineOf
<1> HIDE DEF a, b
<1>7. (b = <<>> => a \o b = a) /\ (a = <<>> => a \o b = b)
  BY <1>2
<1>8. QED
  BY Zenon, <1>5, <1>6, <1>7 DEF a, b

LEMMA LineIs ==
  ASSUME NEW e, EndOK(e)
  PROVE  LineOf(e) =
           [i \in DOMAIN e.senders |->
              [kind |-> "offer", party |-> e.senders[i].party, msg |-> e.senders[i].msg]]
           \o [i \in DOMAIN e.receivers |-> [kind |-> "take", party |-> e.receivers[i]]]
<1>1. /\ \A i \in DOMAIN e.senders : e.senders[i] \in Waiters
      /\ \A i \in DOMAIN e.receivers : e.receivers[i] \in Parties
  BY DEF EndOK
<1>2. Image(Shown, e.senders) =
        [i \in DOMAIN e.senders |->
           [kind |-> "offer", party |-> e.senders[i].party, msg |-> e.senders[i].msg]]
  BY Zenon, <1>1 DEF Image, Shown
<1>3. Image(ShownTaker, e.receivers) =
        [i \in DOMAIN e.receivers |-> [kind |-> "take", party |-> e.receivers[i]]]
  BY Zenon, <1>1 DEF Image, ShownTaker
<1>4. QED
  BY Zenon, <1>2, <1>3 DEF LineOf

LEMMA LineHead ==
  ASSUME NEW e, EndOK(e)
  PROVE  /\ e.senders # <<>> =>
              /\ LineOf(e) # <<>>
              /\ Head(LineOf(e)).kind = "offer"
              /\ Head(LineOf(e)).party = Head(e.senders).party
              /\ Head(LineOf(e)).msg = Head(e.senders).msg
         /\ e.receivers # <<>> =>
              /\ LineOf(e) # <<>>
              /\ Head(LineOf(e)).kind = "take"
              /\ Head(LineOf(e)).party = Head(e.receivers)
         /\ e.senders = <<>> /\ e.receivers = <<>> => LineOf(e) = <<>>
<1>1. e.senders \in Seq(Waiters) /\ e.receivers \in Seq(Parties)
      /\ (e.senders = <<>> \/ e.receivers = <<>>)
  BY Zenon DEF EndOK
<1>3. ASSUME e.senders # <<>>
      PROVE  LineOf(e) # <<>> /\ Head(LineOf(e)) = Shown[Head(e.senders)]
             /\ Head(e.senders) \in Waiters
  <2>1. Head(e.senders) \in Waiters
    BY Zenon, <1>1, <1>3, TailFacts
  <2>2. LineOf(e) = Image(Shown, e.senders)
    BY Zenon, <1>1, <1>3, LineFacts
  <2>3. QED
    BY Zenon, <1>1, <1>3, <2>1, <2>2, ImageTail
<1>4. ASSUME e.receivers # <<>>
      PROVE  LineOf(e) # <<>> /\ Head(LineOf(e)) = ShownTaker[Head(e.receivers)]
             /\ Head(e.receivers) \in Parties
  <2>1. Head(e.receivers) \in Parties
    BY Zenon, <1>1, <1>4, TailFacts
  <2>2. LineOf(e) = Image(ShownTaker, e.receivers)
    BY Zenon, <1>1, <1>4, LineFacts
  <2>3. QED
    BY Zenon, <1>1, <1>4, <2>1, <2>2, ImageTail
<1>5. ASSUME e.senders = <<>>, e.receivers = <<>> PROVE LineOf(e) = <<>>
  BY <1>5, LineFacts DEF Image
<1>6. QED
  BY <1>3, <1>4, <1>5 DEF Shown, ShownTaker

(* A send is an offer: it meets the taker at the head, or joins.            *)
LEMMA SendOffers ==
  ASSUME NEW e, EndOK(e), NEW from \in Parties, NEW msg \in Msgs
  PROVE  /\ e.receivers # <<>> => LineOf(Send(e, from, msg)) = Tail(LineOf(e))
         /\ e.receivers = <<>> =>
              LineOf(Send(e, from, msg)) =
                Append(LineOf(e), [kind |-> "offer", party |-> from, msg |-> msg])
<1> DEFINE g == Send(e, from, msg)
           w == SendWaiter(from, msg)
<1>1. e.senders \in Seq(Waiters) /\ e.receivers \in Seq(Parties)
  BY Zenon DEF EndOK
<1>3. /\ EndOK(g)
      /\ e.receivers # <<>> =>
           e.senders = <<>> /\ g.senders = <<>> /\ g.receivers = Tail(e.receivers)
      /\ e.receivers = <<>> =>
           g.receivers = <<>> /\ g.senders = Append(e.senders, w) /\ w \in Waiters
  BY Zenon, SendFacts
<1>4. w.party = from /\ w.msg = msg
  BY Zenon DEF SendWaiter
<1> HIDE DEF g, w
<1>5. ASSUME e.receivers # <<>> PROVE LineOf(g) = Tail(LineOf(e))
  <2>1. LineOf(g) = Image(ShownTaker, Tail(e.receivers)) /\ LineOf(e) = Image(ShownTaker, e.receivers)
    BY Zenon, <1>3, <1>5, LineFacts
  <2>2. QED
    BY Zenon, <1>1, <1>5, <2>1, ImageTail
<1>6. ASSUME e.receivers = <<>>
      PROVE  LineOf(g) = Append(LineOf(e), [kind |-> "offer", party |-> from, msg |-> msg])
  <2>1. LineOf(g) = Image(Shown, Append(e.senders, w)) /\ LineOf(e) = Image(Shown, e.senders)
    BY Zenon, <1>3, <1>6, LineFacts
  <2>2. Image(Shown, Append(e.senders, w)) = Append(Image(Shown, e.senders), Shown[w])
    BY Zenon, <1>1, <1>3, <1>6, ImageAppend
  <2>3. Shown[w] = [kind |-> "offer", party |-> from, msg |-> msg]
    BY Zenon, <1>3, <1>4, <1>6 DEF Shown
  <2>4. QED
    BY Zenon, <2>1, <2>2, <2>3
<1>7. QED
  BY Zenon, <1>5, <1>6 DEF g

LEMMA RecvTakesOffer ==
  ASSUME NEW e, EndOK(e), NEW by \in Parties
  PROVE  /\ e.senders # <<>> => LineOf(Recv(e, by)) = Tail(LineOf(e))
         /\ e.senders = <<>> =>
              LineOf(Recv(e, by)) = Append(LineOf(e), [kind |-> "take", party |-> by])
<1> DEFINE g == Recv(e, by)
<1>1. e.senders \in Seq(Waiters) /\ e.receivers \in Seq(Parties)
  BY Zenon DEF EndOK
<1>3. /\ EndOK(g)
      /\ e.senders # <<>> =>
           /\ e.receivers = <<>> /\ g.receivers = <<>> /\ g.senders = Tail(e.senders)
           /\ Head(e.senders) \in Waiters
      /\ e.senders = <<>> => g.senders = <<>> /\ g.receivers = Append(e.receivers, by)
  BY Zenon, RecvFacts
<1> HIDE DEF g
<1>4. ASSUME e.senders # <<>> PROVE LineOf(g) = Tail(LineOf(e))
  <2>1. LineOf(g) = Image(Shown, Tail(e.senders)) /\ LineOf(e) = Image(Shown, e.senders)
    BY Zenon, <1>3, <1>4, LineFacts
  <2>2. QED
    BY Zenon, <1>1, <1>4, <2>1, ImageTail
<1>5. ASSUME e.senders = <<>>
      PROVE  LineOf(g) = Append(LineOf(e), [kind |-> "take", party |-> by])
  <2>1. LineOf(g) = Image(ShownTaker, Append(e.receivers, by)) /\ LineOf(e) = Image(ShownTaker, e.receivers)
    BY Zenon, <1>3, <1>5, LineFacts
  <2>2. Image(ShownTaker, Append(e.receivers, by)) = Append(Image(ShownTaker, e.receivers), ShownTaker[by])
    BY Zenon, <1>1, ImageAppend
  <2>3. ShownTaker[by] = [kind |-> "take", party |-> by]
    BY Zenon DEF ShownTaker
  <2>4. QED
    BY Zenon, <2>1, <2>2, <2>3
<1>6. QED
  BY Zenon, <1>4, <1>5 DEF g

LEMMA CancelWithdraws ==
  ASSUME NEW e, EndOK(e), NEW p
  PROVE  LineOf(Cancel(e, p)) =
           Entries(LineOf(e), {i \in DOMAIN LineOf(e) : LineOf(e)[i].party # p})
<1> DEFINE I == {i \in DOMAIN e.senders : e.senders[i].party # p}
           J == {i \in DOMAIN e.receivers : e.receivers[i] # p}
           K == {i \in DOMAIN LineOf(e) : LineOf(e)[i].party # p}
           g == Cancel(e, p)
<1>1. /\ e.senders \in Seq(Waiters) /\ e.receivers \in Seq(Parties)
      /\ e.senders = <<>> \/ e.receivers = <<>>
  BY Zenon DEF EndOK
<1>2. EndOK(g)
  BY Zenon, CancelFacts
<1>3. g.senders = Entries(e.senders, I) /\ g.receivers = Entries(e.receivers, J)
  BY Zenon DEF Cancel
<1> HIDE DEF g
<1>4. CASE e.receivers = <<>>
  <2>1. g.receivers = <<>>
    BY Zenon, <1>3, <1>4, EntriesEmpty
  <2>2. LineOf(e) = Image(Shown, e.senders) /\ LineOf(g) = Image(Shown, g.senders)
    BY Zenon, <1>2, <1>4, <2>1, LineFacts
  <2>3. LineOf(e) = [i \in DOMAIN e.senders |-> Shown[e.senders[i]]]
    BY Zenon, <2>2 DEF Image
  <2>4. K = I
    BY <1>1, <2>3 DEF Shown
  <2>5. Entries(LineOf(e), I) = Image(Shown, Entries(e.senders, I))
    <3> HIDE DEF I
    <3> QED
      BY Zenon, <1>1, <2>2, EntriesImage
  <2>6. QED
    BY Zenon, <1>3, <2>2, <2>4, <2>5 DEF g
<1>5. CASE e.senders = <<>>
  <2>1. g.senders = <<>>
    BY Zenon, <1>3, <1>5, EntriesEmpty
  <2>2. LineOf(e) = Image(ShownTaker, e.receivers) /\ LineOf(g) = Image(ShownTaker, g.receivers)
    BY Zenon, <1>2, <1>5, <2>1, LineFacts
  <2>3. LineOf(e) = [i \in DOMAIN e.receivers |-> ShownTaker[e.receivers[i]]]
    BY Zenon, <2>2 DEF Image
  <2>4. K = J
    BY <1>1, <2>3 DEF ShownTaker
  <2>5. Entries(LineOf(e), J) = Image(ShownTaker, Entries(e.receivers, J))
    <3> HIDE DEF J
    <3> QED
      BY Zenon, <1>1, <2>2, EntriesImage
  <2>6. QED
    BY Zenon, <1>3, <2>2, <2>4, <2>5 DEF g
<1>6. QED
  BY Zenon, <1>1, <1>4, <1>5

-----------------------------------------------------------------------------
(* Every step of the kernel is a step of the line, or none.                *)

LEMMA LineNow ==
  ASSUME EndOK(endpoint)
  PROVE  Line = LineOf(endpoint)
BY Zenon, LineIs DEF Line

LEMMA LineThen ==
  ASSUME EndOK(endpoint')
  PROVE  Line' = LineOf(endpoint')
BY Zenon, LineIs DEF Line

LEMMA OfferStep ==
  ASSUME EndOK(endpoint), NEW p \in Parties, NEW m \in Msgs,
         endpoint' = Send(endpoint, p, m),
         met' = IF Delivers(endpoint) THEN [from |-> p, to |-> Receiver(endpoint), msg |-> m]
                ELSE met
  PROVE  Abs!LineNext
<1>1. EndOK(endpoint')
  BY Zenon, SendFacts
<1>2. Line = LineOf(endpoint) /\ Line' = LineOf(endpoint')
  BY Zenon, <1>1, LineNow, LineThen
<1>3. CASE endpoint.receivers # <<>>
  <2>1. /\ LineOf(endpoint) # <<>> /\ Head(LineOf(endpoint)).kind = "take"
        /\ Head(LineOf(endpoint)).party = Head(endpoint.receivers)
    BY Zenon, <1>3, LineHead
  <2>2. LineOf(endpoint') = Tail(LineOf(endpoint))
    BY Zenon, <1>3, SendOffers
  <2>3. met' = [from |-> p, to |-> Head(endpoint.receivers), msg |-> m]
    BY Zenon, <1>3 DEF Delivers, Receiver
  <2>4. Abs!Offer(p, m)
    BY Zenon, <1>2, <2>1, <2>2, <2>3 DEF Abs!Offer, Abs!Of, Abs!Meet
  <2>5. QED
    BY Zenon, <2>4 DEF Abs!LineNext
<1>4. CASE endpoint.receivers = <<>>
  <2>1. ~(LineOf(endpoint) # <<>> /\ Head(LineOf(endpoint)).kind = "take")
    BY Zenon, <1>4, LineHead
  <2>2. LineOf(endpoint') = Append(LineOf(endpoint), [kind |-> "offer", party |-> p, msg |-> m])
    BY Zenon, <1>4, SendOffers
  <2>3. met' = met
    BY Zenon, <1>4 DEF Delivers
  <2>4. Abs!Offer(p, m)
    BY Zenon, <1>2, <2>1, <2>2, <2>3 DEF Abs!Offer, Abs!Of, Abs!Join, Abs!Offering
  <2>5. QED
    BY Zenon, <2>4 DEF Abs!LineNext
<1>5. QED
  BY Zenon, <1>3, <1>4

LEMMA TakerStep ==
  ASSUME EndOK(endpoint), NEW p \in Parties, endpoint' = Recv(endpoint, p),
         met' = IF Receives(endpoint)
                THEN [from |-> Sender(endpoint).party, to |-> p, msg |-> Sender(endpoint).msg]
                ELSE met
  PROVE  Abs!LineNext
<1>1. EndOK(endpoint')
  BY Zenon, RecvFacts
<1>2. Line = LineOf(endpoint) /\ Line' = LineOf(endpoint')
  BY Zenon, <1>1, LineNow, LineThen
<1>3. CASE endpoint.senders # <<>>
  <2>1. /\ LineOf(endpoint) # <<>> /\ Head(LineOf(endpoint)).kind = "offer"
        /\ Head(LineOf(endpoint)).party = Head(endpoint.senders).party
        /\ Head(LineOf(endpoint)).msg = Head(endpoint.senders).msg
    BY Zenon, <1>3, LineHead
  <2>2. LineOf(endpoint') = Tail(LineOf(endpoint))
    BY Zenon, <1>3, RecvTakesOffer
  <2>3. met' = [from |-> Head(endpoint.senders).party, to |-> p,
                msg |-> Head(endpoint.senders).msg]
    BY Zenon, <1>3 DEF Receives, Sender
  <2>4. Abs!Taker(p)
    BY Zenon, <1>2, <2>1, <2>2, <2>3 DEF Abs!Taker, Abs!Of, Abs!Meet
  <2>5. QED
    BY Zenon, <2>4 DEF Abs!LineNext
<1>4. CASE endpoint.senders = <<>>
  <2>1. ~(LineOf(endpoint) # <<>> /\ Head(LineOf(endpoint)).kind = "offer")
    BY Zenon, <1>4, LineHead
  <2>2. LineOf(endpoint') = Append(LineOf(endpoint), [kind |-> "take", party |-> p])
    BY Zenon, <1>4, RecvTakesOffer
  <2>3. met' = met
    BY Zenon, <1>4 DEF Receives
  <2>4. Abs!Taker(p)
    BY Zenon, <1>2, <2>1, <2>2, <2>3 DEF Abs!Taker, Abs!Of, Abs!Join, Abs!Taking
  <2>5. QED
    BY Zenon, <2>4 DEF Abs!LineNext
<1>5. QED
  BY Zenon, <1>3, <1>4

LEMMA WithdrawStep ==
  ASSUME EndOK(endpoint), NEW p \in Parties, endpoint' = Cancel(endpoint, p), met' = met
  PROVE  Abs!LineNext
<1>1. EndOK(endpoint')
  BY Zenon, CancelFacts
<1>2. Line = LineOf(endpoint) /\ Line' = LineOf(endpoint')
  BY Zenon, <1>1, LineNow, LineThen
<1>3. LineOf(endpoint') =
        Entries(LineOf(endpoint), {i \in DOMAIN LineOf(endpoint) : LineOf(endpoint)[i].party # p})
  BY CancelWithdraws
<1>4. Line' = Entries(Line, {i \in DOMAIN Line : Line[i].party # p})
  BY Zenon, <1>2, <1>3
<1>5. \A s, I : Abs!Entries(s, I) = Entries(s, I)
  BY Zenon DEF Abs!Entries, Abs!Upto, Entries, Upto
<1>6. Abs!Withdraw(p)
  BY Zenon, <1>4, <1>5 DEF Abs!Withdraw
<1>7. QED
  BY Zenon, <1>6 DEF Abs!LineNext

LEMMA LineStep == KernelInv /\ [Next]_vars => [Abs!LineNext]_<<Line, met>>
<1> SUFFICES ASSUME KernelInv, [Next]_vars
             PROVE  Abs!LineNext \/ (Line' = Line /\ met' = met)
  BY Zenon
<1>1. EndOK(endpoint) /\ setup \in Setups
  BY Zenon DEF KernelInv, EndInv, TaskInv
<1>2. endpoint' = endpoint => Line' = Line
  BY Zenon DEF Line
<1>3. CASE ExecNext
  <2>1. setup' = setup
    BY Zenon, <1>3 DEF ExecNext
  <2>2. ASSUME NEW t \in Parties, PollClient(t), CallSend(t) PROVE Abs!LineNext
    <3>1. t \in Parties /\ Request(t) \in Msgs /\ endpoint' = Send(endpoint, t, Request(t))
      BY Zenon, <2>1, <2>2, CallSendBasics DEF PollClient
    <3>2. met' = IF Delivers(endpoint)
                   THEN [from |-> t, to |-> Receiver(endpoint), msg |-> Request(t)] ELSE met
      BY Zenon, <2>2 DEF CallSend
    <3>3. QED
      BY Zenon, <1>1, <3>1, <3>2, OfferStep
  <2>3. ASSUME NEW t \in Parties, PollServer(t), RecvAsk(t) PROVE Abs!LineNext
    <3>1. /\ endpoint' = Recv(endpoint, t)
          /\ met' = IF Receives(endpoint)
                      THEN [from |-> Sender(endpoint).party, to |-> t, msg |-> Sender(endpoint).msg]
                      ELSE met
      BY Zenon, <2>3 DEF RecvAsk
    <3>2. QED
      BY Zenon, <1>1, <2>3, <3>1, TakerStep
  <2>4. ASSUME NEW t, CallAwait(t) \/ RecvDelivered(t) \/ RecvPending(t) \/ WorkerStep(t)
        PROVE  endpoint' = endpoint /\ met' = met
    BY Zenon, <2>4 DEF CallAwait, RecvDelivered, RecvPending, WorkerStep, worldVars
  <2>5. ASSUME SpawnNext \/ Enter \/ Loop \/ Period \/ \E t \in Spawned : Stray(t)
        PROVE  endpoint' = endpoint /\ met' = met
    BY Zenon, <2>5 DEF SpawnNext, Enter, Loop, Period, Stray, worldVars
  <2>6. ASSUME NEW t \in Parties, PollClient(t) \/ PollServer(t) \/ PollWorker(t)
        PROVE  Abs!LineNext \/ (endpoint' = endpoint /\ met' = met)
    BY Zenon, <2>2, <2>3, <2>4, <2>6 DEF PollClient, PollServer, PollWorker
  <2>7. QED
    BY Zenon, <1>2, <1>3, <2>5, <2>6 DEF ExecNext, ExecStep
<1>4. CASE DirectNext
  <2>1. PICK p \in Parties :
          DirectSend(p) \/ DirectRecv(p) \/ DirectSignal \/ DirectWait(p) \/ DirectGiveUp(p)
    BY Zenon, <1>4 DEF DirectNext
  <2>2. CASE DirectSend(p)
    <3>1. DirectMsg(p) \in Msgs
      BY DEF Msgs
    <3>2. QED
      BY Zenon, <1>1, <2>2, <3>1, OfferStep DEF DirectSend
  <2>3. CASE DirectRecv(p)
    BY Zenon, <1>1, <2>3, TakerStep DEF DirectRecv
  <2>4. CASE DirectSignal \/ DirectWait(p)
    BY Zenon, <1>2, <2>4 DEF DirectSignal, DirectWait
  <2>5. CASE DirectGiveUp(p)
    BY Zenon, <1>1, <1>2, <2>5, WithdrawStep DEF DirectGiveUp
  <2>6. QED
    BY Zenon, <2>1, <2>2, <2>3, <2>4, <2>5
<1>5. CASE DecodeWord \/ UNCHANGED vars
  BY Zenon, <1>2, <1>5 DEF DecodeWord, vars, worldVars
<1>6. QED
  BY Zenon, <1>3, <1>4, <1>5 DEF Next

(* The endpoint implements the rendezvous: whoever uses it, futures on the  *)
(* executor or parties calling the crate, every send is an offer and every  *)
(* receive a taker at one line, met in order and once, and a cancelled      *)
(* waiter has left it.                                                     *)
THEOREM EndpointIsRendezvous == Spec => ImplementsRendezvous
<1>1. Init => Line = <<>> /\ met = NoMeeting
  <2> SUFFICES ASSUME Init PROVE Line = <<>> /\ met = NoMeeting
    BY Zenon
  <2>1. endpoint.senders = <<>> /\ endpoint.receivers = <<>> /\ EndOK(endpoint) /\ met = NoMeeting
    BY Zenon, KernelInit DEF Init, NewEndpoint, KernelInv, EndInv
  <2>2. QED
    BY Zenon, <2>1, LineNow, LineHead
<1>2. Init => Abs!LineInit
  BY Zenon, <1>1 DEF Abs!LineInit
<1>3. QED
  BY <1>2, LineStep, KernelInvariant, PTL DEF Spec, ImplementsRendezvous, Abs!LineSpec
=============================================================================
