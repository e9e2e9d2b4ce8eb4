------------------------- MODULE ConversationProofs -------------------------
(***************************************************************************)
(* Proofs about Conversation, for any sets of messages and texts and any   *)
(* bounds: what a request to the LLM holds, whoever else writes to the     *)
(* session meanwhile, and that every tool call in it has its result.       *)
(***************************************************************************)
EXTENDS Conversation, WellFoundedInduction, TLAPS

Asking == {"ask", "tools", "save_reply"}

\* The session of a message that is being handled is there; the one it would be given
\* is not there before.
SessionFits(m) ==
    /\ pc[m] \in {"save_user", "history"} \union Asking => session[m] \in Known
    /\ pc[m] \in {"idle", "session", "create"} => log[m] = None

LoopFits(m) ==
    /\ pc[m] \in Asking <=> request[m] # <<>>
    /\ pc[m] # "save_reply" => round[m] < MaxToolRounds
    /\ pc[m] = "tools" => pending[m] \in 1 .. MaxCalls
    /\ pc[m] = "save_reply" => reply[m] \in {"empty", "answer"}

\* CallsAnswered, and, while tools are run: of the last answer all calls but the
\* pending ones have their results, and of the others all.
Results(q, i) == \A j \in i+1 .. i+q[i].calls : j \in DOMAIN q /\ q[j].role = "tool"
Answered(m) ==
    LET q == request[m] IN
    /\ pc[m] = "ask" => \A i \in DOMAIN q : Results(q, i)
    /\ pc[m] = "tools" =>
         \E p \in DOMAIN q :
            /\ Len(q) + pending[m] = p + q[p].calls
            /\ \A j \in p+1 .. Len(q) : q[j].role = "tool" /\ q[j].calls = 0
            /\ \A i \in 1 .. p-1 : Results(q, i) /\ i + q[i].calls < p

\* QuestionAskedOnce for one message.
Question(m, q, i) ==
    /\ q[i] = Entry(m, "user", text[m], 0)
    /\ \A j \in DOMAIN q :
          /\ j < i => q[j].by # m \/ q[j].role = "system"
          /\ j > i => q[j].by = m /\ q[j].role \in {"assistant", "tool"}
Asked(m) == request[m] # <<>> => \E i \in DOMAIN request[m] : Question(m, request[m], i)

BeforeFits(m) == before[m] \subseteq {d \in Messages : pc[d] = "done"} /\ m \notin before[m]

\* A message is in the log when it has been saved, once as question, in its own words, and
\* once as answer.
Written(e, at, says) ==
    /\ e.calls = 0
    /\ e.role = "user" => e.text = says[e.by]
    /\ \/ e.role = "user" /\ at[e.by] \in {"history", "done", "failed"} \union Asking
       \/ e.role = "assistant" /\ at[e.by] = "done"
LogFits ==
    \A s \in Known :
        /\ \A i \in DOMAIN log[s] : Written(log[s][i], pc, text)
        /\ \A i, j \in DOMAIN log[s] : log[s][i] = log[s][j] => i = j

\* A request holds the window of the log as it was when the first n entries were
\* there; what has been added since is of messages that were not answered before.
Oldest(n) == IF n > Window THEN n - Window + 1 ELSE 1
RecalledAt(m, l, q, n) ==
    /\ \A i \in Oldest(n) .. n : ~Repeats(l[i], text[m]) => \E j \in DOMAIN q : q[j] = l[i]
    /\ \A j \in DOMAIN q : q[j].by # m => \E i \in Oldest(n) .. n : l[i] = q[j]
    /\ \A i \in n+1 .. Len(l) : l[i].by \notin before[m]
Recalled(m) ==
    request[m] # <<>> =>
        \E n \in 0 .. Len(log[session[m]]) : RecalledAt(m, log[session[m]], request[m], n)

Handled(m) ==
    SessionFits(m) /\ LoopFits(m) /\ Answered(m) /\ Asked(m) /\ BeforeFits(m) /\ Recalled(m)

CInv == TypeOK /\ LogFits /\ \A m \in Messages : Handled(m)

-----------------------------------------------------------------------------
(* The messages of the history that become part of a request *)

\* Every n up to L, if 0 is one and each step leads to the next.
LEMMA UpTo ==
    ASSUME NEW L \in Nat, NEW S \in SUBSET (0 .. L), 0 \in S,
           \A n \in 1 .. L : n - 1 \in S => n \in S
    PROVE  S = 0 .. L
<1> DEFINE T == (0 .. L) \ S
           R == OpToRel(<, Nat)
<1> HIDE DEF R
<1> SUFFICES ASSUME T # {} PROVE FALSE
  OBVIOUS
<1>1. T \in SUBSET Nat
  OBVIOUS
<1>2. PICK x \in T : \A y \in T : ~(<<y, x>> \in R)
  <2> HIDE DEF T
  <2>1. IsWellFoundedOn(R, Nat)
    BY NatLessThanWellFounded DEF R
  <2> QED BY <1>1, <2>1, WFMin, Zenon
<1>3. x - 1 \in 0 .. L /\ x \in Nat /\ x \in 1 .. L
  OBVIOUS
<1>4. x - 1 \notin T
  <2>1. x - 1 < x /\ x - 1 \in Nat
    BY <1>3
  <2>2. <<x - 1, x>> \in R
    BY <1>3, <2>1 DEF OpToRel, R
  <2> QED BY <1>2, <2>2
<1> QED BY <1>3, <1>4


\* How the next message of the history continues what has been kept of it so far.
Kept(s, t, i, g) ==
    IF i = 0 THEN <<>> ELSE IF Repeats(s[i], t) THEN g[i - 1] ELSE Append(g[i - 1], s[i])

\* The loop over the history computes such a sequence of prefixes: there is one for
\* each number of messages, so there is one.
LEMMA OthersRecursion ==
    ASSUME NEW s \in Seq(Entries), NEW t
    PROVE  \E f : /\ \A i \in 0 .. Len(s) : f[i] = Kept(s, t, i, f)
                  /\ Others(s, t) = f[Len(s)]
<1> DEFINE L == Len(s)
           S == {n \in 0 .. L : \E g \in [0 .. n -> Seq(Entries)] :
                                   \A i \in 0 .. n : g[i] = Kept(s, t, i, g)}
<1>1. L \in Nat /\ \A i \in 1 .. L : s[i] \in Entries
  OBVIOUS
<1> HIDE DEF L
<1>2. 0 \in S
  <2> DEFINE g == [i \in 0 .. 0 |-> <<>>]
  <2>1. g \in [0 .. 0 -> Seq(Entries)] /\ \A i \in 0 .. 0 : g[i] = Kept(s, t, i, g)
    BY DEF Kept
  <2> HIDE DEF g
  <2> QED BY <1>1, <2>1
<1>3. ASSUME NEW n \in 1 .. L, n - 1 \in S PROVE n \in S
  <2>1. PICK g \in [0 .. n - 1 -> Seq(Entries)] :
           \A i \in 0 .. n - 1 : g[i] = Kept(s, t, i, g)
    BY <1>3
  <2> DEFINE h == [i \in 0 .. n |-> IF i = n THEN Kept(s, t, n, g) ELSE g[i]]
  <2>2. n \in Nat /\ n # 0 /\ n - 1 \in 0 .. n - 1 /\ n \in 0 .. L /\ n - 1 # n
    BY <1>1
  <2>3. g[n - 1] \in Seq(Entries) /\ s[n] \in Entries
    BY <1>1, <2>2
  <2>4. Kept(s, t, n, g) \in Seq(Entries)
    BY <2>2, <2>3 DEF Kept
  <2>5. h \in [0 .. n -> Seq(Entries)]
    BY <2>2, <2>4
  <2>6. ASSUME NEW i \in 0 .. n PROVE h[i] = Kept(s, t, i, h)
    <3>1. CASE i = n
      <4>1. h[n - 1] = g[n - 1]
        BY <2>2
      <4> QED BY <2>2, <3>1, <4>1 DEF Kept
    <3>2. CASE i # n
      <4>1. i \in 0 .. n - 1 /\ (i # 0 => i - 1 \in 0 .. n - 1 /\ i - 1 # n /\ i - 1 \in 0 .. n)
        BY <2>2, <3>2
      <4>2. h[i] = g[i] /\ (i # 0 => h[i - 1] = g[i - 1])
        BY <3>2, <4>1
      <4>3. g[i] = Kept(s, t, i, g)
        BY <2>1, <4>1
      <4> HIDE DEF h
      <4> QED BY <4>2, <4>3 DEF Kept
    <3> QED BY <3>1, <3>2
  <2> HIDE DEF h
  <2> QED BY <2>2, <2>5, <2>6
<1>4. L \in S
  <2> HIDE DEF S
  <2>1. S \in SUBSET (0 .. L)
    BY DEF S
  <2>2. S = 0 .. L
    BY <1>1, <1>2, <1>3, <2>1, UpTo
  <2> QED BY <1>1, <2>2
<1>5. PICK g \in [0 .. L -> Seq(Entries)] : \A i \in 0 .. L : g[i] = Kept(s, t, i, g)
  BY <1>4
<1> DEFINE F == CHOOSE f : f = [i \in 0 .. Len(s) |->
                   IF i = 0 THEN <<>>
                   ELSE IF Repeats(s[i], t) THEN f[i - 1] ELSE Append(f[i - 1], s[i])]
<1>6. g = [i \in 0 .. Len(s) |->
              IF i = 0 THEN <<>>
              ELSE IF Repeats(s[i], t) THEN g[i - 1] ELSE Append(g[i - 1], s[i])]
  BY <1>5 DEF Kept, L
<1>7. F = [i \in 0 .. Len(s) |->
              IF i = 0 THEN <<>>
              ELSE IF Repeats(s[i], t) THEN F[i - 1] ELSE Append(F[i - 1], s[i])]
  BY <1>6
<1>8. Others(s, t) = F[Len(s)]
  BY DEF Others
<1> HIDE DEF F
<1>9. \A i \in 0 .. Len(s) : F[i] = Kept(s, t, i, F)
  BY <1>7 DEF Kept
<1> QED BY <1>8, <1>9

\* What is kept of the history is in it and no repetition, and the rest is kept.
LEMMA OthersKept ==
    ASSUME NEW s \in Seq(Entries), NEW t
    PROVE  LET r == Others(s, t) IN
           /\ r \in Seq(Entries)
           /\ \A j \in DOMAIN r : \E k \in DOMAIN s : r[j] = s[k] /\ ~Repeats(s[k], t)
           /\ \A k \in DOMAIN s : ~Repeats(s[k], t) => \E j \in DOMAIN r : r[j] = s[k]
<1> DEFINE L == Len(s)
<1>1. L \in Nat /\ DOMAIN s = 1 .. L /\ \A i \in 1 .. L : s[i] \in Entries
  OBVIOUS
<1>2. PICK f : /\ \A i \in 0 .. L : f[i] = Kept(s, t, i, f)
               /\ Others(s, t) = f[L]
  BY OthersRecursion
<1> HIDE DEF L
<1> DEFINE From(n) == /\ f[n] \in Seq(Entries)
                      /\ \A j \in DOMAIN f[n] :
                            \E k \in 1 .. n : f[n][j] = s[k] /\ ~Repeats(s[k], t)
           All(n) == \A k \in 1 .. n : ~Repeats(s[k], t) => \E j \in DOMAIN f[n] : f[n][j] = s[k]
           S == {n \in 0 .. L : From(n) /\ All(n)}
<1>3. 0 \in S
  <2>1. f[0] = <<>> /\ 0 \in 0 .. L
    BY <1>1, <1>2 DEF Kept
  <2>2. <<>> \in Seq(Entries) /\ DOMAIN <<>> = {} /\ 1 .. 0 = {}
    OBVIOUS
  <2>3. From(0)
    BY <2>1, <2>2
  <2>4. All(0)
    BY <2>2
  <2> HIDE DEF From, All
  <2> QED BY <2>1, <2>3, <2>4
<1>4. ASSUME NEW n \in 1 .. L, n - 1 \in S PROVE n \in S
  <2>1. n \in 0 .. L /\ n # 0 /\ s[n] \in Entries /\ 1 .. n = (1 .. n - 1) \union {n}
    BY <1>1
  <2>2. From(n - 1) /\ All(n - 1)
    BY <1>4
  <2> HIDE DEF S
  <2>3. CASE Repeats(s[n], t)
    <3>1. f[n] = f[n - 1]
      BY <1>2, <2>1, <2>3 DEF Kept
    <3>2. From(n)
      BY <2>1, <2>2, <3>1
    <3>3. All(n)
      BY <2>1, <2>2, <2>3, <3>1
    <3> HIDE DEF From, All
    <3> QED BY <2>1, <3>2, <3>3 DEF S
  <2>4. CASE ~Repeats(s[n], t)
    <3> DEFINE p == f[n - 1]
               q == f[n]
    <3>1. q = Append(p, s[n])
      BY <1>2, <2>1, <2>4 DEF Kept
    <3>2. p \in Seq(Entries)
      BY <2>2
    <3>3. /\ q \in Seq(Entries) /\ DOMAIN q = DOMAIN p \union {Len(p) + 1}
          /\ q[Len(p) + 1] = s[n] /\ \A j \in DOMAIN p : q[j] = p[j]
      BY <2>1, <3>1, <3>2
    <3>4. /\ \A j \in DOMAIN p : \E k \in 1 .. n - 1 : p[j] = s[k] /\ ~Repeats(s[k], t)
          /\ \A k \in 1 .. n - 1 : ~Repeats(s[k], t) => \E j \in DOMAIN p : p[j] = s[k]
      BY <2>2
    <3> HIDE DEF p, q
    <3>5. ASSUME NEW j \in DOMAIN q
          PROVE  \E k \in 1 .. n : q[j] = s[k] /\ ~Repeats(s[k], t)
      <4>1. CASE j \in DOMAIN p
        BY <2>1, <3>3, <3>4, <4>1
      <4>2. CASE j = Len(p) + 1
        <5>1. q[j] = s[n] /\ n \in 1 .. n
          BY <2>1, <3>3, <4>2
        <5> QED BY <2>4, <5>1
      <4> QED BY <3>3, <3>5, <4>1, <4>2
    <3>6. \A k \in 1 .. n : ~Repeats(s[k], t) => \E j \in DOMAIN q : q[j] = s[k]
      BY <2>1, <3>3, <3>4
    <3> QED BY <2>1, <3>3, <3>5, <3>6 DEF S, q
  <2> QED BY <2>3, <2>4
<1>5. S = 0 .. L
  <2> HIDE DEF S
  <2>1. S \in SUBSET (0 .. L)
    BY DEF S
  <2> QED BY <1>1, <1>3, <1>4, <2>1, UpTo
<1>6. From(L) /\ All(L)
  <2> HIDE DEF From, All
  <2> QED BY <1>1, <1>5
<1>7. Others(s, t) = f[L]
  BY <1>2
<1> DEFINE r == f[L]
<1>8. /\ r \in Seq(Entries)
      /\ \A j \in DOMAIN r : \E k \in DOMAIN s : r[j] = s[k] /\ ~Repeats(s[k], t)
      /\ \A k \in DOMAIN s : ~Repeats(s[k], t) => \E j \in DOMAIN r : r[j] = s[k]
  BY <1>1, <1>6
<1>9. Others(s, t) = r
  BY <1>7
<1> HIDE DEF r
<1> QED BY <1>8, <1>9

-----------------------------------------------------------------------------
(* The request built from the history *)

\* The newest Window messages of a log are its last ones, in order.
LEMMA RecentWindow ==
    ASSUME NEW s \in Messages, log[s] \in Seq(Entries)
    PROVE  LET n == Len(log[s]) IN
           /\ Recent(s) \in Seq(Entries)
           /\ \A i \in Oldest(n) .. n :
                 i \in 1 .. n /\ \E k \in DOMAIN Recent(s) : Recent(s)[k] = log[s][i]
           /\ \A k \in DOMAIN Recent(s) :
                 \E i \in Oldest(n) .. n : Recent(s)[k] = log[s][i]
<1> DEFINE l == log[s]
           n == Len(l)
           o == Oldest(n)
<1>1. n \in Nat /\ \A i \in 1 .. n : l[i] \in Entries
  OBVIOUS
<1>2. o \in 1 .. n + 1 /\ o \in Nat
  BY <1>1, BoundsAssumption DEF Oldest
<1>3. Recent(s) = SubSeq(l, o, n)
  BY DEF Recent, Oldest
<1>4. l \in Seq(Entries)
  OBVIOUS
<1> HIDE DEF l, n, o
<1>5. /\ Len(SubSeq(l, o, n)) = n - o + 1
      /\ \A k \in 1 .. n - o + 1 : SubSeq(l, o, n)[k] = l[o + k - 1]
      /\ SubSeq(l, o, n) \in Seq(Entries)
  <2>1. n = Len(l)
    BY DEF n
  <2> QED BY <1>1, <1>2, <1>4, <2>1
<1>6. DOMAIN Recent(s) = 1 .. n - o + 1
  BY <1>3, <1>5
<1>7. ASSUME NEW i \in o .. n
      PROVE  i \in 1 .. n /\ \E k \in DOMAIN Recent(s) : Recent(s)[k] = l[i]
  <2>1. i \in 1 .. n /\ i - o + 1 \in 1 .. n - o + 1 /\ o + (i - o + 1) - 1 = i
    BY <1>1, <1>2
  <2> QED BY <1>3, <1>5, <1>6, <2>1
<1>8. ASSUME NEW k \in DOMAIN Recent(s)
      PROVE  \E i \in o .. n : Recent(s)[k] = l[i]
  <2>1. o + k - 1 \in o .. n
    BY <1>1, <1>2, <1>6
  <2> QED BY <1>3, <1>5, <1>6, <2>1
<1> QED BY <1>3, <1>5, <1>7, <1>8 DEF o, n, l

\* The request that is built: the system prompt, what is kept of the history, and the
\* question, which is in it once.
LEMMA Built ==
    ASSUME TypeOK, NEW m \in Messages, session[m] \in Known,
           \A i \in DOMAIN log[session[m]] :
              /\ log[session[m]][i].calls = 0
              /\ log[session[m]][i].by = m => Repeats(log[session[m]][i], text[m])
    PROVE  LET q == BuildMessages(m)
               l == log[session[m]]
           IN  /\ q \in Seq(Entries) /\ q # <<>>
               /\ \E i \in DOMAIN q : Question(m, q, i)
               /\ \A i \in DOMAIN q : q[i].calls = 0
               /\ Len(l) \in Nat /\ RecalledAt(m, l, q, Len(l))
<1> DEFINE s == session[m]
           l == log[s]
           h == Recent(s)
           t == text[m]
           r == Others(h, t)
           a == Entry(m, "system", None, 0)
           b == Entry(m, "user", t, 0)
           q == BuildMessages(m)
<1>0. s \in Messages /\ l # None /\ t \in Texts \union {None}
  <2>1. text \in [Messages -> Texts \union {None}]
    BY DEF TypeOK
  <2> QED BY <2>1 DEF Known
<1>1. s \in Messages /\ l \in Seq(Entries) /\ Len(l) \in Nat
  <2>1. log \in [Messages -> Seq(Entries) \union {None}]
    BY DEF TypeOK
  <2>2. l \in Seq(Entries)
    BY <1>0, <2>1
  <2> QED BY <1>0, <2>2
<1>2. /\ a \in Entries /\ a.role = "system" /\ a.by = m /\ a.calls = 0
      /\ b \in Entries /\ b.role = "user" /\ b.by = m /\ b.calls = 0 /\ b.text = t
  <2>1. 0 \in 0 .. MaxCalls
    BY BoundsAssumption
  <2>2. /\ a \in Entries /\ a.role = "system" /\ a.by = m /\ a.calls = 0
        /\ b.role = "user" /\ b.by = m /\ b.calls = 0 /\ b.text = t
    BY <2>1 DEF Entry, Entries, MsgRoleEnum
  <2>3. b \in Entries
    <3> HIDE DEF t
    <3> QED BY <1>0, <2>1 DEF Entry, Entries, MsgRoleEnum
  <2> QED BY <2>2, <2>3
<1>3. /\ h \in Seq(Entries)
      /\ \A i \in Oldest(Len(l)) .. Len(l) :
            i \in 1 .. Len(l) /\ \E k \in DOMAIN h : h[k] = l[i]
      /\ \A k \in DOMAIN h : \E i \in Oldest(Len(l)) .. Len(l) : h[k] = l[i]
  BY <1>1, RecentWindow
<1>4. /\ r \in Seq(Entries)
      /\ \A j \in DOMAIN r : \E k \in DOMAIN h : r[j] = h[k] /\ ~Repeats(h[k], t)
      /\ \A k \in DOMAIN h : ~Repeats(h[k], t) => \E j \in DOMAIN r : r[j] = h[k]
  <2> HIDE DEF h, t, r
  <2>1. r = Others(h, t)
    BY DEF r
  <2> QED BY <1>3, <2>1, OthersKept
<1>5. q = <<a>> \o r \o <<b>>
  BY DEF BuildMessages
<1>6. \A i \in DOMAIN l : l[i].calls = 0 /\ (l[i].by = m => Repeats(l[i], t))
  OBVIOUS
<1>q. b = Entry(m, "user", text[m], 0) /\ t = text[m]
  OBVIOUS
<1> HIDE DEF s, l, h, t, r, a, b, q
<1>7. /\ q \in Seq(Entries) /\ q # <<>> /\ Len(r) \in Nat /\ DOMAIN r = 1 .. Len(r)
      /\ DOMAIN q = 1 .. Len(r) + 2
      /\ q[1] = a /\ q[Len(r) + 2] = b
      /\ \A i \in DOMAIN r : q[i + 1] = r[i]
  BY <1>2, <1>4, <1>5
<1>8. ASSUME NEW j \in DOMAIN q
      PROVE  \/ j = 1 /\ q[j] = a
             \/ j = Len(r) + 2 /\ q[j] = b
             \/ \E i \in Oldest(Len(l)) .. Len(l) : q[j] = l[i] /\ ~Repeats(l[i], t)
  <2>1. CASE j - 1 \in DOMAIN r
    <3>1. q[j] = r[j - 1]
      <4>1. q[(j - 1) + 1] = r[j - 1] /\ (j - 1) + 1 = j
        BY <1>7, <2>1
      <4> QED BY <4>1
    <3>2. PICK k \in DOMAIN h : r[j - 1] = h[k] /\ ~Repeats(h[k], t)
      BY <1>4, <2>1
    <3>3. PICK i \in Oldest(Len(l)) .. Len(l) : h[k] = l[i]
      BY <1>3
    <3> QED BY <3>1, <3>2, <3>3
  <2>2. CASE j = 1 \/ j = Len(r) + 2
    BY <1>7, <2>2
  <2> QED BY <1>7, <2>1, <2>2
<1>9. Question(m, q, Len(r) + 2)
  <2>1. ASSUME NEW j \in DOMAIN q, j < Len(r) + 2 PROVE q[j].by # m \/ q[j].role = "system"
    <3>1. DOMAIN l = 1 .. Len(l)
      BY <1>1
    <3>2. \A i \in Oldest(Len(l)) .. Len(l) : i \in DOMAIN l
      BY <1>3, <3>1
    <3>3. j # Len(r) + 2
      BY <1>7, <2>1
    <3>4. q[j] = a \/ \E i \in Oldest(Len(l)) .. Len(l) : q[j] = l[i] /\ ~Repeats(l[i], t)
      BY <1>8, <3>3
    <3> QED BY <1>2, <1>6, <3>2, <3>4
  <2>2. \A j \in DOMAIN q : ~(j > Len(r) + 2)
    BY <1>7
  <2> QED BY <1>7, <1>q, <2>1, <2>2 DEF Question
<1>10. \A j \in DOMAIN q : q[j].calls = 0
  <2>1. \A i \in Oldest(Len(l)) .. Len(l) : l[i].calls = 0
    <3>1. DOMAIN l = 1 .. Len(l)
      BY <1>1
    <3> QED BY <1>3, <1>6, <3>1
  <2>2. SUFFICES ASSUME NEW j \in DOMAIN q PROVE q[j].calls = 0
    OBVIOUS
  <2>3. q[j] = a \/ q[j] = b \/ \E i \in Oldest(Len(l)) .. Len(l) : q[j] = l[i]
    BY <1>8
  <2> QED BY <1>2, <2>1, <2>3
<1>11. RecalledAt(m, l, q, Len(l))
  <2>1. ASSUME NEW i \in Oldest(Len(l)) .. Len(l), ~Repeats(l[i], t)
        PROVE  \E j \in DOMAIN q : q[j] = l[i]
    <3>1. PICK k \in DOMAIN h : h[k] = l[i]
      BY <1>3
    <3>2. PICK j \in DOMAIN r : r[j] = h[k]
      BY <1>4, <2>1, <3>1
    <3> QED BY <1>7, <3>1, <3>2
  <2>2. \A j \in DOMAIN q : q[j].by # m => \E i \in Oldest(Len(l)) .. Len(l) : l[i] = q[j]
    BY <1>2, <1>8
  <2>3. Len(l) + 1 .. Len(l) = {}
    BY <1>1
  <2> QED BY <1>q, <2>1, <2>2, <2>3 DEF RecalledAt
<1>12. Len(r) + 2 \in DOMAIN q
  BY <1>7
<1> QED BY <1>1, <1>7, <1>9, <1>10, <1>11, <1>12 DEF s, l, q

-----------------------------------------------------------------------------
(* What the handling of one message changes *)

LEMMA Domains ==
    ASSUME TypeOK
    PROVE  /\ DOMAIN log = Messages /\ DOMAIN text = Messages /\ DOMAIN given = Messages
           /\ DOMAIN session = Messages /\ DOMAIN request = Messages
           /\ DOMAIN round = Messages /\ DOMAIN pending = Messages
           /\ DOMAIN reply = Messages /\ DOMAIN pc = Messages
           /\ DOMAIN expired = Messages /\ DOMAIN before = Messages
<1>1. DOMAIN log = Messages /\ DOMAIN text = Messages /\ DOMAIN given = Messages
  <2>1. log \in [Messages -> Seq(Entries) \union {None}] /\ text \in [Messages -> Texts \union {None}]
    BY DEF TypeOK
  <2>2. \E R : given \in [Messages -> R]
    BY DEF TypeOK
  <2> QED BY <2>1, <2>2
<1>2. DOMAIN session = Messages /\ DOMAIN request = Messages
  <2>1. session \in [Messages -> Messages \union {None}] /\ request \in [Messages -> Seq(Entries)]
    BY DEF TypeOK
  <2> QED BY <2>1
<1>3. /\ DOMAIN round = Messages /\ DOMAIN pending = Messages
      /\ DOMAIN reply = Messages /\ DOMAIN pc = Messages
      /\ DOMAIN expired = Messages /\ DOMAIN before = Messages
  <2>1. /\ round \in [Messages -> 0..MaxToolRounds] /\ pending \in [Messages -> 0..MaxCalls]
        /\ reply \in [Messages -> {"none", "empty", "answer"}]
        /\ pc \in [Messages -> {"idle", "done", "failed"} \union Active]
        /\ expired \in [Messages -> BOOLEAN]
        /\ before \in [Messages -> SUBSET Messages]
    BY DEF TypeOK
  <2> QED BY <2>1
<1> QED BY <1>1, <1>2, <1>3

\* A handler works on its own variables.
LEMMA OwnVariables ==
    ASSUME TypeOK, NEW m \in Messages, Receive(m) \/ Handle(m) \/ Expire(m)
    PROVE  /\ \A q \in Messages \ {m} :
                 UNCHANGED <<text[q], given[q], before[q], session[q], request[q], round[q],
                             pending[q], reply[q], pc[q], expired[q]>>
           /\ pc[m] \in {"idle"} \union Active /\ (pc[m] # "idle" => UNCHANGED before[m])
           /\ (pc[m] # "idle" => UNCHANGED text[m])
<1>0. /\ DOMAIN log = Messages /\ DOMAIN text = Messages /\ DOMAIN given = Messages
      /\ DOMAIN session = Messages /\ DOMAIN request = Messages
      /\ DOMAIN round = Messages /\ DOMAIN pending = Messages
      /\ DOMAIN reply = Messages /\ DOMAIN pc = Messages
      /\ DOMAIN expired = Messages /\ DOMAIN before = Messages
  BY Domains
<1> USE <1>0 DEF Goto, Return, input, loop, Active
<1>1. CASE Receive(m)
  BY <1>1 DEF Receive
<1>2. CASE GetSession(m) \/ CreateSession(m)
  BY <1>2 DEF GetSession, CreateSession
<1>3. CASE SaveUserMessage(m) \/ LoadHistory(m)
  BY <1>3 DEF SaveUserMessage, LoadHistory
<1>4. CASE AskLLM(m)
  BY <1>4 DEF AskLLM, Answers
<1>5. CASE ExecuteTool(m)
  BY <1>5 DEF ExecuteTool
<1>6. CASE SaveReply(m) \/ Expire(m)
  BY <1>6 DEF SaveReply, Expire
<1> QED BY <1>1, <1>2, <1>3, <1>4, <1>5, <1>6 DEF Handle

\* What happens to the logs: a session begins, or the question or the answer of the
\* message is added to its session.
Added(m, e) ==
    /\ e.by = m /\ e.calls = 0
    /\ \/ pc[m] = "save_user" /\ e.role = "user" /\ e.text = text[m] /\ pc'[m] = "history"
       \/ pc[m] = "save_reply" /\ e.role = "assistant" /\ pc'[m] = "done"

LEMMA LogStep ==
    ASSUME TypeOK, NEW m \in Messages, LoopFits(m), Receive(m) \/ Handle(m) \/ Expire(m)
    PROVE  \/ UNCHANGED log
           \/ pc[m] = "create" /\ pc'[m] = "save_user" /\ log' = [log EXCEPT ![m] = <<>>]
           \/ \E e \in Entries :
                 Added(m, e) /\ log' = [log EXCEPT ![session[m]] = Append(@, e)]
<1>0. /\ DOMAIN pc = Messages /\ text[m] \in Texts \union {None}
  <2>1. text \in [Messages -> Texts \union {None}]
    BY DEF TypeOK
  <2> QED BY <2>1, Domains
<1>1. CASE Receive(m) \/ GetSession(m) \/ LoadHistory(m) \/ AskLLM(m) \/ ExecuteTool(m)
           \/ Expire(m)
  BY <1>1 DEF Receive, GetSession, LoadHistory, AskLLM, ExecuteTool, Expire
<1>2. CASE CreateSession(m)
  BY <1>0, <1>2 DEF CreateSession, Goto
<1>3. ASSUME NEW e, e = Entry(m, "user", text[m], 0) \/ e = Entry(m, "assistant", FinalText(m), 0),
             pc[m] = "save_reply" \/ e = Entry(m, "user", text[m], 0)
      PROVE  e \in Entries /\ e.by = m /\ e.calls = 0
  <2>1. 0 \in 0 .. MaxCalls
    BY BoundsAssumption
  <2>2. pc[m] = "save_reply" => FinalText(m) \in {"answer", "limit reached"}
    BY DEF FinalText, LoopFits
  <2>3. CASE e = Entry(m, "user", text[m], 0)
    BY <1>0, <2>1, <2>3 DEF Entry, Entries, MsgRoleEnum
  <2>4. CASE e = Entry(m, "assistant", FinalText(m), 0) /\ pc[m] = "save_reply"
    <3> DEFINE f == FinalText(m)
    <3>1. f \in {"answer", "limit reached"}
      BY <2>2, <2>4
    <3> HIDE DEF f
    <3>2. Entry(m, "assistant", f, 0) \in Entries
      BY <2>1, <3>1 DEF Entry, Entries, MsgRoleEnum
    <3> QED BY <2>4, <3>2 DEF Entry, f
  <2> QED BY <1>3, <2>3, <2>4
<1>4. CASE SaveUserMessage(m)
  <2> DEFINE e == Entry(m, "user", text[m], 0)
  <2>1. UNCHANGED log \/ log' = [log EXCEPT ![session[m]] = Append(@, e)]
    BY <1>4 DEF SaveUserMessage, SaveMessage
  <2>2. e \in Entries /\ e.by = m /\ e.calls = 0
    BY <1>3
  <2>3. e.role = "user" /\ e.text = text[m]
    BY DEF Entry
  <2>4. pc[m] = "save_user" /\ pc'[m] = "history"
    BY <1>0, <1>4 DEF SaveUserMessage, Goto
  <2> HIDE DEF e
  <2> QED BY <2>1, <2>2, <2>3, <2>4 DEF Added
<1>5. CASE SaveReply(m)
  <2> DEFINE e == Entry(m, "assistant", FinalText(m), 0)
  <2>1. UNCHANGED log \/ log' = [log EXCEPT ![session[m]] = Append(@, e)]
    BY <1>5 DEF SaveReply, SaveMessage
  <2>4. pc[m] = "save_reply" /\ pc'[m] = "done"
    BY <1>0, <1>5 DEF SaveReply, Return, Goto
  <2>2. e \in Entries /\ e.by = m /\ e.calls = 0
    BY <1>3, <2>4
  <2>3. e.role = "assistant"
    BY DEF Entry
  <2> HIDE DEF e
  <2> QED BY <2>1, <2>2, <2>3, <2>4 DEF Added
<1> QED BY <1>1, <1>2, <1>4, <1>5 DEF Handle

\* Seen from any session: it stays, and grows by at most one entry, of this message.
LEMMA LogGrows ==
    ASSUME TypeOK, NEW m \in Messages, SessionFits(m), LoopFits(m),
           Receive(m) \/ Handle(m) \/ Expire(m), NEW s \in Messages
    PROVE  /\ s \in Known =>
                 /\ s \in Known' /\ log[s] \in Seq(Entries)
                 /\ \/ log'[s] = log[s]
                    \/ s = session[m] /\ \E e \in Entries : Added(m, e) /\ log'[s] = Append(log[s], e)
           /\ s \notin Known =>
                 \/ log'[s] = None
                 \/ s = m /\ pc[m] = "create" /\ pc'[m] = "save_user" /\ log'[s] = <<>>
           /\ log' \in [Messages -> Seq(Entries) \union {None}]
<1> DEFINE T == Seq(Entries) \union {None}
<1>1. log \in [Messages -> T]
  BY DEF TypeOK
<1>2. <<>> \in Seq(Entries) /\ \A l \in Seq(Entries), e \in Entries : Append(l, e) \in Seq(Entries)
  OBVIOUS
<1>3. None \notin Seq(Entries)
  BY TextsAssumption
<1>4. /\ s \in Known <=> log[s] \in Seq(Entries)
      /\ s \in Known' <=> log'[s] # None
      /\ s \notin Known <=> log[s] = None
  BY <1>1, <1>3 DEF Known
<1>5. CASE UNCHANGED log
  BY <1>1, <1>4, <1>5
<1>6. CASE pc[m] = "create" /\ pc'[m] = "save_user" /\ log' = [log EXCEPT ![m] = <<>>]
  <2>1. log[m] = None
    BY <1>6 DEF SessionFits
  <2> QED BY <1>1, <1>2, <1>3, <1>4, <1>6, <2>1
<1>7. ASSUME NEW e \in Entries, Added(m, e), log' = [log EXCEPT ![session[m]] = Append(@, e)]
      PROVE  /\ s \in Known =>
                   /\ s \in Known' /\ log[s] \in Seq(Entries)
                   /\ \/ log'[s] = log[s]
                      \/ s = session[m] /\ log'[s] = Append(log[s], e)
             /\ s \notin Known => log'[s] = None
             /\ log' \in [Messages -> T]
  <2>1. session[m] \in Messages /\ log[session[m]] \in Seq(Entries)
    BY <1>1, <1>7 DEF SessionFits, Added, Known, Asking
  <2>2. Append(log[session[m]], e) \in Seq(Entries)
    BY <1>2, <2>1
  <2>3. log' \in [Messages -> T]
    BY <1>1, <1>7, <2>2
  <2>4. CASE s = session[m]
    <3>1. log'[s] = Append(log[s], e)
      BY <1>1, <1>7, <2>4
    <3>2. log'[s] # None
      BY <1>3, <2>2, <2>4, <3>1
    <3> HIDE DEF T
    <3> QED BY <1>4, <2>1, <2>3, <2>4, <3>1, <3>2
  <2>5. CASE s # session[m]
    <3>1. log'[s] = log[s]
      BY <1>1, <1>7, <2>5
    <3>2. s \in Known => s \in Known' /\ log[s] \in Seq(Entries)
      BY <1>3, <1>4, <3>1
    <3>3. s \notin Known => log'[s] = None
      BY <1>4, <3>1
    <3> QED BY <2>3, <3>1, <3>2, <3>3
  <2> QED BY <2>4, <2>5
<1> QED BY <1>5, <1>6, <1>7, LogStep

\* What happens to the requests: one is built, grows by an answer of the LLM or by a
\* result of a tool, or is dropped when the handler returns.
Replied(m, e) ==
    /\ e.by = m /\ e.role = "assistant" /\ pc[m] = "ask"
    /\ \/ pc'[m] = "save_reply" /\ reply'[m] \in {"empty", "answer"}
       \/ pc'[m] = "tools" /\ e.calls \in 1 .. MaxCalls /\ pending'[m] = e.calls
Resulted(m, e) ==
    /\ e.by = m /\ e.role = "tool" /\ e.calls = 0 /\ pc[m] = "tools"
    /\ pending'[m] = pending[m] - 1
    /\ \/ pending[m] > 1 /\ pc'[m] = "tools" /\ UNCHANGED round
       \/ pending[m] = 1 /\ pc'[m] = "ask" /\ round'[m] < MaxToolRounds
       \/ pending[m] = 1 /\ pc'[m] = "save_reply" /\ reply'[m] = "empty"

LEMMA RequestStep ==
    ASSUME TypeOK, NEW m \in Messages, LoopFits(m), Receive(m) \/ Handle(m) \/ Expire(m)
    PROVE  \/ UNCHANGED <<request, round, pending, reply, log, session>> /\ pc'[m] = pc[m]
           \/ UNCHANGED <<request, round, pending, reply>> /\ pc'[m] \notin Asking /\ pc[m] \notin Asking
           \/ /\ request' = [request EXCEPT ![m] = <<>>] /\ pc'[m] \in {"failed", "done"}
              /\ round' = [round EXCEPT ![m] = 0]
           \/ /\ request' = [request EXCEPT ![m] = BuildMessages(m)]
              /\ pc[m] = "history" /\ pc'[m] = "ask" /\ UNCHANGED <<log, session, round>>
           \/ \E e \in Entries : /\ request' = [request EXCEPT ![m] = Append(@, e)]
                                 /\ Replied(m, e) /\ UNCHANGED <<log, session, round>>
           \/ \E e \in Entries : /\ request' = [request EXCEPT ![m] = Append(@, e)]
                                 /\ Resulted(m, e) /\ UNCHANGED <<log, session>>
<1>0. /\ DOMAIN request = Messages /\ DOMAIN round = Messages /\ DOMAIN pending = Messages
      /\ DOMAIN reply = Messages /\ DOMAIN pc = Messages
  BY Domains
<1>1. CASE Receive(m) \/ GetSession(m) \/ CreateSession(m) \/ SaveUserMessage(m) \/ Expire(m)
  BY <1>0, <1>1 DEF Receive, GetSession, CreateSession, SaveUserMessage, Expire, Goto, Return,
                    loop, Asking
<1>2. CASE LoadHistory(m) \/ SaveReply(m)
  BY <1>0, <1>2 DEF LoadHistory, SaveReply, Goto, Return
<1>3. CASE AskLLM(m)
  <2>1. CASE Return(m, "failed")
    BY <1>0, <1>3, <2>1 DEF Return, Goto
  <2>2. ASSUME NEW calls \in 0 .. MaxCalls, NEW content \in {"empty", "answer"},
               Answers(m, calls, content), UNCHANGED <<round, log, session>>, pc[m] = "ask",
               \/ Goto(m, "save_reply") /\ reply' = [reply EXCEPT ![m] = content]
               \/ /\ Goto(m, "tools") /\ calls \in 1 .. MaxCalls
                  /\ pending' = [pending EXCEPT ![m] = calls]
        PROVE  \E e \in Entries : /\ request' = [request EXCEPT ![m] = Append(@, e)]
                                  /\ Replied(m, e) /\ UNCHANGED <<log, session, round>>
    <3> DEFINE e == Entry(m, "assistant", content, calls)
    <3>1. e \in Entries /\ e.by = m /\ e.role = "assistant" /\ e.calls = calls
      BY DEF Entry, Entries, MsgRoleEnum
    <3>2. request' = [request EXCEPT ![m] = Append(@, e)]
      BY <2>2 DEF Answers
    <3> HIDE DEF e
    <3>3. Replied(m, e)
      BY <1>0, <2>2, <3>1 DEF Replied, Goto
    <3> QED BY <2>2, <3>1, <3>2, <3>3
  <2>3. 0 \in 0 .. MaxCalls /\ MaxCalls \in 0 .. MaxCalls /\ 1 .. MaxCalls \subseteq 0 .. MaxCalls
    BY BoundsAssumption
  <2>4. CASE \E calls \in {0, MaxCalls}, content \in {"empty", "answer"} :
                Answers(m, calls, content) /\ reply' = [reply EXCEPT ![m] = content]
                /\ Goto(m, "save_reply") /\ UNCHANGED <<round, log, session>>
    BY <1>3, <2>2, <2>3, <2>4 DEF AskLLM
  <2>5. CASE \E calls \in 1 .. MaxCalls :
                Answers(m, calls, "empty") /\ pending' = [pending EXCEPT ![m] = calls]
                /\ Goto(m, "tools") /\ UNCHANGED <<round, log, session>>
    BY <1>3, <2>2, <2>3, <2>5 DEF AskLLM
  <2> QED BY <1>3, <2>1, <2>4, <2>5 DEF AskLLM
<1>4. CASE ExecuteTool(m)
  <2> DEFINE e == Entry(m, "tool", None, 0)
  <2>1. 0 \in 0 .. MaxCalls
    BY BoundsAssumption
  <2>2. e \in Entries /\ e.by = m /\ e.role = "tool" /\ e.calls = 0
    BY <2>1 DEF Entry, Entries, MsgRoleEnum
  <2>3. request' = [request EXCEPT ![m] = Append(@, e)]
    BY <1>4 DEF ExecuteTool, WithResult
  <2> HIDE DEF e
  <2>4. round[m] \in Nat
    <3>1. round \in [Messages -> 0 .. MaxToolRounds]
      BY DEF TypeOK
    <3> QED BY <3>1, BoundsAssumption
  <2>5. Resulted(m, e)
    <3>1. pc[m] = "tools" /\ pending'[m] = pending[m] - 1
      BY <1>0, <1>4 DEF ExecuteTool
    <3>2. \/ pending[m] > 1 /\ pc'[m] = "tools" /\ UNCHANGED round
          \/ pending[m] = 1 /\ pc'[m] = "ask" /\ round'[m] < MaxToolRounds
          \/ pending[m] = 1 /\ pc'[m] = "save_reply" /\ reply'[m] = "empty"
      <4>1. CASE pending[m] > 1 /\ UNCHANGED <<round, reply, pc>>
        BY <3>1, <4>1
      <4>2. CASE /\ pending[m] = 1 /\ round' = [round EXCEPT ![m] = NextRound(m)]
                 /\ ~LimitReached(m) /\ Goto(m, "ask")
        BY <1>0, <2>4, <4>2, BoundsAssumption DEF Goto, LimitReached, NextRound
      <4>3. CASE /\ pending[m] = 1 /\ Goto(m, "save_reply")
                 /\ reply' = [reply EXCEPT ![m] = "empty"]
        BY <1>0, <4>3 DEF Goto
      <4> QED BY <1>4, <4>1, <4>2, <4>3 DEF ExecuteTool
    <3> QED BY <2>2, <3>1, <3>2 DEF Resulted
  <2> QED BY <1>4, <2>2, <2>3, <2>5 DEF ExecuteTool
<1> QED BY <1>1, <1>2, <1>3, <1>4 DEF Handle

-----------------------------------------------------------------------------
(* The type invariant *)

LEMMA ControlTyped ==
    ASSUME TypeOK, NEW m \in Messages, LoopFits(m), Receive(m) \/ Handle(m) \/ Expire(m)
    PROVE  /\ pc' \in [Messages -> {"idle", "done", "failed"} \union Active]
           /\ expired' \in [Messages -> BOOLEAN] /\ faults' \in 0 .. MaxFaults
           /\ round' \in [Messages -> 0 .. MaxToolRounds]
           /\ pending' \in [Messages -> 0 .. MaxCalls]
           /\ reply' \in [Messages -> {"none", "empty", "answer"}]
<1>0. /\ pc \in [Messages -> {"idle", "done", "failed"} \union Active]
      /\ expired \in [Messages -> BOOLEAN]
  BY DEF TypeOK
<1>1. /\ faults \in 0 .. MaxFaults
      /\ round \in [Messages -> 0 .. MaxToolRounds]
      /\ pending \in [Messages -> 0 .. MaxCalls]
      /\ reply \in [Messages -> {"none", "empty", "answer"}]
  BY DEF TypeOK
<1>2. MaxFaults \in Nat /\ MaxCalls \in Nat /\ MaxToolRounds \in Nat /\ 0 \in 0 .. MaxCalls
      /\ 0 \in 0 .. MaxToolRounds
  BY BoundsAssumption
<1>3. (pc[m] = "tools" => pending[m] \in 1 .. MaxCalls)
      /\ (pc[m] # "save_reply" => round[m] < MaxToolRounds)
  BY DEF LoopFits
<1>4. faults' \in 0 .. MaxFaults
  <2>1. Works(m) \/ Fails(m) \/ Fault => faults' \in 0 .. MaxFaults
    BY <1>1, <1>2 DEF Works, Fails, Fault
  <2>2. UNCHANGED faults => faults' \in 0 .. MaxFaults
    BY <1>1
  <2> QED BY <2>1, <2>2 DEF Handle, Receive, GetSession, CreateSession, SaveUserMessage, SaveMessage,
       LoadHistory, AskLLM, ExecuteTool, SaveReply, Expire
<1>5. /\ pc' \in [Messages -> {"idle", "done", "failed"} \union Active]
      /\ expired' \in [Messages -> BOOLEAN]
  <2>1. ASSUME NEW l \in {"idle", "done", "failed"} \union Active, Goto(m, l)
        PROVE  pc' \in [Messages -> {"idle", "done", "failed"} \union Active]
    BY <1>0, <2>1 DEF Goto
  <2>2. ASSUME NEW l \in {"done", "failed"}, Return(m, l)
        PROVE  expired' \in [Messages -> BOOLEAN] /\ Goto(m, l)
    BY <1>0, <2>2 DEF Return
  <2>3. /\ UNCHANGED pc => pc' \in [Messages -> {"idle", "done", "failed"} \union Active]
        /\ UNCHANGED expired => expired' \in [Messages -> BOOLEAN]
        /\ expired' = [expired EXCEPT ![m] = TRUE] => expired' \in [Messages -> BOOLEAN]
    BY <1>0
  <2>4. {"session", "create", "save_user", "history", "ask", "tools", "save_reply", "done", "failed"}
            \subseteq {"idle", "done", "failed"} \union Active
    BY DEF Active
  <2> HIDE <1>0
  <2> QED BY <2>1, <2>2, <2>3, <2>4 DEF Handle, Receive, GetSession, CreateSession, SaveUserMessage,
       LoadHistory, AskLLM, ExecuteTool, SaveReply, Expire
<1>6. /\ round' \in [Messages -> 0 .. MaxToolRounds]
      /\ pending' \in [Messages -> 0 .. MaxCalls]
      /\ reply' \in [Messages -> {"none", "empty", "answer"}]
  <2> DEFINE Typed == /\ round' \in [Messages -> 0 .. MaxToolRounds]
                      /\ pending' \in [Messages -> 0 .. MaxCalls]
                      /\ reply' \in [Messages -> {"none", "empty", "answer"}]
  <2>1. ASSUME UNCHANGED <<round, pending, reply>> PROVE Typed
    BY <1>1, <2>1
  <2>2. ASSUME NEW l, Return(m, l) PROVE Typed
    BY <1>1, <1>2, <2>2 DEF Return
  <2>3. CASE AskLLM(m)
    BY <1>1, <1>2, <2>2, <2>3 DEF AskLLM
  <2>4. CASE ExecuteTool(m)
    <3>1. NextRound(m) \in 0 .. MaxToolRounds /\ pending[m] - 1 \in 0 .. MaxCalls
      BY <1>1, <1>2, <1>3, <2>4 DEF ExecuteTool, NextRound
    <3> QED BY <1>1, <2>4, <3>1 DEF ExecuteTool
  <2>5. CASE Receive(m) \/ SaveUserMessage(m) \/ Expire(m)
    BY <2>1, <2>5 DEF Receive, SaveUserMessage, Expire, loop
  <2>6. CASE GetSession(m) \/ CreateSession(m)
    BY <2>1, <2>2, <2>6 DEF GetSession, CreateSession, loop
  <2>7. CASE LoadHistory(m) \/ SaveReply(m)
    BY <2>1, <2>2, <2>7 DEF LoadHistory, SaveReply
  <2> QED BY <2>3, <2>4, <2>5, <2>6, <2>7 DEF Handle
<1> QED BY <1>4, <1>5, <1>6

LEMMA InputTyped ==
    ASSUME TypeOK, NEW m \in Messages, Receive(m) \/ Handle(m) \/ Expire(m)
    PROVE  /\ text' \in [Messages -> Texts \union {None}]
           /\ given' \in [Messages -> {None} \union Rooms \union Messages
                                         \union {Invented(d) : d \in Messages}]
           /\ before' \in [Messages -> SUBSET Messages]
<1> DEFINE G == {None} \union Rooms \union Messages \union {Invented(d) : d \in Messages}
<1>1. /\ text \in [Messages -> Texts \union {None}] /\ given \in [Messages -> G]
      /\ before \in [Messages -> SUBSET Messages]
  BY DEF TypeOK
<1>2. {None} \union Rooms \union Returned \union Known \subseteq G
  BY DEF Returned, Known
<1>3. {d \in Messages : pc[d] = "done"} \in SUBSET Messages
  OBVIOUS
<1> DEFINE Typed == /\ text' \in [Messages -> Texts \union {None}]
                    /\ given' \in [Messages -> G]
                    /\ before' \in [Messages -> SUBSET Messages]
<1> HIDE DEF G
<1>4. Receive(m) => Typed
  <2> SUFFICES ASSUME Receive(m) PROVE Typed
    OBVIOUS
  <2>1. PICK t \in Texts, id \in G :
           /\ text' = [text EXCEPT ![m] = t] /\ given' = [given EXCEPT ![m] = id]
           /\ before' = [before EXCEPT ![m] = {d \in Messages : pc[d] = "done"}]
    BY <1>2 DEF Receive
  <2> QED BY <1>1, <1>3, <2>1
<1>5. Handle(m) \/ Expire(m) => Typed
  <2> SUFFICES ASSUME Handle(m) \/ Expire(m) PROVE Typed
    OBVIOUS
  <2>1. UNCHANGED <<text, given, before>>
    BY DEF Handle, Expire, GetSession, CreateSession, SaveUserMessage, LoadHistory, AskLLM,
           ExecuteTool, SaveReply, input
  <2> QED BY <1>1, <2>1
<1> QED BY <1>4, <1>5 DEF G

\* A session a message is put into is there, or begins with it.
LEMMA SessionTyped ==
    ASSUME TypeOK, NEW m \in Messages, SessionFits(m), LoopFits(m),
           Receive(m) \/ Handle(m) \/ Expire(m)
    PROVE  /\ session' \in [Messages -> Messages \union {None}]
           /\ \A q \in Messages : session'[q] # None => session'[q] \in Known'
           /\ pc[m] \in {"save_user", "history"} \union Asking => UNCHANGED session
           /\ pc'[m] = "save_user" => session'[m] \in Known'
<1>1. /\ session \in [Messages -> Messages \union {None}]
      /\ \A q \in Messages : session[q] # None => session[q] \in Known
      /\ DOMAIN pc = Messages /\ DOMAIN log = Messages /\ <<>> # None
  <2>1. <<>> \in Seq(Entries)
    OBVIOUS
  <2>2. <<>> # None
    BY <2>1, TextsAssumption
  <2> QED BY <2>2, Domains DEF TypeOK
<1>2. \A s \in Messages : s \in Known => s \in Known'
  BY LogGrows
<1>3. Known \subseteq Messages
  BY DEF Known
<1>4. CASE GetSession(m)
  BY <1>1, <1>2, <1>3, <1>4 DEF GetSession, Goto, Return, Asking
<1>5. CASE CreateSession(m)
  <2>1. CASE /\ session' = [session EXCEPT ![m] = m] /\ log' = [log EXCEPT ![m] = <<>>]
    <3>1. m \in Known'
      BY <1>1, <2>1 DEF Known
    <3> QED BY <1>1, <1>2, <1>3, <1>5, <2>1, <3>1 DEF CreateSession, Asking
  <2>2. CASE UNCHANGED session /\ Return(m, "failed")
    BY <1>1, <1>2, <1>3, <1>5, <2>2 DEF CreateSession, Asking, Return, Goto
  <2> QED BY <1>5, <2>1, <2>2 DEF CreateSession
<1>6. CASE Receive(m) \/ SaveUserMessage(m) \/ LoadHistory(m) \/ AskLLM(m) \/ ExecuteTool(m)
           \/ SaveReply(m) \/ Expire(m)
  <2>1. UNCHANGED session
    BY <1>6 DEF Receive, SaveUserMessage, LoadHistory, AskLLM, ExecuteTool, SaveReply, Expire
  <2>2. pc'[m] = "save_user" => pc[m] = "save_user"
    BY <1>1, <1>6 DEF Receive, SaveUserMessage, LoadHistory, AskLLM, ExecuteTool, SaveReply, Expire,
                      Goto, Return
  <2> QED BY <1>1, <1>2, <1>3, <2>1, <2>2 DEF SessionFits
<1> QED BY <1>4, <1>5, <1>6 DEF Handle

\* The entries of the log carry no tool calls; before a message has its request, the only
\* thing it can have there is its question.
LEMMA HistoryLogged ==
    ASSUME LogFits, NEW s \in Known, NEW m, pc[m] = "history"
    PROVE  \A i \in DOMAIN log[s] :
              /\ log[s][i].calls = 0
              /\ log[s][i].by = m => Repeats(log[s][i], text[m])
BY DEF LogFits, Written, Repeats, Asking

LEMMA RequestTyped ==
    ASSUME TypeOK, LogFits, NEW m \in Messages, SessionFits(m), LoopFits(m),
           Receive(m) \/ Handle(m) \/ Expire(m)
    PROVE  request' \in [Messages -> Seq(Entries)]
<1> DEFINE T == Seq(Entries)
<1>1. request \in [Messages -> T]
  BY DEF TypeOK
<1>2. <<>> \in T /\ \A l \in T, e \in Entries : Append(l, e) \in T
  OBVIOUS
<1>3. pc[m] = "history" => BuildMessages(m) \in T
  BY Built, HistoryLogged DEF SessionFits
<1> HIDE DEF T
<1>4. UNCHANGED request => request' \in [Messages -> T]
  BY <1>1
<1>5. ASSUME NEW x \in T, request' = [request EXCEPT ![m] = x]
      PROVE  request' \in [Messages -> T]
  BY <1>1, <1>5
<1>6. request' \in [Messages -> T]
  <2>1. request[m] \in T
    BY <1>1
  <2> QED BY <1>2, <1>3, <1>4, <1>5, <2>1, RequestStep
<1> QED BY <1>6 DEF T

LEMMA TypeStep ==
    ASSUME TypeOK, LogFits, NEW m \in Messages, SessionFits(m), LoopFits(m),
           Receive(m) \/ Handle(m) \/ Expire(m)
    PROVE  TypeOK'
<1>1. log' \in [Messages -> Seq(Entries) \union {None}]
  BY LogGrows
<1> QED BY <1>1, ControlTyped, InputTyped, SessionTyped, RequestTyped, Zenon DEF TypeOK

-----------------------------------------------------------------------------
(* The logs *)

\* An entry that has been written stays so: questions and answers are saved once.
LEMMA WrittenStays ==
    ASSUME TypeOK, NEW m \in Messages, Receive(m) \/ Handle(m) \/ Expire(m),
           NEW e \in Entries, Written(e, pc, text)
    PROVE  Written(e, pc', text')
<1>1. e.by \in Messages
  BY DEF Entries
<1>2. CASE e.by # m
  <2>1. UNCHANGED <<pc[e.by], text[e.by]>>
    BY <1>1, <1>2, OwnVariables
  <2> QED BY <2>1 DEF Written
<1>3. CASE e.by = m
  <2>1. pc[m] \in {"idle"} \union Active
    BY OwnVariables
  <2>2. e.role = "user" /\ pc[m] \in {"history"} \union Asking
    BY <1>3, <2>1 DEF Written, Active
  <2>3. pc'[m] \in {"history", "done", "failed"} \union Asking
    BY <2>2, Domains DEF Handle, Receive, GetSession, CreateSession, SaveUserMessage, LoadHistory,
       AskLLM, ExecuteTool, SaveReply, Expire, Goto, Return, Asking
  <2>4. text'[m] = text[m]
    BY <2>2, OwnVariables DEF Asking
  <2> QED BY <1>3, <2>2, <2>3, <2>4 DEF Written
<1> QED BY <1>2, <1>3

LEMMA LogFitsStep ==
    ASSUME TypeOK, LogFits, NEW m \in Messages, SessionFits(m), LoopFits(m),
           Receive(m) \/ Handle(m) \/ Expire(m)
    PROVE  LogFits'
<1> DEFINE Fits(l) == /\ \A i \in DOMAIN l : Written(l[i], pc', text')
                      /\ \A i, j \in DOMAIN l : l[i] = l[j] => i = j
<1> SUFFICES ASSUME NEW s \in Messages, s \in Known' PROVE Fits(log'[s])
  BY DEF LogFits, Known
<1>1. ASSUME s \in Known
      PROVE  /\ log[s] \in Seq(Entries) /\ Fits(log[s])
             /\ \A i \in DOMAIN log[s] : Written(log[s][i], pc, text)
  <2>1. log[s] \in Seq(Entries)
    BY <1>1, LogGrows
  <2>2. \A i \in DOMAIN log[s] : log[s][i] \in Entries /\ Written(log[s][i], pc, text)
    BY <1>1, <2>1 DEF LogFits
  <2>3. \A i, j \in DOMAIN log[s] : log[s][i] = log[s][j] => i = j
    BY <1>1 DEF LogFits
  <2>4. \A i \in DOMAIN log[s] : Written(log[s][i], pc', text')
    BY <2>2, WrittenStays
  <2> QED BY <2>1, <2>2, <2>3, <2>4
<1>2. CASE s \notin Known
  <2>1. log'[s] = <<>>
    BY <1>2, LogGrows DEF Known
  <2> QED BY <2>1
<1>3. CASE s \in Known /\ log'[s] = log[s]
  <2> HIDE DEF Fits
  <2> QED BY <1>1, <1>3
<1>4. ASSUME s \in Known, NEW e \in Entries, Added(m, e), log'[s] = Append(log[s], e)
      PROVE  Fits(log'[s])
  <2> DEFINE l == log[s]
  <2>1. l \in Seq(Entries) /\ Fits(l) /\ \A i \in DOMAIN l : Written(l[i], pc, text)
    BY <1>1, <1>4
  <2>2. \A i \in DOMAIN l : l[i] # e
    BY <1>4, <2>1 DEF Added, Written, Asking
  <2>3. Written(e, pc', text')
    <3>1. text'[m] = text[m]
      BY <1>4, OwnVariables DEF Added
    <3> QED BY <1>4, <3>1 DEF Added, Written, Asking
  <2> HIDE DEF l
  <2>4. /\ DOMAIN Append(l, e) = DOMAIN l \union {Len(l) + 1}
        /\ Append(l, e)[Len(l) + 1] = e /\ \A i \in DOMAIN l : Append(l, e)[i] = l[i]
    BY <2>1
  <2>5. Fits(Append(l, e))
    BY <2>1, <2>2, <2>3, <2>4
  <2> QED BY <1>4, <2>5 DEF l
<1> QED BY <1>2, <1>3, <1>4, LogGrows

-----------------------------------------------------------------------------
(* The other messages *)

\* What somebody else adds to the session later belongs to no message that had been
\* answered before.
LEMMA RecalledGrows ==
    ASSUME NEW q, NEW l \in Seq(Entries), NEW e \in Entries, e.by \notin before[q],
           NEW r, NEW n \in 0 .. Len(l), RecalledAt(q, l, r, n)
    PROVE  n \in 0 .. Len(Append(l, e)) /\ RecalledAt(q, Append(l, e), r, n)
<1> DEFINE k == Append(l, e)
<1>1. /\ Len(l) \in Nat /\ Len(k) = Len(l) + 1 /\ k[Len(l) + 1] = e
      /\ \A i \in 1 .. Len(l) : k[i] = l[i]
  OBVIOUS
<1>2. \A i \in Oldest(n) .. n : i \in 1 .. Len(l)
  BY <1>1, BoundsAssumption DEF Oldest
<1> HIDE DEF k
<1>3. \A i \in Oldest(n) .. n : k[i] = l[i]
  BY <1>1, <1>2
<1>4. \A i \in n+1 .. Len(k) : (i \in n+1 .. Len(l) /\ k[i] = l[i]) \/ k[i] = e
  <2> SUFFICES ASSUME NEW i \in n+1 .. Len(k), i # Len(l) + 1
               PROVE  i \in n+1 .. Len(l) /\ k[i] = l[i]
    BY <1>1
  <2> QED BY <1>1
<1>5. n \in 0 .. Len(k)
  BY <1>1
<1>6. RecalledAt(q, k, r, n)
  BY <1>3, <1>4 DEF RecalledAt
<1> QED BY <1>5, <1>6 DEF k

LEMMA OthersHandled ==
    ASSUME TypeOK, NEW m \in Messages, SessionFits(m), LoopFits(m),
           Receive(m) \/ Handle(m) \/ Expire(m),
           NEW q \in Messages, q # m, Handled(q)
    PROVE  Handled(q)'
<1>1. /\ UNCHANGED <<text[q], before[q], session[q], request[q], round[q], pending[q],
                     reply[q], pc[q]>>
      /\ \A d \in Messages : pc[d] = "done" => pc'[d] = "done"
      /\ pc[m] # "done"
  BY OwnVariables DEF Active
<1>2. \A s \in Messages : s \in Known => s \in Known'
  BY LogGrows
<1>3. SessionFits(q)'
  <2>1. session[q] \in Known => session[q] \in Known'
    BY <1>2 DEF Known
  <2>2. log[q] = None => log'[q] = None
    BY LogGrows DEF Known
  <2> QED BY <1>1, <2>1, <2>2 DEF Handled, SessionFits
<1>4. LoopFits(q)' /\ Answered(q)'
  BY <1>1 DEF Handled, LoopFits, Answered, Results
<1>5. Asked(q)'
  BY <1>1 DEF Handled, Asked, Question
<1>6. BeforeFits(q)'
  BY <1>1 DEF Handled, BeforeFits
<1>7. Recalled(q)'
  <2> SUFFICES ASSUME request[q] # <<>>
               PROVE  \E n \in 0 .. Len(log'[session[q]]) :
                         RecalledAt(q, log'[session[q]], request[q], n)
    BY <1>1 DEF Recalled, RecalledAt
  <2> DEFINE s == session[q]
             l == log[s]
  <2>1. s \in Messages /\ s \in Known
    BY DEF Handled, LoopFits, SessionFits, Known
  <2>2. PICK n \in 0 .. Len(l) : RecalledAt(q, l, request[q], n)
    BY DEF Handled, Recalled
  <2>3. m \notin before[q]
    BY <1>1 DEF Handled, BeforeFits
  <2>4. l \in Seq(Entries)
    BY <2>1, LogGrows
  <2>5. ASSUME NEW e \in Entries, Added(m, e), log'[s] = Append(l, e)
        PROVE  n \in 0 .. Len(log'[s]) /\ RecalledAt(q, log'[s], request[q], n)
    <3>1. e.by \notin before[q]
      BY <2>3, <2>5 DEF Added
    <3>2. n \in 0 .. Len(Append(l, e)) /\ RecalledAt(q, Append(l, e), request[q], n)
      <4> HIDE DEF l
      <4> QED BY <2>2, <2>4, <3>1, RecalledGrows
    <3> QED BY <2>5, <3>2
  <2>6. log'[s] = l \/ \E e \in Entries : Added(m, e) /\ log'[s] = Append(l, e)
    BY <2>1, LogGrows
  <2> HIDE DEF s, l
  <2> QED BY <2>2, <2>5, <2>6 DEF s
<1> QED BY <1>3, <1>4, <1>5, <1>6, <1>7 DEF Handled

-----------------------------------------------------------------------------
(* The message itself *)

\* A handler goes forward.
LEMMA Forward ==
    ASSUME TypeOK, NEW m \in Messages, Receive(m) \/ Handle(m) \/ Expire(m)
    PROVE  /\ pc'[m] \in {"idle", "session", "create"} => pc[m] \in {"idle", "session", "create"}
           /\ pc'[m] \in {"history"} \union Asking
                 => pc[m] \in {"save_user", "history"} \union Asking
           /\ pc'[m] = "save_user" /\ pc[m] = "create" => UNCHANGED request
BY Domains DEF Handle, Receive, GetSession, CreateSession, SaveUserMessage, LoadHistory, AskLLM,
   ExecuteTool, SaveReply, Expire, Goto, Return, Asking, loop

LEMMA SessionFitsStep ==
    ASSUME TypeOK, NEW m \in Messages, SessionFits(m), LoopFits(m),
           Receive(m) \/ Handle(m) \/ Expire(m)
    PROVE  SessionFits(m)'
<1>1. ASSUME pc'[m] \in {"history"} \union Asking PROVE session'[m] \in Known'
  <2>1. pc[m] \in {"save_user", "history"} \union Asking
    BY <1>1, Forward
  <2>2. session'[m] = session[m] /\ session[m] \in Known
    BY <2>1, SessionTyped DEF SessionFits
  <2>3. session[m] \in Messages
    BY <2>2 DEF Known
  <2> QED BY <2>2, <2>3, LogGrows
<1>2. pc'[m] = "save_user" => session'[m] \in Known'
  BY SessionTyped
<1>3. ASSUME pc'[m] \in {"idle", "session", "create"} PROVE log'[m] = None
  <2>1. log[m] = None
    BY <1>3, Forward DEF SessionFits
  <2>2. m \notin Known
    BY <2>1 DEF Known
  <2> QED BY <1>3, <2>2, LogGrows
<1> QED BY <1>1, <1>2, <1>3 DEF SessionFits

\* One entry more.
LEMMA Longer ==
    ASSUME NEW q \in Seq(Entries), NEW e \in Entries
    PROVE  /\ Append(q, e) \in Seq(Entries) /\ Append(q, e) # <<>>
           /\ Len(q) \in Nat /\ DOMAIN q = 1 .. Len(q)
           /\ Len(Append(q, e)) = Len(q) + 1 /\ DOMAIN Append(q, e) = 1 .. Len(q) + 1
           /\ Append(q, e)[Len(q) + 1] = e
           /\ \A i \in 1 .. Len(q) : Append(q, e)[i] = q[i] /\ q[i].calls \in Nat
           /\ e.calls \in Nat
<1>1. \A d \in Entries : d.calls \in Nat
  <2>1. \A d \in Entries : d.calls \in 0 .. MaxCalls
    BY DEF Entries
  <2> QED BY <2>1, BoundsAssumption
<1>2. \A i \in 1 .. Len(q) : q[i] \in Entries
  OBVIOUS
<1>3. /\ Append(q, e) \in Seq(Entries) /\ Append(q, e) # <<>>
      /\ Len(q) \in Nat /\ DOMAIN q = 1 .. Len(q)
      /\ Len(Append(q, e)) = Len(q) + 1 /\ DOMAIN Append(q, e) = 1 .. Len(q) + 1
      /\ Append(q, e)[Len(q) + 1] = e
      /\ \A i \in 1 .. Len(q) : Append(q, e)[i] = q[i]
  OBVIOUS
<1> QED BY <1>1, <1>2, <1>3

\* The loop of the agent: what it needs of a request that is dropped, built or longer.
LEMMA LoopFitsStep ==
    ASSUME TypeOK, LogFits, NEW m \in Messages, SessionFits(m), LoopFits(m),
           Receive(m) \/ Handle(m) \/ Expire(m)
    PROVE  LoopFits(m)'
<1>1. /\ request \in [Messages -> Seq(Entries)] /\ round \in [Messages -> 0 .. MaxToolRounds]
      /\ pending \in [Messages -> 0 .. MaxCalls]
      /\ MaxToolRounds \in Nat /\ MaxToolRounds > 0 /\ MaxCalls \in Nat
  BY BoundsAssumption DEF TypeOK
<1>2. CASE UNCHANGED <<request, round, pending, reply>> /\ pc'[m] = pc[m]
  BY <1>2 DEF LoopFits
<1>3. CASE UNCHANGED <<request, round, pending, reply>> /\ pc'[m] \notin Asking /\ pc[m] \notin Asking
  BY <1>3 DEF LoopFits, Asking
<1>4. CASE /\ request' = [request EXCEPT ![m] = <<>>] /\ pc'[m] \in {"failed", "done"}
           /\ round' = [round EXCEPT ![m] = 0]
  <2>1. request'[m] = <<>> /\ round'[m] < MaxToolRounds
    BY <1>1, <1>4
  <2> QED BY <1>4, <2>1 DEF LoopFits, Asking
<1>5. CASE /\ request' = [request EXCEPT ![m] = BuildMessages(m)]
           /\ pc[m] = "history" /\ pc'[m] = "ask" /\ UNCHANGED round
  <2>1. request'[m] # <<>>
    BY <1>1, <1>5, Built, HistoryLogged DEF SessionFits
  <2> QED BY <1>5, <2>1 DEF LoopFits, Asking
<1>6. ASSUME NEW e \in Entries, request' = [request EXCEPT ![m] = Append(@, e)]
      PROVE  request'[m] # <<>>
  <2>1. request[m] \in Seq(Entries) /\ request'[m] = Append(request[m], e)
    BY <1>1, <1>6
  <2> QED BY <2>1, Longer
<1>7. ASSUME request'[m] # <<>>, NEW e \in Entries, Replied(m, e), UNCHANGED round
      PROVE  LoopFits(m)'
  BY <1>7 DEF Replied, LoopFits, Asking
<1>8. ASSUME request'[m] # <<>>, NEW e \in Entries, Resulted(m, e)
      PROVE  LoopFits(m)'
  BY <1>1, <1>8 DEF Resulted, LoopFits, Asking
<1> QED BY <1>2, <1>3, <1>4, <1>5, <1>6, <1>7, <1>8, RequestStep

\* An answer with tool calls has all of them to come; the last result completes it.
LEMMA AnswerBegins ==
    ASSUME NEW q \in Seq(Entries), NEW e \in Entries, \A i \in DOMAIN q : Results(q, i)
    PROVE  LET r == Append(q, e)
               p == Len(q) + 1
           IN  /\ p \in DOMAIN r /\ Len(r) + e.calls = p + r[p].calls /\ p + 1 > Len(r)
               /\ \A i \in 1 .. p - 1 : Results(r, i) /\ i + r[i].calls < p
<1> DEFINE r == Append(q, e)
           p == Len(q) + 1
<1>1. /\ r \in Seq(Entries) /\ Len(q) \in Nat /\ DOMAIN q = 1 .. Len(q) /\ Len(r) = p
      /\ DOMAIN r = 1 .. p /\ r[p] = e
      /\ \A i \in 1 .. Len(q) : r[i] = q[i] /\ q[i].calls \in Nat
  BY Longer
<1>2. e.calls \in Nat
  BY Longer
<1> HIDE DEF r
<1>3. ASSUME NEW i \in 1 .. p - 1 PROVE Results(r, i) /\ i + r[i].calls < p
  <2>1. i \in 1 .. Len(q) /\ r[i].calls = q[i].calls /\ q[i].calls \in Nat
    BY <1>1
  <2>2. \A j \in i+1 .. i+q[i].calls : j \in 1 .. Len(q) /\ q[j].role = "tool"
    BY <1>1, <2>1 DEF Results
  <2>3. i + q[i].calls < p
    BY <1>1, <2>1, <2>2
  <2>4. \A j \in i+1 .. i+r[i].calls : j \in DOMAIN r /\ r[j].role = "tool"
    BY <1>1, <2>1, <2>2
  <2> QED BY <2>1, <2>3, <2>4 DEF Results
<1> QED BY <1>1, <1>2, <1>3 DEF r

LEMMA ResultComes ==
    ASSUME NEW q \in Seq(Entries), NEW e \in Entries, e.role = "tool", e.calls = 0,
           NEW n \in Nat \ {0}, NEW p \in DOMAIN q, Len(q) + n = p + q[p].calls,
           \A j \in p+1 .. Len(q) : q[j].role = "tool" /\ q[j].calls = 0,
           \A i \in 1 .. p-1 : Results(q, i) /\ i + q[i].calls < p
    PROVE  LET r == Append(q, e) IN
           /\ p \in DOMAIN r /\ Len(r) + (n - 1) = p + r[p].calls
           /\ \A j \in p+1 .. Len(r) : r[j].role = "tool" /\ r[j].calls = 0
           /\ \A i \in 1 .. p-1 : Results(r, i) /\ i + r[i].calls < p
           /\ n = 1 => \A i \in DOMAIN r : Results(r, i)
<1> DEFINE r == Append(q, e)
           l == Len(q)
<1>1. /\ r \in Seq(Entries) /\ l \in Nat /\ DOMAIN q = 1 .. l /\ Len(r) = l + 1
      /\ DOMAIN r = 1 .. l + 1 /\ r[l + 1] = e
      /\ \A i \in 1 .. l : r[i] = q[i] /\ q[i].calls \in Nat
  BY Longer
<1> HIDE DEF r
<1>2. p \in 1 .. l /\ p \in Nat /\ r[p] = q[p] /\ q[p].calls \in Nat /\ p \in 1 .. l + 1
  BY <1>1
<1>3. Len(r) + (n - 1) = p + r[p].calls
  BY <1>1, <1>2
<1>4. ASSUME NEW j \in p+1 .. l + 1 PROVE r[j].role = "tool" /\ r[j].calls = 0
  <2>1. CASE j = l + 1
    BY <1>1, <2>1
  <2>2. CASE j \in p+1 .. l
    BY <1>1, <1>2, <2>2
  <2> QED BY <1>1, <1>2, <2>1, <2>2
<1>5. ASSUME NEW i \in 1 .. p-1 PROVE Results(r, i) /\ i + r[i].calls < p
  <2>1. i \in 1 .. l /\ r[i].calls = q[i].calls /\ q[i].calls \in Nat
    BY <1>1, <1>2
  <2>2. i + q[i].calls < p /\ \A j \in i+1 .. i+q[i].calls : j \in 1 .. l /\ q[j].role = "tool"
    BY <1>1, <2>1 DEF Results
  <2>3. \A j \in i+1 .. i+r[i].calls : j \in DOMAIN r /\ r[j].role = "tool"
    BY <1>1, <2>1, <2>2
  <2> QED BY <2>1, <2>2, <2>3 DEF Results
<1>6. ASSUME n = 1, NEW i \in DOMAIN r PROVE Results(r, i)
  <2>1. CASE i \in 1 .. p-1
    BY <1>5, <2>1
  <2>2. CASE i = p
    <3>1. p + r[p].calls = l + 1
      BY <1>1, <1>3, <1>6
    <3>2. \A j \in p+1 .. p+r[p].calls : j \in 1 .. l + 1 /\ j \in p+1 .. l+1
      BY <1>1, <1>2, <3>1
    <3> QED BY <1>1, <1>4, <2>2, <3>2 DEF Results
  <2>3. CASE i \in p+1 .. l + 1
    <3>1. r[i].calls = 0 /\ i \in Nat
      BY <1>1, <1>2, <1>4, <2>3
    <3>2. i+1 .. i+r[i].calls = {}
      BY <3>1
    <3> QED BY <3>2 DEF Results
  <2> QED BY <1>1, <1>2, <2>1, <2>2, <2>3
<1> QED BY <1>1, <1>2, <1>3, <1>4, <1>5, <1>6 DEF r

LEMMA AnsweredStep ==
    ASSUME TypeOK, LogFits, NEW m \in Messages, SessionFits(m), LoopFits(m), Answered(m),
           Receive(m) \/ Handle(m) \/ Expire(m)
    PROVE  Answered(m)'
<1> DEFINE q == request[m]
           Fits(at, r, n) ==
               /\ at = "ask" => \A i \in DOMAIN r : Results(r, i)
               /\ at = "tools" =>
                    \E p \in DOMAIN r :
                       /\ Len(r) + n = p + r[p].calls
                       /\ \A j \in p+1 .. Len(r) : r[j].role = "tool" /\ r[j].calls = 0
                       /\ \A i \in 1 .. p-1 : Results(r, i) /\ i + r[i].calls < p
<1>1. /\ request \in [Messages -> Seq(Entries)] /\ q \in Seq(Entries)
      /\ pending[m] \in Nat
  <2>1. request \in [Messages -> Seq(Entries)] /\ pending \in [Messages -> 0 .. MaxCalls]
    BY DEF TypeOK
  <2> QED BY <2>1, BoundsAssumption
<1>2. Fits(pc[m], q, pending[m])
  BY DEF Answered
<1> SUFFICES Fits(pc'[m], request'[m], pending'[m])
  BY DEF Answered, Results
<1> HIDE DEF q
<1>3. CASE UNCHANGED <<request, pending>> /\ pc'[m] = pc[m]
  BY <1>2, <1>3 DEF q
<1>4. CASE pc'[m] \notin Asking
  BY <1>4 DEF Asking
<1>5. CASE request' = [request EXCEPT ![m] = BuildMessages(m)] /\ pc[m] = "history" /\ pc'[m] = "ask"
  <2>1. \A i \in DOMAIN BuildMessages(m) : BuildMessages(m)[i].calls = 0
    BY <1>5, Built, HistoryLogged DEF SessionFits
  <2>2. BuildMessages(m) \in Seq(Entries)
    BY <1>5, Built, HistoryLogged DEF SessionFits
  <2>3. \A i \in DOMAIN BuildMessages(m) : i \in Nat
    BY <2>2
  <2>4. \A i \in DOMAIN BuildMessages(m) : Results(BuildMessages(m), i)
    BY <2>1, <2>3 DEF Results
  <2>5. request'[m] = BuildMessages(m)
    BY <1>1, <1>5
  <2> QED BY <1>5, <2>4, <2>5
<1>6. ASSUME NEW e \in Entries, Replied(m, e), request' = [request EXCEPT ![m] = Append(@, e)]
      PROVE  Fits(pc'[m], request'[m], pending'[m])
  <2>1. request'[m] = Append(q, e)
    BY <1>1, <1>6 DEF q
  <2>2. CASE pc'[m] = "save_reply"
    BY <2>2
  <2>3. CASE pc'[m] = "tools" /\ pending'[m] = e.calls
    <3>1. \A i \in DOMAIN q : Results(q, i)
      BY <1>2, <1>6 DEF Replied
    <3>2. LET r == Append(q, e)
              p == Len(q) + 1
          IN  /\ p \in DOMAIN r /\ Len(r) + e.calls = p + r[p].calls /\ p + 1 > Len(r)
              /\ \A i \in 1 .. p - 1 : Results(r, i) /\ i + r[i].calls < p
      BY <1>1, <1>6, <3>1, AnswerBegins
    <3>3. (Len(q) + 1) + 1 .. Len(Append(q, e)) = {}
      BY <1>1, <1>6, Longer
    <3> QED BY <2>1, <2>3, <3>2, <3>3
  <2> QED BY <1>6, <2>2, <2>3 DEF Replied
<1>7. ASSUME NEW e \in Entries, Resulted(m, e), request' = [request EXCEPT ![m] = Append(@, e)]
      PROVE  Fits(pc'[m], request'[m], pending'[m])
  <2>1. request'[m] = Append(q, e) /\ pending'[m] = pending[m] - 1
    BY <1>1, <1>7 DEF q, Resulted
  <2>2. /\ e.role = "tool" /\ e.calls = 0 /\ pc[m] = "tools" /\ pending[m] \in Nat \ {0}
        /\ pc'[m] = "ask" => pending[m] = 1
    BY <1>1, <1>7 DEF Resulted
  <2>3. PICK p \in DOMAIN q :
           /\ Len(q) + pending[m] = p + q[p].calls
           /\ \A j \in p+1 .. Len(q) : q[j].role = "tool" /\ q[j].calls = 0
           /\ \A i \in 1 .. p-1 : Results(q, i) /\ i + q[i].calls < p
    BY <1>2, <2>2
  <2> DEFINE r == Append(q, e)
             n == pending[m]
  <2> HIDE DEF n
  <2>4. /\ p \in DOMAIN r /\ Len(r) + (n - 1) = p + r[p].calls
        /\ \A j \in p+1 .. Len(r) : r[j].role = "tool" /\ r[j].calls = 0
        /\ \A i \in 1 .. p-1 : Results(r, i) /\ i + r[i].calls < p
        /\ n = 1 => \A i \in DOMAIN r : Results(r, i)
    BY <1>1, <1>7, <2>2, <2>3, ResultComes DEF n
  <2> HIDE DEF r
  <2>5. request'[m] = r /\ pending'[m] = n - 1
    BY <2>1 DEF r, n
  <2>6. pc'[m] = "ask" => n = 1
    BY <2>2 DEF n
  <2> QED BY <2>4, <2>5, <2>6
<1> QED BY <1>3, <1>4, <1>5, <1>6, <1>7, RequestStep DEF Asking

\* The question stays the only one when the request grows by what the handler adds.
LEMMA AskedStep ==
    ASSUME TypeOK, LogFits, NEW m \in Messages, SessionFits(m), LoopFits(m), Asked(m),
           Receive(m) \/ Handle(m) \/ Expire(m)
    PROVE  Asked(m)'
<1> DEFINE q == request[m]
           Fits(r) == r # <<>> => \E i \in DOMAIN r : Question(m, r, i)
<1>1. request \in [Messages -> Seq(Entries)] /\ q \in Seq(Entries)
  BY DEF TypeOK
<1>2. Fits(q)
  BY DEF Asked
<1>3. q = <<>> \/ UNCHANGED text[m]
  BY OwnVariables DEF LoopFits, Asking
<1>4. ASSUME Fits(request'[m]), UNCHANGED text[m] \/ request'[m] = <<>> PROVE Asked(m)'
  BY <1>4 DEF Asked, Question
<1> HIDE DEF q
<1>5. CASE UNCHANGED request
  BY <1>2, <1>3, <1>4, <1>5 DEF q
<1>6. CASE request' = [request EXCEPT ![m] = <<>>]
  <2>1. request'[m] = <<>>
    BY <1>1, <1>6
  <2> QED BY <1>4, <2>1
<1>7. CASE request' = [request EXCEPT ![m] = BuildMessages(m)] /\ pc[m] = "history"
  <2>1. request'[m] = BuildMessages(m)
    BY <1>1, <1>7
  <2>2. Fits(BuildMessages(m))
    BY <1>7, Built, HistoryLogged DEF SessionFits
  <2>3. UNCHANGED text[m]
    BY <1>7, OwnVariables
  <2> QED BY <1>4, <2>1, <2>2, <2>3
<1>8. ASSUME NEW e \in Entries, Replied(m, e) \/ Resulted(m, e),
             request' = [request EXCEPT ![m] = Append(@, e)]
      PROVE  Asked(m)'
  <2> DEFINE r == Append(q, e)
  <2>1. e.by = m /\ e.role \in {"assistant", "tool"} /\ pc[m] \in {"ask", "tools"}
    BY <1>8 DEF Replied, Resulted
  <2>2. /\ DOMAIN q = 1 .. Len(q) /\ Len(q) \in Nat /\ DOMAIN r = 1 .. Len(q) + 1
        /\ r[Len(q) + 1] = e /\ \A i \in 1 .. Len(q) : r[i] = q[i]
        /\ q # <<>> => \E i \in DOMAIN q : Question(m, q, i)
    BY <1>1, <1>2, Longer
  <2>3. request'[m] = r
    BY <1>1, <1>8 DEF q
  <2>4. UNCHANGED text[m]
    BY <2>1, OwnVariables
  <2>5. q # <<>>
    BY <2>1 DEF LoopFits, Asking, q
  <2> HIDE DEF r
  <2>6. PICK i \in DOMAIN q : Question(m, q, i)
    BY <2>2, <2>5
  <2>7. i \in DOMAIN r /\ Question(m, r, i)
    BY <2>1, <2>2, <2>6 DEF Question
  <2> QED BY <1>4, <2>3, <2>4, <2>7
<1> QED BY <1>5, <1>6, <1>7, <1>8, RequestStep

LEMMA BeforeFitsStep ==
    ASSUME TypeOK, NEW m \in Messages, BeforeFits(m), Receive(m) \/ Handle(m) \/ Expire(m)
    PROVE  BeforeFits(m)'
<1>1. \A d \in Messages : pc[d] = "done" => pc'[d] = "done"
  BY OwnVariables DEF Active
<1>2. CASE pc[m] # "idle"
  <2>1. UNCHANGED before[m]
    BY <1>2, OwnVariables
  <2> QED BY <1>1, <2>1 DEF BeforeFits
<1>3. CASE pc[m] = "idle"
  <2>1. Receive(m)
    BY <1>3 DEF Handle, GetSession, CreateSession, SaveUserMessage, LoadHistory, AskLLM,
                ExecuteTool, SaveReply, Expire, Active
  <2>2. before'[m] = {d \in Messages : pc[d] = "done"}
    BY <2>1, Domains DEF Receive
  <2> QED BY <1>1, <1>3, <2>2 DEF BeforeFits
<1> QED BY <1>2, <1>3

LEMMA RecalledStep ==
    ASSUME TypeOK, LogFits, NEW m \in Messages, SessionFits(m), LoopFits(m), Recalled(m),
           Receive(m) \/ Handle(m) \/ Expire(m)
    PROVE  Recalled(m)'
<1> DEFINE q == request[m]
           l == log[session[m]]
           Fits(r) == r # <<>> => \E n \in 0 .. Len(l) : RecalledAt(m, l, r, n)
<1>1. request \in [Messages -> Seq(Entries)] /\ q \in Seq(Entries)
  BY DEF TypeOK
<1>2. Fits(q)
  BY DEF Recalled
<1>3. pc[m] = "idle" => q = <<>>
  BY DEF LoopFits, Asking
<1>4. ASSUME Fits(request'[m]), UNCHANGED <<log, session, text[m], before[m]>>
      PROVE  Recalled(m)'
  BY <1>4 DEF Recalled, RecalledAt
<1>5. ASSUME request'[m] = <<>> PROVE Recalled(m)'
  BY <1>5 DEF Recalled
<1>6. pc[m] # "idle" => UNCHANGED <<text[m], before[m]>>
  BY OwnVariables
<1> HIDE DEF q, l
<1>7. CASE UNCHANGED <<request, log, session>>
  <2>1. request'[m] = q
    BY <1>7 DEF q
  <2> QED BY <1>2, <1>3, <1>4, <1>5, <1>6, <1>7, <2>1
<1>8. CASE UNCHANGED request /\ pc[m] \notin Asking
  BY <1>5, <1>8 DEF LoopFits
<1>9. CASE request' = [request EXCEPT ![m] = <<>>]
  BY <1>1, <1>5, <1>9
<1>10. CASE /\ request' = [request EXCEPT ![m] = BuildMessages(m)] /\ pc[m] = "history"
            /\ UNCHANGED <<log, session>>
  <2>1. request'[m] = BuildMessages(m)
    BY <1>1, <1>10
  <2>2. Len(l) \in Nat /\ RecalledAt(m, l, BuildMessages(m), Len(l))
    BY <1>10, Built, HistoryLogged DEF SessionFits, l
  <2>3. Fits(BuildMessages(m))
    BY <2>2
  <2> QED BY <1>4, <1>6, <1>10, <2>1, <2>3
<1>11. ASSUME NEW e \in Entries, Replied(m, e) \/ Resulted(m, e), UNCHANGED <<log, session>>,
              request' = [request EXCEPT ![m] = Append(@, e)]
       PROVE  Recalled(m)'
  <2> DEFINE r == Append(q, e)
  <2>1. e.by = m /\ pc[m] \in {"ask", "tools"}
    BY <1>11 DEF Replied, Resulted
  <2>2. /\ DOMAIN q = 1 .. Len(q) /\ Len(q) \in Nat /\ DOMAIN r = 1 .. Len(q) + 1
        /\ r[Len(q) + 1] = e /\ \A i \in 1 .. Len(q) : r[i] = q[i]
    BY <1>1, Longer
  <2>3. request'[m] = r
    BY <1>1, <1>11 DEF q
  <2>4. q # <<>>
    BY <2>1 DEF LoopFits, Asking, q
  <2> HIDE DEF r
  <2>5. PICK n \in 0 .. Len(l) : RecalledAt(m, l, q, n)
    BY <1>2, <2>4
  <2>6. RecalledAt(m, l, r, n)
    <3>1. ASSUME NEW i \in Oldest(n) .. n, ~Repeats(l[i], text[m])
          PROVE  \E j \in DOMAIN r : r[j] = l[i]
      <4>1. PICK j \in DOMAIN q : q[j] = l[i]
        BY <2>5, <3>1 DEF RecalledAt
      <4> QED BY <2>2, <4>1
    <3>2. ASSUME NEW j \in DOMAIN r, r[j].by # m
          PROVE  \E i \in Oldest(n) .. n : l[i] = r[j]
      <4>1. j \in DOMAIN q /\ r[j] = q[j]
        BY <2>1, <2>2, <3>2
      <4> QED BY <2>5, <3>2, <4>1 DEF RecalledAt
    <3> QED BY <2>5, <3>1, <3>2 DEF RecalledAt
  <2> QED BY <1>4, <1>6, <1>11, <2>1, <2>3, <2>6
<1> QED BY <1>7, <1>8, <1>9, <1>10, <1>11, RequestStep

-----------------------------------------------------------------------------
(* The invariant *)

LEMMA ConversationInit == Init => CInv
<1> SUFFICES ASSUME Init PROVE CInv
  OBVIOUS
<1> DEFINE T == Texts \union {None}
<1>1. 0 \in 0 .. MaxCalls /\ 0 \in 0 .. MaxToolRounds /\ 0 \in 0 .. MaxFaults /\ 0 < MaxToolRounds
  BY BoundsAssumption
<1>2. text \in [Messages -> T]
  BY TextsAssumption DEF Init
<1>3. ASSUME NEW s \in Messages, NEW t \in T
      PROVE  /\ Turn(s, t) \in Seq(Entries) /\ DOMAIN Turn(s, t) = {1, 2}
             /\ Turn(s, t)[1].role = "user" /\ Turn(s, t)[1].text = t
             /\ Turn(s, t)[2].role = "assistant"
             /\ \A i \in {1, 2} : Turn(s, t)[i].by = s /\ Turn(s, t)[i].calls = 0
  <2> DEFINE a == Entry(s, "user", t, 0)
             b == Entry(s, "assistant", "answer", 0)
  <2>1. /\ a.by = s /\ b.by = s /\ a.calls = 0 /\ b.calls = 0 /\ a.text = t
        /\ a.role = "user" /\ b.role = "assistant"
    BY DEF Entry
  <2>2. a \in Entries /\ b \in Entries
    BY <1>1 DEF Entry, Entries, MsgRoleEnum
  <2>3. Turn(s, t) = <<a, b>>
    BY DEF Turn
  <2> HIDE DEF a, b
  <2>4. /\ <<a, b>> \in Seq(Entries) /\ DOMAIN <<a, b>> = {1, 2}
        /\ <<a, b>>[1] = a /\ <<a, b>>[2] = b
    BY <2>2
  <2> QED BY <2>1, <2>3, <2>4
<1> HIDE DEF T
<1>4. log \in [Messages -> Seq(Entries) \union {None}]
  <2>1. \A s \in Messages : Turn(s, text[s]) \in Seq(Entries)
    BY <1>2, <1>3
  <2> QED BY <2>1 DEF Init
<1>5. TypeOK
  <2>1. <<>> \in Seq(Entries)
    OBVIOUS
  <2>2. given \in [Messages -> {None} \union Rooms \union Messages
                                  \union {Invented(d) : d \in Messages}]
    BY DEF Init
  <2>3. session \in [Messages -> Messages \union {None}]
    BY DEF Init
  <2>4. ASSUME NEW m \in Messages, session[m] # None PROVE session[m] \in Known
    <3>1. m \in Earlier /\ session[m] = m /\ log[m] = Turn(m, text[m])
      BY <2>4 DEF Init
    <3>2. log[m] \in Seq(Entries)
      BY <1>2, <1>3, <3>1
    <3>3. log[m] # None
      BY <3>2, TextsAssumption
    <3> QED BY <3>1, <3>3 DEF Known
  <2>5. /\ request \in [Messages -> Seq(Entries)]
        /\ round \in [Messages -> 0..MaxToolRounds] /\ pending \in [Messages -> 0..MaxCalls]
        /\ reply \in [Messages -> {"none", "empty", "answer"}]
        /\ pc \in [Messages -> {"idle", "done", "failed"} \union Active]
        /\ before \in [Messages -> SUBSET Messages] /\ faults \in 0..MaxFaults
    BY <1>1, <2>1 DEF Init
  <2>6. expired \in [Messages -> BOOLEAN]
    BY DEF Init
  <2> QED BY <1>2, <1>4, <2>2, <2>3, <2>4, <2>5, <2>6 DEF TypeOK, T
<1>6. LogFits
  <2> SUFFICES ASSUME NEW s \in Known
               PROVE  /\ \A i \in DOMAIN log[s] : Written(log[s][i], pc, text)
                      /\ \A i, j \in DOMAIN log[s] : log[s][i] = log[s][j] => i = j
    BY DEF LogFits
  <2>1. s \in Messages /\ s \in Earlier /\ pc[s] = "done" /\ log[s] = Turn(s, text[s])
    BY DEF Init, Known
  <2>2. /\ DOMAIN log[s] = {1, 2}
        /\ log[s][1].role = "user" /\ log[s][1].text = text[s]
        /\ log[s][2].role = "assistant"
        /\ \A i \in {1, 2} : log[s][i].by = s /\ log[s][i].calls = 0
    BY <1>2, <1>3, <2>1
  <2>3. \A i \in DOMAIN log[s] : Written(log[s][i], pc, text)
    BY <2>1, <2>2 DEF Written
  <2>4. \A i, j \in DOMAIN log[s] : log[s][i] = log[s][j] => i = j
    BY <2>2
  <2> QED BY <2>3, <2>4
<1>7. ASSUME NEW m \in Messages PROVE Handled(m)
  <2>1. /\ pc[m] \in {"done", "idle"} /\ (pc[m] = "idle" => log[m] = None)
        /\ request[m] = <<>> /\ round[m] = 0 /\ before[m] = {}
    BY DEF Init
  <2> QED BY <1>1, <2>1 DEF Handled, SessionFits, LoopFits, Answered, Asked, BeforeFits, Recalled,
          Asking
<1> QED BY <1>5, <1>6, <1>7 DEF CInv

LEMMA ConversationNext == CInv /\ [Next]_vars => CInv'
<1> SUFFICES ASSUME CInv, [Next]_vars PROVE CInv'
  OBVIOUS
<1>1. ASSUME NEW m \in Messages, Receive(m) \/ Handle(m) \/ Expire(m) PROVE CInv'
  <2>1. TypeOK /\ LogFits /\ \A q \in Messages : Handled(q)
    BY DEF CInv
  <2>2. /\ SessionFits(m) /\ LoopFits(m) /\ Answered(m) /\ Asked(m) /\ BeforeFits(m)
        /\ Recalled(m)
    BY <2>1 DEF Handled
  <2>3. TypeOK'
    BY <1>1, <2>1, <2>2, TypeStep
  <2>4. LogFits'
    BY <1>1, <2>1, <2>2, LogFitsStep
  <2>5. Handled(m)'
    BY <1>1, <2>1, <2>2, SessionFitsStep, LoopFitsStep, AnsweredStep, AskedStep, BeforeFitsStep,
       RecalledStep DEF Handled
  <2>6. ASSUME NEW q \in Messages, q # m PROVE Handled(q)'
    BY <1>1, <2>1, <2>2, <2>6, OthersHandled
  <2> QED BY <2>3, <2>4, <2>5, <2>6 DEF CInv
<1>2. CASE UNCHANGED vars
  <2>1. UNCHANGED <<log, text, given, before, session, request, round, pending, reply, pc,
                    expired, faults>>
    BY <1>2 DEF vars, input, loop
  <2>2. Known' = Known
    BY <2>1 DEF Known
  <2>3. TypeOK'
    BY <2>1, <2>2 DEF CInv, TypeOK
  <2>4. LogFits'
    BY <2>1, <2>2 DEF CInv, LogFits
  <2>5. ASSUME NEW m \in Messages PROVE Handled(m)'
    <3>1. Handled(m)
      BY DEF CInv
    <3>2. SessionFits(m)' /\ LoopFits(m)' /\ BeforeFits(m)'
      BY <2>1, <2>2, <3>1 DEF Handled, SessionFits, LoopFits, BeforeFits
    <3>3. Answered(m)' /\ Asked(m)'
      BY <2>1, <3>1 DEF Handled, Answered, Results, Asked, Question
    <3>4. Recalled(m)'
      BY <2>1, <3>1 DEF Handled, Recalled, RecalledAt
    <3> QED BY <3>2, <3>3, <3>4 DEF Handled
  <2> QED BY <2>3, <2>4, <2>5 DEF CInv
<1> QED BY <1>1, <1>2 DEF Next, Settled

LEMMA ConversationInvariant == Spec => []CInv
BY ConversationInit, ConversationNext, PTL DEF Spec

\* Every variable has its type, and a session a message was put into is there.
THEOREM TypeCorrect == Spec => []TypeOK
<1>1. CInv => TypeOK
  BY DEF CInv
<1> QED BY <1>1, ConversationInvariant, PTL

\* Whatever tools fail and however many calls an answer has, the LLM is only asked
\* again with a result for each of them.
THEOREM CallsAnsweredAlways == Spec => []CallsAnswered
<1>1. CInv => CallsAnswered
  BY DEF CInv, Handled, Answered, Results, CallsAnswered
<1> QED BY <1>1, ConversationInvariant, PTL

\* Whatever the history holds, whether or not the message could be stored, and whoever
\* else writes to the session: the request has the message once, after the history.
THEOREM QuestionAskedOnceAlways == Spec => []QuestionAskedOnce
<1>1. CInv => QuestionAskedOnce
  BY DEF CInv, Handled, Asked, Question, QuestionAskedOnce
<1> QED BY <1>1, ConversationInvariant, PTL

\* Of what had been said before a message came, its request leaves out what the user had
\* said in the very words of the question, and, only if the log is longer than the window,
\* the oldest turns.
THEOREM RecentTurnsSeenAlways == Spec => []RecentTurnsSeen
<1>1. ASSUME CInv, NEW m \in Messages, request[m] # <<>>,
             NEW i \in DOMAIN log[session[m]],
             log[session[m]][i].by \in before[m], ~Repeats(log[session[m]][i], text[m])
      PROVE  \/ log[session[m]][i] \in Remembered(m)
             \/ /\ Len(log[session[m]]) > Window
                /\ \A h \in Remembered(m) : Position(session[m], h) > i
  <2> DEFINE s == session[m]
             l == log[s]
             q == request[m]
  <2>1. s \in Messages /\ s \in Known
    BY <1>1 DEF CInv, Handled, LoopFits, SessionFits, Known, Asking
  <2>2. l \in Seq(Entries) /\ DOMAIN l = 1 .. Len(l) /\ Len(l) \in Nat
    <3>1. log \in [Messages -> Seq(Entries) \union {None}]
      BY <1>1 DEF CInv, TypeOK
    <3>2. l \in Seq(Entries)
      BY <2>1, <3>1 DEF Known
    <3> QED BY <3>2
  <2>3. \A j, k \in DOMAIN l : l[j] = l[k] => j = k
    BY <1>1, <2>1 DEF CInv, LogFits
  <2>4. l[i].by # m
    BY <1>1 DEF CInv, Handled, BeforeFits
  <2>5. PICK n \in 0 .. Len(l) : RecalledAt(m, l, q, n)
    BY <1>1 DEF CInv, Handled, Recalled
  <2>6. i \in 1 .. Len(l) /\ l[i].by \in before[m] /\ ~Repeats(l[i], text[m])
    BY <1>1, <2>2
  <2>7. Remembered(m) = {e \in {q[j] : j \in DOMAIN q} : e.by # m}
    BY DEF Remembered
  <2>8. \A h : Position(s, h) = CHOOSE j \in DOMAIN l : l[j] = h
    BY DEF Position
  <2> HIDE DEF s, l, q
  <2>9. i <= n
    BY <2>2, <2>5, <2>6 DEF RecalledAt
  <2>10. CASE i >= Oldest(n)
    <3>1. i \in Oldest(n) .. n
      BY <2>6, <2>9, <2>10, BoundsAssumption DEF Oldest
    <3>2. PICK j \in DOMAIN q : q[j] = l[i]
      BY <2>5, <2>6, <3>1 DEF RecalledAt
    <3>3. l[i] \in Remembered(m)
      BY <2>4, <2>7, <3>2
    <3> QED BY <3>3 DEF l, s
  <2>11. CASE ~(i >= Oldest(n))
    <3>1. n > Window /\ i < Oldest(n) /\ Oldest(n) \in Nat /\ Oldest(n) >= 1
      BY <2>6, <2>11, BoundsAssumption DEF Oldest
    <3>2. Len(l) > Window
      BY <2>2, <3>1, BoundsAssumption
    <3>3. ASSUME NEW h \in Remembered(m) PROVE Position(s, h) > i
      <4>1. PICK j \in DOMAIN q : q[j] = h /\ q[j].by # m
        BY <2>7
      <4>2. PICK k \in Oldest(n) .. n : l[k] = h
        BY <2>5, <4>1 DEF RecalledAt
      <4>3. k \in DOMAIN l /\ k > i /\ k \in Nat
        BY <2>2, <2>6, <3>1
      <4>4. Position(s, h) \in DOMAIN l /\ l[Position(s, h)] = h
        BY <2>8, <4>2, <4>3
      <4>5. Position(s, h) = k
        BY <2>3, <4>2, <4>3, <4>4
      <4> QED BY <4>3, <4>5
    <3> QED BY <3>2, <3>3 DEF l, s
  <2> QED BY <2>10, <2>11
<1>2. CInv => RecentTurnsSeen
  BY <1>1 DEF RecentTurnsSeen, Repeats
<1> QED BY <1>2, ConversationInvariant, PTL

=============================================================================
