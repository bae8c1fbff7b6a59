------------------------ MODULE ChatHubStreamProofs ------------------------
(***************************************************************************)
(* A call of chathub.Client implements ChatPromise, shows the text as      *)
(* ChatHub reveals it and loses and invents no tool call: for answers of   *)
(* any number of messages and letters, any attachments and any division of *)
(* the answer into updates.                                                *)
(***************************************************************************)
EXTENDS ChatHubStream, Recursions

\* What is assumed of ChatHub: snapshots are of the first message ...
Orderly == SnapshotsOf \subseteq {1}

\* ... and the answer does not begin by saying something twice, for then a cursor write
\* of the second time would be taken for a snapshot (client.go:307).
Unrepeating ==
    \A n \in 1..Len(Whole) : 2 * n <= Len(Whole) =>
      SubSeq(Whole, 1, n) # SubSeq(Whole, n + 1, 2 * n)

-----------------------------------------------------------------------------
\* Where the messages stand in the answer.
Before(c)    == FlattenSeq(SubSeq(Messages, 1, c - 1))
Begins(s, t) == Len(s) <= Len(t) /\ \A i \in 1..Len(s) : s[i] = t[i]

LEMMA BeginsNext ==
  ASSUME NEW s \in Seq(STRING), NEW t \in Seq(STRING), NEW u \in Seq(STRING),
         Begins(s \o t, u)
  PROVE  Begins(s, u)
<1>1. Len(s \o t) = Len(s) + Len(t) /\ Len(s) \in Nat /\ Len(t) \in Nat /\ Len(u) \in Nat
      /\ \A i \in 1..Len(s) : (s \o t)[i] = s[i]
  OBVIOUS
<1>. QED  BY <1>1 DEF Begins

LEMMA BeforeIs ==
  ASSUME ChatHubAssumptions
  PROVE  /\ Whole \in Seq(STRING) /\ Before(1) = <<>>
         /\ \A c \in 1..Len(Messages) :
              /\ Before(c) \in Seq(STRING) /\ Messages[c] \in Seq(STRING)
              /\ Before(c + 1) = Before(c) \o Messages[c]
              /\ Begins(Before(c + 1), Whole)
         /\ Before(Len(Messages) + 1) = Whole
<1>. DEFINE N == Len(Messages)
<1>0. Messages \in Seq(Seq(STRING)) /\ N \in Nat
  BY DEF ChatHubAssumptions
<1>1. PICK f : /\ Joins(STRING, Messages, f)
               /\ \A n \in 0..N : FlattenSeq(SubSeq(Messages, 1, n)) = f[n]
  BY <1>0, FlattenedPrefixes
<1>2. Whole = f[N]
  BY <1>0, <1>1, JoinsFlatten DEF Whole
<1>3. \A n \in 0..N : f[n] \in Seq(STRING)
  BY <1>1 DEF Joins
<1>4. \A c \in 1..N : f[c] = f[c - 1] \o Messages[c] /\ Messages[c] \in Seq(STRING)
  <2>1. \A c \in 1..N : f[c] = f[c - 1] \o Messages[c]
    BY <1>1 DEF Joins
  <2>2. \A c \in 1..N : Messages[c] \in Seq(STRING)
    BY <1>0
  <2>. QED  BY <2>1, <2>2
<1>5. \A n \in 0..N : Before(n + 1) = f[n]
  BY <1>0, <1>1 DEF Before
<1>. DEFINE S == {n \in 0..N : Begins(f[N - n], Whole)}
<1>6. 0 \in S
  BY <1>0, <1>2, <1>3 DEF Begins
<1>7. ASSUME NEW n \in 1..N, n - 1 \in S PROVE n \in S
  <2>0. N - n + 1 \in 1..N
    BY <1>0
  <2>1. PICK c \in 1..N : c = N - n + 1
    BY <2>0
  <2>2. c - 1 = N - n /\ c = N - (n - 1) /\ n \in 0..N /\ c - 1 \in 0..N
    BY <1>0, <2>1
  <2>3. Begins(f[c], Whole)
    BY <1>7, <2>2
  <2>4. f[c] = f[c - 1] \o Messages[c] /\ Messages[c] \in Seq(STRING)
    BY <1>4
  <2>5. f[c - 1] \in Seq(STRING) /\ Whole \in Seq(STRING)
    BY <1>0, <1>2, <1>3, <2>2
  <2>6. Begins(f[c - 1], Whole)
    BY <2>3, <2>4, <2>5, BeginsNext
  <2>. QED  BY <2>2, <2>6
<1>8. \A n \in 0..N : n \in S
  <2>. HIDE DEF S, N
  <2>. QED  BY <1>0, <1>6, <1>7, Counting
<1>9. ASSUME NEW c \in 1..N PROVE Begins(f[c], Whole)
  <2>1. N - c \in 0..N /\ N - (N - c) = c
    BY <1>0
  <2>2. N - c \in S
    BY <1>8, <2>1
  <2>. QED  BY <2>1, <2>2
<1>10. Whole \in Seq(STRING) /\ Before(1) = <<>> /\ Before(N + 1) = Whole
  <2>1. 0 \in 0..N /\ N \in 0..N /\ 0 + 1 = 1
    BY <1>0
  <2>2. f[0] = <<>>
    BY <1>1 DEF Joins
  <2>. QED  BY <1>2, <1>3, <1>5, <2>1, <2>2
<1>11. ASSUME NEW c \in 1..N
       PROVE  /\ Before(c) = f[c - 1] /\ Before(c + 1) = f[c] /\ f[c - 1] \in Seq(STRING)
  <2>1. c - 1 \in 0..N /\ c \in 0..N /\ c - 1 + 1 = c
    BY <1>0
  <2>. QED  BY <1>3, <1>5, <2>1
<1>. HIDE DEF N
<1>. QED  BY <1>4, <1>9, <1>10, <1>11 DEF N

\* Letters n + 1 to m of s, said after b and the first n.
LEMMA Said ==
  ASSUME NEW b \in Seq(STRING), NEW s \in Seq(STRING),
         NEW n \in 0..Len(s), NEW m \in n..Len(s)
  PROVE  /\ SubSeq(s, n + 1, m) \in Seq(STRING) /\ Len(SubSeq(s, n + 1, m)) = m - n
         /\ (b \o SubSeq(s, 1, n)) \o SubSeq(s, n + 1, m) = b \o SubSeq(s, 1, m)
<1>. DEFINE t == SubSeq(s, 1, n)
            w == SubSeq(s, n + 1, m)
<1>1. n \in Nat /\ m \in Nat /\ n <= m /\ m <= Len(s) /\ Len(s) \in Nat
  OBVIOUS
<1>2. t \in Seq(STRING)
  <2>1. \A i \in 1..n : s[i] \in STRING
    BY <1>1
  <2>. QED  BY <1>1, <2>1, SubSeqProperties
<1>3. w \in Seq(STRING) /\ Len(w) = m - n
  <2>1. \A i \in (n + 1)..m : s[i] \in STRING
    BY <1>1
  <2>2. w \in Seq(STRING) /\ Len(w) = IF n + 1 <= m THEN m - (n + 1) + 1 ELSE 0
    BY <1>1, <2>1, SubSeqProperties
  <2>. QED  BY <1>1, <2>2
<1>4. t \o w = SubSeq(s, 1, m)
  <2>1. 1 \in 1..(Len(s) + 1) /\ n \in (1 - 1)..Len(s) /\ m \in n..Len(s)
    BY <1>1
  <2>. QED  BY <2>1, ConcatAdjacentSubSeq
<1>5. (b \o t) \o w = b \o (t \o w)
  <2>. HIDE DEF t, w
  <2>. QED  BY <1>2, <1>3, Z3
<1>. QED  BY <1>3, <1>4, <1>5

LEMMA BeginsShorter ==
  ASSUME NEW b \in Seq(STRING), NEW s \in Seq(STRING), NEW u \in Seq(STRING),
         NEW n \in 0..Len(s), Begins(b \o s, u)
  PROVE  /\ b \o SubSeq(s, 1, n) \in Seq(STRING) /\ Len(b \o SubSeq(s, 1, n)) = Len(b) + n
         /\ Begins(b \o SubSeq(s, 1, n), u)
<1>. DEFINE t == SubSeq(s, 1, n)
            w == SubSeq(s, n + 1, Len(s))
<1>1. SubSeq(s, 0 + 1, n) \in Seq(STRING) /\ Len(SubSeq(s, 0 + 1, n)) = n - 0
  <2>1. 0 \in 0..Len(s) /\ n \in 0..Len(s)
    OBVIOUS
  <2>. QED  BY <2>1, Said
<1>2. t \in Seq(STRING) /\ Len(t) = n
  BY <1>1
<1>3. w \in Seq(STRING) /\ (b \o t) \o w = b \o SubSeq(s, 1, Len(s))
  <2>1. Len(s) \in n..Len(s)
    OBVIOUS
  <2>. QED  BY <2>1, Said
<1>4. SubSeq(s, 1, Len(s)) = s
  BY SubSeqFull
<1>. HIDE DEF t, w
<1>5. b \o t \in Seq(STRING) /\ Len(b \o t) = Len(b) + n
  BY <1>2
<1>6. Begins(b \o t, u)
  BY <1>3, <1>4, <1>5, BeginsNext
<1>. QED  BY <1>5, <1>6 DEF t

-----------------------------------------------------------------------------
\* What is revealed when the first n letters of message c are.
Shown(c, n) == Before(c) \o SubSeq(Messages[c], 1, n)

LEMMA ShownIs ==
  ASSUME ChatHubAssumptions, NEW c \in 1..Len(Messages), NEW n \in 0..Len(Messages[c])
  PROVE  /\ Shown(c, n) \in Seq(STRING) /\ Len(Shown(c, n)) = Len(Before(c)) + n
         /\ Begins(Shown(c, n), Whole)
<1>1. /\ Before(c) \in Seq(STRING) /\ Messages[c] \in Seq(STRING) /\ Whole \in Seq(STRING)
      /\ Begins(Before(c) \o Messages[c], Whole)
  BY BeforeIs
<1>. QED  BY <1>1, BeginsShorter DEF Shown

\* The cursor goes from letter n to letter m.
Written(c, n, m) == SubSeq(Messages[c], n + 1, m)

LEMMA WrittenIs ==
  ASSUME ChatHubAssumptions, NEW c \in 1..Len(Messages),
         NEW n \in 0..Len(Messages[c]), NEW m \in n..Len(Messages[c])
  PROVE  /\ Written(c, n, m) \in Seq(STRING) /\ Len(Written(c, n, m)) = m - n
         /\ Shown(c, n) \o Written(c, n, m) = Shown(c, m)
<1>1. Before(c) \in Seq(STRING) /\ Messages[c] \in Seq(STRING)
  BY BeforeIs
<1>2. /\ Written(c, n, m) \in Seq(STRING) /\ Len(Written(c, n, m)) = m - n
      /\ (Before(c) \o SubSeq(Messages[c], 1, n)) \o SubSeq(Messages[c], n + 1, m)
           = Before(c) \o SubSeq(Messages[c], 1, m)
  <2>. DEFINE b == Before(c)
             s == Messages[c]
  <2>. HIDE DEF b, s
  <2>1. b \in Seq(STRING) /\ s \in Seq(STRING) /\ n \in 0..Len(s) /\ m \in n..Len(s)
    BY <1>1 DEF b, s
  <2>2. /\ SubSeq(s, n + 1, m) \in Seq(STRING) /\ Len(SubSeq(s, n + 1, m)) = m - n
        /\ (b \o SubSeq(s, 1, n)) \o SubSeq(s, n + 1, m) = b \o SubSeq(s, 1, m)
    <3>1. \A j \in 0..Len(s) : \A k \in j..Len(s) :
            /\ SubSeq(s, j + 1, k) \in Seq(STRING) /\ Len(SubSeq(s, j + 1, k)) = k - j
            /\ (b \o SubSeq(s, 1, j)) \o SubSeq(s, j + 1, k) = b \o SubSeq(s, 1, k)
      BY <2>1, Said
    <3>. QED  BY <2>1, <3>1
  <2>. QED  BY <2>2, Zenon DEF Written, b, s
<1>. QED  BY <1>2, Zenon DEF Shown, Written

-----------------------------------------------------------------------------
LEMMA PrefixIs ==
  ASSUME NEW s \in Seq(STRING), NEW t \in Seq(STRING)
  PROVE  IsPrefix(s, t) <=> Begins(s, t)
<1>1. Len(s) \in Nat /\ Len(t) \in Nat
  OBVIOUS
<1>2. ASSUME Len(s) <= Len(t)
      PROVE  SubSeq(s, 1, Len(s)) = SubSeq(t, 1, Len(s)) <=> \A i \in 1..Len(s) : s[i] = t[i]
  <2>1. SubSeq(s, 1, Len(s)) = s
    BY SubSeqFull
  <2>2. /\ SubSeq(t, 1, Len(s)) \in Seq(STRING) /\ Len(SubSeq(t, 1, Len(s))) = Len(s)
        /\ \A i \in 1..Len(s) : SubSeq(t, 1, Len(s))[i] = t[i]
    <3>1. \A i \in 1..Len(s) : t[i] \in STRING
      BY <1>1, <1>2
    <3>. QED  BY <1>1, <3>1, SubSeqProperties
  <2>3. ASSUME \A i \in 1..Len(s) : s[i] = t[i] PROVE s = SubSeq(t, 1, Len(s))
    BY <2>2, <2>3, SeqEqual
  <2>. QED  BY <2>1, <2>2, <2>3
<1>. QED  BY <1>2 DEF IsPrefix, Begins

\* What begins with s, and goes on with s, begins with a repetition.
LEMMA Repeats ==
  ASSUME NEW s \in Seq(STRING), NEW w \in Seq(STRING), NEW u \in Seq(STRING),
         s # <<>>, Begins(s, w), Begins(s \o w, u)
  PROVE  \E l \in 1..Len(u) : 2 * l <= Len(u) /\ SubSeq(u, 1, l) = SubSeq(u, l + 1, 2 * l)
<1>. DEFINE l == Len(s)
            a == SubSeq(u, 1, l)
            b == SubSeq(u, l + 1, 2 * l)
<1>1. l \in Nat \ {0} /\ Len(w) \in Nat /\ Len(u) \in Nat
  BY EmptySeq
<1>2. Len(s \o w) = l + Len(w) /\ \A i \in 1..l : (s \o w)[i] = s[i]
  OBVIOUS
<1>3. \A i \in 1..Len(w) : (s \o w)[l + i] = w[i]
  OBVIOUS
<1>. HIDE DEF l
<1>4. l <= Len(w) /\ (\A i \in 1..l : s[i] = w[i]) /\ l + Len(w) <= Len(u)
  BY <1>2 DEF Begins, l
<1>5. \A i \in 1..l : i \in 1..(l + Len(w)) /\ l + i \in 1..(l + Len(w)) /\ i \in 1..Len(w)
  BY <1>1, <1>4
<1>6. \A i \in 1..l : u[i] = s[i] /\ u[l + i] = w[i]
  BY <1>2, <1>3, <1>5 DEF Begins
<1>7. 2 * l <= Len(u) /\ l + 1 <= 2 * l /\ 2 * l - (l + 1) + 1 = l /\ 2 * l \in Int /\ l + 1 \in Int
  BY <1>1, <1>4
<1>8. \A i \in 1..l : u[i] \in STRING
  BY <1>1, <1>7
<1>9. a \in Seq(STRING) /\ Len(a) = l /\ \A i \in 1..l : a[i] = u[i]
  BY <1>1, <1>8, SubSeqProperties
<1>10. \A i \in (l + 1)..(2 * l) : u[i] \in STRING
  BY <1>1, <1>7
<1>11. b \in Seq(STRING) /\ Len(b) = l
  BY <1>7, <1>10, SubSeqProperties
<1>12. ASSUME NEW i \in 1..l PROVE b[i] = u[l + i]
  <2>1. l + i = l + 1 + i - 1 /\ i \in 1..(2 * l - (l + 1) + 1)
    BY <1>1, <1>7
  <2>. DEFINE lo == l + 1
              hi == 2 * l
  <2>2. lo \in Int /\ hi \in Int /\ (\A k \in lo..hi : u[k] \in STRING) /\ b = SubSeq(u, lo, hi)
    BY <1>7, <1>10
  <2>3. i \in 1..(hi - lo + 1) /\ lo + i - 1 = l + i
    BY <2>1
  <2>. HIDE DEF lo, hi, b
  <2>4. b[i] = u[lo + i - 1]
    BY <2>2, <2>3, SubSeqProperties
  <2>. QED  BY <2>3, <2>4
<1>. HIDE DEF a, b
<1>13. \A i \in 1..Len(a) : a[i] = b[i]
  BY <1>4, <1>6, <1>9, <1>12
<1>14. a = b
  BY <1>9, <1>11, <1>13, SeqEqual
<1>15. l \in 1..Len(u)
  BY <1>1, <1>7
<1>. QED  BY <1>7, <1>14, <1>15 DEF a, b

\* A cursor write is appended: it cannot begin with all the text so far.
LEMMA CursorEmits ==
  ASSUME ChatHubAssumptions, Unrepeating, NEW c \in 1..Len(Messages),
         NEW n \in 0..Len(Messages[c]), NEW m \in n..Len(Messages[c])
  PROVE  EmitSnapshot(Shown(c, n), Written(c, n, m)) = Shown(c, m)
<1>. DEFINE s == Shown(c, n)
            w == Written(c, n, m)
<1>1. s \in Seq(STRING)
  BY ShownIs
<1>2. w \in Seq(STRING) /\ s \o w = Shown(c, m)
  BY WrittenIs
<1>3. m \in 0..Len(Messages[c]) /\ Whole \in Seq(STRING)
  <2>1. Messages[c] \in Seq(STRING) /\ Whole \in Seq(STRING)
    BY BeforeIs
  <2>. QED  BY <2>1
<1>4. Begins(s \o w, Whole)
  BY <1>2, <1>3, ShownIs
<1>. HIDE DEF s, w
<1>5. ASSUME s # <<>>, IsPrefix(s, w) PROVE FALSE
  <2>1. Begins(s, w)
    BY <1>1, <1>2, <1>5, PrefixIs
  <2>2. \E l \in 1..Len(Whole) :
          2 * l <= Len(Whole) /\ SubSeq(Whole, 1, l) = SubSeq(Whole, l + 1, 2 * l)
    BY <1>1, <1>2, <1>3, <1>4, <1>5, <2>1, Repeats
  <2>. QED  BY <2>2 DEF Unrepeating
<1>6. EmitSnapshot(s, w) = s \o w
  BY <1>5 DEF EmitSnapshot
<1>. QED  BY <1>2, <1>6 DEF s, w

\* A snapshot of the first message replaces the text so far; an empty one is nothing.
LEMMA SnapshotEmits ==
  ASSUME ChatHubAssumptions, NEW c \in 1..Len(Messages),
         NEW n \in 0..Len(Messages[c]), NEW m \in 0..Len(Messages[c]),
         m = 0 \/ (m >= n /\ c = 1)
  PROVE  EmitSnapshot(Shown(c, n), SubSeq(Messages[c], 1, m)) = Shown(c, IF m > n THEN m ELSE n)
<1>. DEFINE s == Shown(c, n)
            w == SubSeq(Messages[c], 1, m)
<1>1. s \in Seq(STRING) /\ Messages[c] \in Seq(STRING) /\ Before(1) = <<>>
  BY ShownIs, BeforeIs
<1>2. w \in Seq(STRING) /\ Len(w) = m
  <2>1. 0 \in 0..Len(Messages[c]) /\ m \in 0..Len(Messages[c])
    BY <1>1
  <2>2. SubSeq(Messages[c], 0 + 1, m) \in Seq(STRING)
        /\ Len(SubSeq(Messages[c], 0 + 1, m)) = m - 0
    BY <1>1, <2>1, Said
  <2>. QED  BY <2>1, <2>2
<1>3. CASE m = 0
  <2>. HIDE DEF s, w
  <2>1. w = <<>>
    BY <1>2, <1>3
  <2>2. s # <<>> => ~IsPrefix(s, w)
    <3>1. Len(w) = 0 /\ (s # <<>> => Len(s) \in Nat \ {0})
      BY <1>1, <1>2, <1>3, EmptySeq
    <3>. QED  BY <3>1 DEF IsPrefix
  <2>3. EmitSnapshot(s, w) = s
    BY <1>1, <2>1, <2>2 DEF EmitSnapshot
  <2>4. ~(m > n)
    BY <1>3
  <2>. QED  BY <2>3, <2>4 DEF s, w
<1>4. CASE m >= n /\ c = 1
  <2>1. \A k \in 0..Len(Messages[c]) : Shown(c, k) = SubSeq(Messages[c], 1, k)
    <3>. SUFFICES ASSUME NEW k \in 0..Len(Messages[c])
                  PROVE  Shown(c, k) = SubSeq(Messages[c], 1, k)
      OBVIOUS
    <3>1. 0 \in 0..Len(Messages[c]) /\ k \in 0..Len(Messages[c])
      BY <1>1
    <3>2. SubSeq(Messages[c], 0 + 1, k) \in Seq(STRING)
      BY <1>1, <3>1, Said
    <3>3. SubSeq(Messages[c], 1, k) \in Seq(STRING)
      BY <3>2
    <3>4. <<>> \o SubSeq(Messages[c], 1, k) = SubSeq(Messages[c], 1, k)
      BY <3>3
    <3>. QED  BY <1>1, <1>4, <3>4 DEF Shown
  <2>2. w = Shown(c, m) /\ w = s \o Written(c, n, m) /\ Written(c, n, m) \in Seq(STRING)
    <3>1. m \in n..Len(Messages[c])
      BY <1>1, <1>4
    <3>. QED  BY <2>1, <3>1, WrittenIs
  <2>. DEFINE v == Written(c, n, m)
  <2>. HIDE DEF s, w, v
  <2>3. Begins(s, w)
    <3>1. \A i \in 1..Len(s) : (s \o v)[i] = s[i]
      BY <1>1, <2>2 DEF v
    <3>2. Len(s \o v) = Len(s) + Len(v) /\ Len(v) \in Nat /\ Len(s) \in Nat
      BY <1>1, <2>2 DEF v
    <3>. QED  BY <2>2, <3>1, <3>2 DEF Begins, v
  <2>4. EmitSnapshot(s, w) = w
    <3>1. CASE s = <<>>
      BY <1>2, <3>1 DEF EmitSnapshot
    <3>2. CASE s # <<>>
      BY <1>1, <1>2, <2>3, <3>2, PrefixIs DEF EmitSnapshot
    <3>. QED  BY <3>1, <3>2
  <2>5. (IF m > n THEN m ELSE n) = m
    BY <1>4
  <2>. QED  BY <2>2, <2>4, <2>5 DEF s, w
<1>. QED  BY <1>3, <1>4

-----------------------------------------------------------------------------
\* The preparation of a call: the docIds are those of the images gone through, and
\* ChatHub is asked when all are.
Images(n) == {k \in 1..n : req.attachments[k] = "image"}
Prepared ==
    /\ docs = Images(handled)
    /\ pc \in {"start", "uploading", "dialling", "greeting", "asking"} => asked = None
    /\ pc \in {"dialling", "greeting", "asking", "top", "reading"} =>
         handled = Len(req.attachments)
    /\ pc \in {"top", "reading"} => asked # None
    /\ asked # None => handled = Len(req.attachments)

\* The answer as far as ChatHub has given it.
Answered ==
    /\ StreamFollows
    /\ deltas \in Seq(STRING) /\ Len(streamed) <= Len(deltas)
    /\ ~snapped => deltas = Revealed
    /\ Whole = <<>> => deltas = <<>>
    /\ final = IF resultSent THEN Whole ELSE <<>>

Reported == ToolsCounted /\ seen = called

LEMMA RequestTyped ==
  ASSUME ChatHubAssumptions, TypeOK
  PROVE  /\ req \in Request /\ Len(req.attachments) \in Nat
         /\ DOMAIN req.attachments = 1..Len(req.attachments)
         /\ \A D \in SUBSET DOMAIN req.attachments : None # D
BY DEF ChatHubAssumptions, TypeOK, Request

LEMMA NextType ==
  ASSUME ChatHubAssumptions, TypeOK, Prepared, [Next]_vars
  PROVE  TypeOK'
<1>. USE DEF TypeOK, Goto, Return, question, answer, client, chatHub, clocks, calls
<1>0. /\ MaxExtra \in Nat /\ Len(req.attachments) \in Nat
      /\ DOMAIN req.attachments = 1..Len(req.attachments)
      /\ Messages \in Seq(Seq(STRING)) /\ handled \in Nat
  BY RequestTyped DEF ChatHubAssumptions
<1>1. CASE UNCHANGED vars
  BY <1>1 DEF vars, Saying
<1>2. CASE SetUp
  <2>1. UNCHANGED Saying
    BY <1>2 DEF SetUp, Begin, Upload, Dial, Greet, Greeted, Ask, SetUpFails, Saying
  <2>2. CASE SetUpFails \/ Begin \/ Dial \/ Greet \/ Greeted
    BY <2>1, <2>2 DEF SetUpFails, Begin, Dial, Greet, Greeted
  <2>3. CASE Upload
    <3>1. handled + 1 \in 0..Len(req.attachments) /\ handled + 1 \in DOMAIN req.attachments
      BY <1>0, <2>3 DEF Upload
    <3>2. asked = None
      BY <2>3 DEF Upload, Prepared
    <3>. QED  BY <2>1, <2>3, <3>1, <3>2 DEF Upload
  <2>4. CASE Ask
    <3>1. Annotated = docs
      BY <1>0, <2>4 DEF Ask, Prepared, Annotated, Images
    <3>. QED  BY <2>1, <2>4, <3>1 DEF Ask
  <2>. QED  BY <1>2, <2>2, <2>3, <2>4 DEF SetUp
<1>3. CASE Loop \/ ReadFails \/ OtherFrame \/ CompletionError
  BY <1>3 DEF Loop, ReadFails, OtherFrame, CompletionError, Saying
<1>4. CASE Completion
  BY <1>4 DEF Completion, Saying
<1>5. CASE Update
  <2>1. PICK cursor \in said..Len(Saying), m \in 0..Len(Saying) :
          said' = (IF m > cursor THEN m ELSE cursor) /\ snapped' = (snapped \/ m > 0)
    BY <1>5 DEF Update
  <2>2. Len(Saying) \in Nat
    BY <1>0 DEF Saying
  <2>3. UNCHANGED Saying /\ said' \in 0..Len(Saying)
    BY <1>5, <2>1, <2>2 DEF Update, Saying
  <2>4. extra' \in 0..MaxExtra
    BY <1>0, <1>5 DEF Update
  <2>. QED  BY <1>5, <2>1, <2>3, <2>4 DEF Update
<1>6. CASE ResultFrame
  BY <1>6 DEF ResultFrame, Saying
<1>7. ASSUME NEW t \in Tools, ToolUpdate(t) PROVE TypeOK'
  <2>1. PICK times \in 0..MaxInside :
          /\ emitted' = [emitted EXCEPT ![t] = Told(t, times)]
          /\ inside' = [inside EXCEPT ![t] = @ + times]
    BY <1>7 DEF ToolUpdate
  <2>2. times \in Nat /\ emitted \in [Tools -> Nat] /\ inside \in [Tools -> Nat]
    BY DEF ChatHubAssumptions
  <2>3. Told(t, times) \in Nat /\ inside[t] + times \in Nat
    BY <2>2 DEF Told
  <2>4. emitted' \in [Tools -> Nat] /\ inside' \in [Tools -> Nat]
    BY <2>1, <2>2, <2>3
  <2>5. extra' \in 0..MaxExtra
    BY <1>0, <1>7 DEF ToolUpdate
  <2>. QED  BY <1>7, <2>4, <2>5 DEF ToolUpdate, Saying
<1>8. CASE NextMessage
  <2>1. current' \in DOMAIN Messages /\ said' = 0
    BY <1>0, <1>8 DEF NextMessage
  <2>2. Len(Saying') \in Nat
    BY <1>0, <2>1 DEF Saying
  <2>3. said' \in 0..Len(Saying')
    BY <2>1, <2>2
  <2>. QED  BY <1>8, <2>1, <2>3 DEF NextMessage
<1>9. CASE Cancel \/ TimePasses
  BY <1>9 DEF Cancel, TimePasses, Saying
<1>. QED  BY <1>1, <1>2, <1>3, <1>4, <1>5, <1>6, <1>7, <1>8, <1>9 DEF Next, Frame

LEMMA NextPrepared ==
  ASSUME ChatHubAssumptions, TypeOK, Prepared, [Next]_vars
  PROVE  Prepared'
<1>0. /\ Len(req.attachments) \in Nat /\ handled \in Nat
      /\ DOMAIN req.attachments = 1..Len(req.attachments)
      /\ \A D \in SUBSET DOMAIN req.attachments : None # D
  BY RequestTyped DEF TypeOK
<1>1. CASE UNCHANGED question /\ pc' \in {pc, "returned"}
  BY <1>1 DEF Prepared, Images, question
<1>2. CASE /\ UNCHANGED question
           /\ <<pc, pc'>> \in {<<"start", "uploading">>, <<"dialling", "greeting">>,
                               <<"greeting", "asking">>, <<"top", "reading">>, <<"reading", "top">>}
  BY <1>2 DEF Prepared, Images, question
<1>3. CASE Dial
  BY <1>3 DEF Dial, Goto, Prepared, Images, question
<1>4. CASE Upload
  <2>1. CASE req.attachments[handled + 1] = "corrupt"
    BY <1>1, <1>4, <2>1 DEF Upload, Return
  <2>2. CASE req.attachments[handled + 1] # "corrupt"
    <3>1. /\ handled' = handled + 1 /\ req' = req /\ asked' = asked
          /\ pc = "uploading" /\ pc' = "uploading"
          /\ docs' = IF req.attachments[handled + 1] = "image"
                       THEN docs \cup {handled + 1} ELSE docs
      BY <1>4, <2>2 DEF Upload, Goto
    <3>2. docs' = Images(handled)'
      <4>1. 1..(handled + 1) = (1..handled) \cup {handled + 1}
        BY <1>0
      <4>. QED  BY <3>1, <4>1 DEF Prepared, Images
    <3>. QED  BY <3>1, <3>2 DEF Prepared
  <2>. QED  BY <2>1, <2>2
<1>5. CASE Ask
  <2>1. Annotated \in SUBSET DOMAIN req.attachments
    BY DEF Annotated
  <2>2. asked' # None
    BY <1>0, <1>5, <2>1 DEF Ask
  <2>. QED  BY <1>5, <2>2 DEF Ask, Goto, Prepared, Images
<1>6. CASE SetUp
  <2>1. CASE Begin \/ Greet \/ Greeted \/ SetUpFails
    BY <1>1, <1>2, <2>1 DEF Begin, Greet, Greeted, SetUpFails, Goto, Return
  <2>. QED  BY <1>3, <1>4, <1>5, <1>6, <2>1 DEF SetUp
<1>7. CASE Loop \/ ReadFails \/ OtherFrame \/ CompletionError \/ Completion
  BY <1>1, <1>2, <1>7 DEF Loop, ReadFails, OtherFrame, CompletionError, Completion, Goto, Return
<1>8. CASE Update \/ ResultFrame
  BY <1>2, <1>8 DEF Update, ResultFrame
<1>9. ASSUME NEW t \in Tools, ToolUpdate(t) PROVE Prepared'
  BY <1>2, <1>9 DEF ToolUpdate
<1>10. CASE NextMessage \/ Cancel \/ TimePasses \/ UNCHANGED vars
  BY <1>1, <1>10 DEF NextMessage, Cancel, TimePasses, vars, client
<1>. QED  BY <1>6, <1>7, <1>8, <1>9, <1>10 DEF Next, Frame

\* What an update makes of the text, whatever it holds.
LEMMA UpdateShows ==
  ASSUME ChatHubAssumptions, Orderly, Unrepeating, TypeOK, Answered, Update
  PROVE  /\ StreamFollows' /\ current' = current
         /\ said' \in said..Len(Saying) /\ Saying # <<>>
         /\ ~snapped' => ~snapped /\ deltas' = Revealed'
         /\ deltas' \in Seq(STRING) /\ Len(streamed') <= Len(deltas')
<1>0. /\ current \in 1..Len(Messages) /\ Saying = Messages[current]
      /\ Saying \in Seq(STRING) /\ Len(Saying) \in Nat /\ said \in 0..Len(Saying)
      /\ snapped \in BOOLEAN
  BY DEF ChatHubAssumptions, TypeOK, Saying
<1>1. PICK cursor \in said..Len(Saying), m \in 0..Len(Saying) :
        /\ m = 0 \/ (m >= cursor /\ current \in SnapshotsOf)
        /\ cursor > said \/ m > 0
        /\ LET written  == SubSeq(Saying, said + 1, cursor)
               snapshot == SubSeq(Saying, 1, m) IN
           /\ streamed' = EmitSnapshot(EmitSnapshot(streamed, written), snapshot)
           /\ deltas' = deltas \o written \o snapshot
        /\ said' = IF m > cursor THEN m ELSE cursor
        /\ snapped' = (snapped \/ m > 0)
  BY DEF Update
<1>. DEFINE written  == SubSeq(Saying, said + 1, cursor)
            snapshot == SubSeq(Saying, 1, m)
<1>2. UNCHANGED current /\ Revealed = Shown(current, said) /\ Revealed' = Shown(current, said')
  BY DEF Update, Revealed, Shown, Saying, Before
<1>3. streamed = Shown(current, said)
  BY <1>2 DEF Answered, StreamFollows
<1>4. written = Written(current, said, cursor)
  BY <1>0 DEF Written
<1>5. EmitSnapshot(streamed, written) = Shown(current, cursor)
  BY <1>0, <1>3, <1>4, CursorEmits
<1>6. m = 0 \/ (m >= cursor /\ current = 1)
  BY <1>1 DEF Orderly
<1>7. EmitSnapshot(Shown(current, cursor), snapshot) = Shown(current, said')
  <2>1. cursor \in 0..Len(Messages[current]) /\ m \in 0..Len(Messages[current])
    BY <1>0
  <2>2. EmitSnapshot(Shown(current, cursor), SubSeq(Messages[current], 1, m))
          = Shown(current, IF m > cursor THEN m ELSE cursor)
    BY <1>0, <1>6, <2>1, SnapshotEmits
  <2>. QED  BY <1>0, <1>1, <2>2
<1>8. StreamFollows'
  BY <1>1, <1>2, <1>5, <1>7 DEF StreamFollows
<1>9. said' \in said..Len(Saying) /\ Saying # <<>>
  <2>1. said' \in said..Len(Saying) /\ Len(Saying) # 0
    BY <1>0, <1>1
  <2>. QED  BY <2>1
<1>10. ASSUME ~snapped' PROVE ~snapped /\ deltas' = Revealed'
  <2>0. ~snapped /\ ~(m > 0)
    BY <1>1, <1>10, Zenon
  <2>1. ~snapped /\ m = 0 /\ said' = cursor
    BY <1>0, <1>1, <2>0
  <2>2. deltas = Shown(current, said)
    BY <1>2, <2>1 DEF Answered
  <2>3. Shown(current, said) \o written = Shown(current, cursor)
    BY <1>0, <1>4, WrittenIs
  <2>4. snapshot = <<>>
    BY <2>1
  <2>5. Shown(current, cursor) \in Seq(STRING)
    <3>1. cursor \in 0..Len(Messages[current])
      BY <1>0
    <3>. QED  BY <1>0, <3>1, ShownIs
  <2>6. deltas' = Shown(current, cursor) \o <<>>
    BY <1>1, <2>2, <2>3, <2>4
  <2>. QED  BY <1>2, <2>1, <2>5, <2>6
<1>11. deltas' \in Seq(STRING) /\ Len(streamed') <= Len(deltas')
  <2>1. /\ streamed' = Shown(current, said')
        /\ said' \in 0..Len(Messages[current])
    BY <1>0, <1>2, <1>8, <1>9 DEF StreamFollows
  <2>2. /\ Len(streamed) = Len(Before(current)) + said
        /\ Len(streamed') = Len(Before(current)) + said' /\ Len(Before(current)) \in Nat
    <3>1. \A n \in 0..Len(Messages[current]) :
            Len(Shown(current, n)) = Len(Before(current)) + n
      BY <1>0, ShownIs
    <3>2. Before(current) \in Seq(STRING) /\ said \in 0..Len(Messages[current])
      BY <1>0, BeforeIs
    <3>3. Len(Before(current)) \in Nat
      BY <3>2
    <3>. QED  BY <1>3, <2>1, <3>1, <3>2, <3>3
  <2>3. written \in Seq(STRING) /\ Len(written) = cursor - said
    BY <1>0, <1>4, WrittenIs
  <2>4. snapshot \in Seq(STRING) /\ Len(snapshot) = m
    <3>1. 0 \in 0..Len(Saying) /\ m \in 0..Len(Saying)
      BY <1>0
    <3>2. SubSeq(Saying, 0 + 1, m) \in Seq(STRING) /\ Len(SubSeq(Saying, 0 + 1, m)) = m - 0
      BY <1>0, <3>1, Said
    <3>. QED  BY <3>1, <3>2
  <2>5. deltas' = deltas \o written \o snapshot /\ deltas \in Seq(STRING)
        /\ Len(streamed) <= Len(deltas) /\ said' = IF m > cursor THEN m ELSE cursor
    BY <1>1 DEF Answered
  <2>. HIDE DEF written, snapshot
  <2>6. deltas' \in Seq(STRING) /\ Len(deltas') = Len(deltas) + (cursor - said) + m
        /\ Len(deltas) \in Nat
    BY <2>3, <2>4, <2>5
  <2>. QED  BY <1>0, <2>2, <2>5, <2>6
<1>. QED  BY <1>2, <1>8, <1>9, <1>10, <1>11

LEMMA RevealedNext ==
  ASSUME ChatHubAssumptions, TypeOK, NextMessage
  PROVE  Revealed' = Revealed
<1>0. /\ current \in 1..Len(Messages) /\ current + 1 \in 1..Len(Messages)
      /\ current' = current + 1 /\ said' = 0 /\ said = Len(Messages[current])
      /\ current + 1 - 1 = current
  BY DEF ChatHubAssumptions, TypeOK, NextMessage, Saying
<1>1. /\ Before(current) \in Seq(STRING) /\ Messages[current] \in Seq(STRING)
      /\ Before(current + 1) = Before(current) \o Messages[current]
      /\ Before(current + 1) \in Seq(STRING)
  BY <1>0, BeforeIs
<1>2. Revealed = Before(current) \o SubSeq(Messages[current], 1, Len(Messages[current]))
  BY <1>0 DEF Revealed, Before, Saying
<1>3. Revealed' = Before(current + 1) \o SubSeq(Messages[current + 1], 1, 0)
  BY <1>0 DEF Revealed, Before, Saying
<1>4. SubSeq(Messages[current], 1, Len(Messages[current])) = Messages[current]
  BY <1>1, SubSeqFull
<1>5. SubSeq(Messages[current + 1], 1, 0) = <<>>
  BY SubSeqEmpty
<1>6. Before(current + 1) \o <<>> = Before(current + 1)
  BY <1>1
<1>7. Revealed = Before(current + 1) /\ Revealed' = Before(current + 1) \o <<>>
  BY <1>1, <1>2, <1>3, <1>4, <1>5, Zenon
<1>. QED  BY <1>6, <1>7, Zenon

LEMMA NextAnswered ==
  ASSUME ChatHubAssumptions, Orderly, Unrepeating, TypeOK, Answered, [Next]_vars
  PROVE  Answered'
<1>1. CASE UNCHANGED <<streamed, deltas, final, current, said, snapped, resultSent>>
  BY <1>1 DEF Answered, StreamFollows, Revealed, Saying
<1>2. CASE SetUp \/ Loop \/ ReadFails \/ OtherFrame \/ CompletionError \/ Completion
  BY <1>1, <1>2 DEF SetUp, Begin, Upload, Dial, Greet, Greeted, Ask, SetUpFails, Loop, ReadFails,
       OtherFrame, CompletionError, Completion, Goto, Return, answer, chatHub
<1>3. CASE Cancel \/ TimePasses \/ UNCHANGED vars \/ \E t \in Tools : ToolUpdate(t)
  BY <1>1, <1>3 DEF Cancel, TimePasses, vars, client, chatHub, answer, ToolUpdate
<1>4. CASE ResultFrame
  BY <1>4 DEF ResultFrame, Answered, StreamFollows, Revealed, Saying
<1>5. CASE NextMessage
  <2>1. UNCHANGED <<streamed, deltas, final, snapped, resultSent>>
    BY <1>5 DEF NextMessage, client, answer
  <2>. QED  BY <1>5, <2>1, RevealedNext DEF Answered, StreamFollows
<1>6. CASE Update
  <2>1. /\ StreamFollows' /\ Saying # <<>>
        /\ ~snapped' => deltas' = Revealed'
        /\ deltas' \in Seq(STRING) /\ Len(streamed') <= Len(deltas')
    BY <1>6, UpdateShows
  <2>2. UNCHANGED <<final, resultSent>>
    BY <1>6 DEF Update
  <2>3. Whole # <<>>
    <3>1. /\ current \in 1..Len(Messages) /\ Saying \in Seq(STRING) /\ Saying = Messages[current]
          /\ Len(Saying) \in Nat
      BY DEF ChatHubAssumptions, TypeOK, Saying
    <3>2. Len(Saying) # 0
      BY <2>1, <3>1
    <3>3. /\ Before(current) \in Seq(STRING) /\ Whole \in Seq(STRING)
          /\ Begins(Before(current) \o Saying, Whole)
      BY <3>1, BeforeIs
    <3>4. Len(Before(current) \o Saying) = Len(Before(current)) + Len(Saying)
          /\ Len(Before(current)) \in Nat
      BY <3>1, <3>3
    <3>5. Len(Before(current)) + Len(Saying) <= Len(Whole)
      BY <3>3, <3>4 DEF Begins
    <3>6. Len(Whole) # 0
      BY <3>1, <3>2, <3>4, <3>5
    <3>. QED  BY <3>6
  <2>. QED  BY <2>1, <2>2, <2>3 DEF Answered
<1>. QED  BY <1>2, <1>3, <1>4, <1>5, <1>6 DEF Next, Frame

LEMMA NextReported ==
  ASSUME ChatHubAssumptions, TypeOK, Reported, [Next]_vars
  PROVE  Reported'
<1>1. CASE UNCHANGED <<seen, emitted, called, inside>>
  BY <1>1 DEF Reported, ToolsCounted
<1>2. ASSUME NEW t \in Tools, ToolUpdate(t) PROVE Reported'
  <2>1. PICK times \in 0..MaxInside :
          /\ emitted' = [emitted EXCEPT ![t] = Told(t, times)]
          /\ inside' = [inside EXCEPT ![t] = @ + times]
    BY <1>2 DEF ToolUpdate
  <2>2. times \in Nat /\ emitted \in [Tools -> Nat] /\ inside \in [Tools -> Nat]
    BY DEF ChatHubAssumptions, TypeOK
  <2>3. seen' = seen \cup {t} /\ called' = called \cup {t} /\ seen = called
    BY <1>2 DEF ToolUpdate, Reported
  <2>4. ASSUME NEW u \in Tools
        PROVE  emitted'[u] = inside'[u] + (IF u \in called' THEN 1 ELSE 0)
    <3>1. emitted[u] = inside[u] + (IF u \in called THEN 1 ELSE 0)
      BY DEF Reported, ToolsCounted
    <3>2. CASE u = t
      BY <2>1, <2>2, <2>3, <3>1, <3>2 DEF Told
    <3>3. CASE u # t
      <4>1. emitted'[u] = emitted[u] /\ inside'[u] = inside[u]
        BY <2>1, <2>2, <3>3
      <4>2. u \in called' <=> u \in called
        BY <2>3, <3>3
      <4>. QED  BY <3>1, <4>1, <4>2
    <3>. QED  BY <3>2, <3>3
  <2>. QED  BY <2>3, <2>4 DEF Reported, ToolsCounted
<1>3. CASE \/ SetUp \/ Loop \/ ReadFails \/ OtherFrame \/ CompletionError \/ Completion
           \/ Update \/ ResultFrame \/ NextMessage \/ Cancel \/ TimePasses \/ UNCHANGED vars
  BY <1>1, <1>3 DEF SetUp, Begin, Upload, Dial, Greet, Greeted, Ask, SetUpFails, Loop, ReadFails,
       OtherFrame, CompletionError, Completion, Goto, Return, Update, ResultFrame, NextMessage,
       Cancel, TimePasses, vars, client, answer, chatHub, calls
<1>. QED  BY <1>2, <1>3 DEF Next, Frame

-----------------------------------------------------------------------------
\* The steps of a call as steps of the promise.
CallInv == TypeOK /\ Prepared /\ Answered

LEMMA AskedIs ==
  ASSUME ChatHubAssumptions, TypeOK, Prepared
  PROVE  Asked = IF asked = None THEN "no" ELSE "whole"
<1>1. CASE asked = None
  <2>1. {k \in DOMAIN req.attachments : req.attachments[k] = "image"} \in SUBSET DOMAIN req.attachments
    OBVIOUS
  <2>2. asked # {k \in DOMAIN req.attachments : req.attachments[k] = "image"}
    BY <1>1, <2>1, RequestTyped
  <2>. QED  BY <1>1, <2>2 DEF Asked
<1>2. CASE asked # None
  <2>1. asked = {k \in DOMAIN req.attachments : req.attachments[k] = "image"}
    BY <1>2, RequestTyped DEF TypeOK, Prepared, Images
  <2>. QED  BY <1>2, <2>1 DEF Asked
<1>. QED  BY <1>1, <1>2

\* What is shown grows as a beginning of the answer.
LEMMA ShownGrows ==
  ASSUME ChatHubAssumptions, NEW c \in 1..Len(Messages),
         NEW n \in 0..Len(Messages[c]), NEW m \in n..Len(Messages[c])
  PROVE  /\ Shown(c, m) \in {SubSeq(Whole, 1, k) : k \in Len(Shown(c, n))..Len(Whole)}
         /\ IsPrefix(Shown(c, n), Shown(c, m))
<1>. DEFINE s == Shown(c, n)
            t == Shown(c, m)
            w == Written(c, n, m)
<1>1. s \in Seq(STRING) /\ w \in Seq(STRING) /\ s \o w = t
  BY ShownIs, WrittenIs
<1>2. t \in Seq(STRING) /\ Begins(t, Whole) /\ Whole \in Seq(STRING)
  <2>1. Messages[c] \in Seq(STRING) /\ Whole \in Seq(STRING)
    BY BeforeIs
  <2>2. m \in 0..Len(Messages[c])
    BY <2>1
  <2>. QED  BY <2>1, <2>2, ShownIs
<1>. HIDE DEF s, t, w
<1>3. Len(t) = Len(s) + Len(w) /\ (\A i \in 1..Len(s) : t[i] = s[i])
      /\ Len(s) \in Nat /\ Len(w) \in Nat
  BY <1>1
<1>4. IsPrefix(s, t)
  <2>1. Begins(s, t)
    BY <1>3 DEF Begins
  <2>. QED  BY <1>1, <1>2, <2>1, PrefixIs
<1>5. Len(t) \in Len(s)..Len(Whole)
  BY <1>2, <1>3 DEF Begins
<1>6. t = SubSeq(Whole, 1, Len(t))
  <2>1. IsPrefix(t, Whole)
    BY <1>2, PrefixIs
  <2>2. SubSeq(t, 1, Len(t)) = t
    BY <1>2, SubSeqFull
  <2>. QED  BY <2>1, <2>2 DEF IsPrefix
<1>7. \E k \in Len(s)..Len(Whole) : t = SubSeq(Whole, 1, k)
  BY <1>5, <1>6, Zenon
<1>8. t \in {SubSeq(Whole, 1, k) : k \in Len(s)..Len(Whole)}
  BY <1>7, Zenon
<1>. QED  BY <1>4, <1>8, Zenon DEF s, t

LEMMA ToStream ==
  ASSUME ChatHubAssumptions, Orderly, Unrepeating, CallInv, CallInv', Update
  PROVE  Promise!Stream
<1>1. /\ UNCHANGED <<question, abrupt, outcome, text>> /\ pc = "reading"
      /\ said \in 0..Len(Messages[current]) /\ said' \in said..Len(Messages[current])
      /\ streamed = Revealed /\ streamed' = Revealed'
      /\ current \in 1..Len(Messages) /\ current' = current
  BY UpdateShows DEF Update, CallInv, TypeOK, Answered, StreamFollows, ChatHubAssumptions, Saying
<1>2. outcome = "pending" /\ Asked = "whole" /\ Asked' = Asked
  <2>1. asked # None /\ outcome = "pending"
    BY <1>1 DEF CallInv, Prepared, TypeOK
  <2>2. UNCHANGED <<req, asked>>
    BY <1>1 DEF question
  <2>3. Asked' = Asked
    BY <2>2 DEF Asked
  <2>. QED  BY <2>1, <2>3, AskedIs DEF CallInv
<1>3. streamed = Shown(current, said) /\ streamed' = Shown(current, said')
  BY <1>1 DEF Revealed, Shown, Before, Saying
<1>4. /\ streamed' \in {SubSeq(Whole, 1, k) : k \in Len(streamed)..Len(Whole)}
      /\ IsPrefix(streamed, streamed')
  BY <1>1, <1>3, ShownGrows
<1>5. Promise!IsPrefix(streamed, streamed')
  BY <1>4 DEF IsPrefix, Promise!IsPrefix
<1>. QED  BY <1>1, <1>2, <1>4, <1>5 DEF Promise!Stream

\* A success returns the whole answer: that of the result frame, or what was said when
\* ChatHub had said everything and sent no snapshot.
LEMMA ToSucceed ==
  ASSUME ChatHubAssumptions, CallInv, Completion
  PROVE  Promise!Succeed
<1>1. outcome = "pending" /\ Asked = "whole" /\ Asked' = Asked /\ outcome' = "ok"
      /\ streamed' = streamed
  <2>1. asked # None /\ outcome = "pending"
    BY DEF Completion, CallInv, Prepared, TypeOK
  <2>2. UNCHANGED <<req, asked, streamed>> /\ outcome' = "ok"
    BY DEF Completion, Return, question, answer
  <2>3. Asked' = Asked
    BY <2>2 DEF Asked
  <2>. QED  BY <2>1, <2>2, <2>3, AskedIs DEF CallInv
<1>2. text' = IF final = <<>> THEN deltas ELSE final
  BY DEF Completion, Return
<1>3. PICK inWords \in BOOLEAN :
        /\ inWords \/ resultSent \/ (current = Len(Messages) /\ said = Len(Saying))
        /\ abrupt' = (~resultSent /\ (inWords \/ snapped))
  BY DEF Completion
<1>4. {resultSent, snapped} \subseteq BOOLEAN /\ abrupt' \in BOOLEAN
  <2>1. {resultSent, snapped} \subseteq BOOLEAN
    BY DEF CallInv, TypeOK
  <2>. QED  BY <1>3, <2>1, Zenon
<1>5. ASSUME abrupt' PROVE Len(text') >= Len(streamed)
  <2>1. ~resultSent
    BY <1>3, <1>5, Zenon
  <2>2. final = <<>>
    BY <2>1 DEF CallInv, Answered
  <2>3. deltas \in Seq(STRING) /\ Len(streamed) <= Len(deltas)
    BY DEF CallInv, Answered
  <2>. QED  BY <1>2, <2>2, <2>3
<1>6. ASSUME ~abrupt' PROVE text' = Whole
  <2>1. CASE resultSent
    BY <1>2, <2>1 DEF CallInv, Answered
  <2>2. CASE ~resultSent
    <3>0. ~snapped /\ ~inWords
      BY <1>3, <1>6, <2>2, Zenon
    <3>1. /\ current = Len(Messages) /\ said = Len(Messages[current])
      BY <1>3, <2>2, <3>0 DEF Saying
    <3>2. deltas = Revealed /\ final = <<>>
      BY <2>2, <3>0 DEF CallInv, Answered
    <3>3. /\ current \in 1..Len(Messages) /\ Messages[current] \in Seq(STRING)
      BY DEF CallInv, TypeOK, ChatHubAssumptions
    <3>4. Revealed = Before(current) \o SubSeq(Messages[current], 1, Len(Messages[current]))
      BY <3>1 DEF Revealed, Before, Saying
    <3>5. SubSeq(Messages[current], 1, Len(Messages[current])) = Messages[current]
      BY <3>3, SubSeqFull
    <3>6. Revealed = Before(current + 1)
      BY <3>3, <3>4, <3>5, BeforeIs
    <3>7. Revealed = Whole
      BY <3>1, <3>6, BeforeIs
    <3>. QED  BY <1>2, <3>2, <3>7
  <2>. QED  BY <2>1, <2>2
<1>. QED  BY <1>1, <1>4, <1>5, <1>6 DEF Promise!Succeed

LEMMA ToAsk ==
  ASSUME ChatHubAssumptions, CallInv, CallInv', Ask
  PROVE  Promise!Ask
<1>1. asked = None /\ outcome = "pending" /\ UNCHANGED <<streamed, abrupt, outcome, text>>
  BY DEF CallInv, Prepared, TypeOK, Ask, Goto, answer, chatHub
<1>2. Asked = "no"
  BY <1>1, AskedIs DEF CallInv
<1>3. Asked' = "whole"
  <2>1. /\ req' = req /\ asked' = {k \in DOMAIN req.attachments : req.attachments[k] = "image"}
    <3>1. handled = Len(req.attachments) /\ docs = Images(handled)
      BY DEF Ask, CallInv, Prepared
    <3>2. DOMAIN req.attachments = 1..Len(req.attachments)
      BY RequestTyped DEF CallInv
    <3>. QED  BY <3>1, <3>2 DEF Ask, Annotated, Images
  <2>2. asked' # None
    <3>1. pc' = "top"
      BY DEF Ask, Goto
    <3>. QED  BY <3>1 DEF CallInv, Prepared
  <2>. QED  BY <2>1, <2>2 DEF Asked
<1>. QED  BY <1>1, <1>2, <1>3 DEF Promise!Ask

promised == <<Asked, streamed, abrupt, outcome, text>>

LEMMA NextPromise ==
  ASSUME ChatHubAssumptions, Orderly, Unrepeating, CallInv, CallInv', [Next]_vars
  PROVE  [Promise!Next]_promised
<1>1. CASE UNCHANGED <<req, asked, streamed, abrupt, outcome, text>>
  <2>1. Asked' = Asked
    BY <1>1 DEF Asked
  <2>. QED  BY <1>1, <2>1 DEF promised
<1>2. ASSUME pc # "returned", outcome' = "error", text' = <<>>, UNCHANGED <<req, asked, streamed, abrupt>>
      PROVE  Promise!Fail
  <2>1. Asked' = Asked
    BY <1>2 DEF Asked
  <2>2. outcome = "pending" /\ text = <<>>
    BY <1>2 DEF CallInv, TypeOK
  <2>. QED  BY <1>2, <2>1, <2>2 DEF Promise!Fail
<1>3. CASE SetUp
  <2>1. CASE SetUpFails
    BY <1>2, <2>1 DEF SetUpFails, Return, question, answer, chatHub, Promise!Next
  <2>2. CASE Begin \/ Upload
    BY <1>1, <1>2, <2>2 DEF Begin, Upload, Goto, Return, question, answer, chatHub, Promise!Next
  <2>3. CASE Dial \/ Greet \/ Greeted
    BY <1>1, <2>3 DEF Dial, Greet, Greeted, Goto, question, answer, chatHub
  <2>4. CASE Ask
    BY <2>4, ToAsk DEF Promise!Next
  <2>. QED  BY <1>3, <2>1, <2>2, <2>3, <2>4 DEF SetUp
<1>4. CASE Loop \/ ReadFails \/ CompletionError \/ OtherFrame
  BY <1>1, <1>2, <1>4 DEF Loop, ReadFails, CompletionError, OtherFrame, Goto, Return, question,
       answer, chatHub, Promise!Next
<1>5. CASE Completion
  BY <1>5, ToSucceed DEF Promise!Next
<1>6. CASE Update
  BY <1>6, ToStream DEF Promise!Next
<1>7. CASE ResultFrame \/ \E t \in Tools : ToolUpdate(t)
  BY <1>1, <1>7 DEF ResultFrame, ToolUpdate, question, chatHub
<1>8. CASE NextMessage \/ Cancel \/ TimePasses \/ UNCHANGED vars
  BY <1>1, <1>8 DEF NextMessage, Cancel, TimePasses, vars, client, question, answer, chatHub
<1>. QED  BY <1>3, <1>4, <1>5, <1>6, <1>7, <1>8 DEF Next, Frame

-----------------------------------------------------------------------------
LEMMA InitCall ==
  ASSUME ChatHubAssumptions, Init
  PROVE  CallInv /\ Reported /\ Promise!Init
<1>1. /\ req \in Request /\ Len(req.attachments) \in Nat
      /\ Messages \in Seq(Seq(STRING)) /\ Messages # <<>>
      /\ \A D \in SUBSET DOMAIN req.attachments : None # D
  BY DEF ChatHubAssumptions, Init, Request
<1>2. Len(Messages) \in Nat \ {0} /\ DOMAIN Messages = 1..Len(Messages)
  BY <1>1, EmptySeq
<1>3. TypeOK
  <2>1. current \in DOMAIN Messages /\ Len(Saying) \in Nat
    BY <1>1, <1>2 DEF Init, Saying
  <2>2. pc = "start" /\ req \in Requests /\ outcome = "pending" /\ text = <<>>
    BY DEF Init
  <2>3. /\ handled \in 0..Len(req.attachments) /\ docs \subseteq DOMAIN req.attachments
        /\ asked \in {None, docs} /\ seen \subseteq Tools /\ called \subseteq Tools
        /\ {emitted, inside} \subseteq [Tools -> Nat]
    BY <1>1 DEF Init
  <2>4. said \in 0..Len(Saying) /\ extra \in 0..MaxExtra
    BY <2>1 DEF Init, ChatHubAssumptions
  <2>5. {snapped, resultSent, abrupt, cancelled, late} \subseteq BOOLEAN
    BY DEF Init
  <2>. QED  BY <2>1, <2>2, <2>3, <2>4, <2>5 DEF TypeOK
<1>4. Prepared
  BY DEF Init, Prepared, Images
<1>5. Revealed = <<>>
  <2>1. Revealed = Before(1) \o SubSeq(Messages[1], 1, 0)
    BY DEF Init, Revealed, Before, Saying
  <2>2. SubSeq(Messages[1], 1, 0) = <<>>
    BY SubSeqEmpty
  <2>. QED  BY <2>1, <2>2, BeforeIs
<1>6. Answered
  BY <1>5 DEF Init, Answered, StreamFollows
<1>7. Reported
  BY DEF Init, Reported, ToolsCounted
<1>8. Asked = "no"
  BY <1>3, <1>4, AskedIs DEF Init
<1>9. Promise!Init
  BY <1>8 DEF Init, Promise!Init
<1>. QED  BY <1>3, <1>4, <1>6, <1>7, <1>9 DEF CallInv

LEMMA CallInvariant ==
  ASSUME Orderly, Unrepeating
  PROVE  Spec => []CallInv
<1>1. Init => CallInv
  BY InitCall, ChatHubAssumptions
<1>2. CallInv /\ [Next]_vars => CallInv'
  BY NextType, NextPrepared, NextAnswered, ChatHubAssumptions DEF CallInv
<1>. QED  BY <1>1, <1>2, PTL DEF Spec

\* The variables of a call keep their types, and a call has an outcome exactly when it
\* has returned: of any ChatHub.
THEOREM TypeCorrect == Spec => []TypeOK
<1>1. Init => TypeOK /\ Prepared
  BY InitCall, ChatHubAssumptions DEF CallInv
<1>2. TypeOK /\ Prepared /\ [Next]_vars => (TypeOK /\ Prepared)'
  BY NextType, NextPrepared, ChatHubAssumptions
<1>. QED  BY <1>1, <1>2, PTL DEF Spec

\* emitDelta and emitSnapshot show exactly what ChatHub has revealed, however an answer
\* that does not begin with a repetition is divided into cursor writes and snapshots.
THEOREM TextFollows == ASSUME Orderly, Unrepeating PROVE Spec => []StreamFollows
<1>1. CallInv => StreamFollows
  BY DEF CallInv, Answered
<1>. QED  BY <1>1, CallInvariant, PTL

\* extractToolEvents drops what it has seen, classifyUpdateMessages does not: a call is
\* reported once and once more for each place in messages[], of any ChatHub.
THEOREM CallsCounted == Spec => []ToolsCounted
<1>1. Init => TypeOK /\ Prepared /\ Reported
  BY InitCall, ChatHubAssumptions DEF CallInv
<1>2. TypeOK /\ Prepared /\ Reported /\ [Next]_vars => (TypeOK /\ Prepared /\ Reported)'
  BY NextType, NextPrepared, NextReported, ChatHubAssumptions
<1>3. Reported => ToolsCounted
  BY DEF Reported
<1>. QED  BY <1>1, <1>2, <1>3, PTL DEF Spec

\* chatWithHandlers implements what its callers rely on: it asks with every image or not
\* at all, shows a beginning of the answer, and returns the whole answer or an error.
THEOREM KeepsPromise == ASSUME Orderly, Unrepeating PROVE Spec => PromiseKept
<1>1. Init => Promise!Init
  BY InitCall, ChatHubAssumptions
<1>2. CallInv /\ CallInv' /\ [Next]_vars => [Promise!Next]_promised
  BY NextPromise, ChatHubAssumptions
<1>. QED  BY <1>1, <1>2, CallInvariant, PTL DEF Spec, PromiseKept, Promise!Spec, promised
=============================================================================
