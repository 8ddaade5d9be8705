--------------------------- MODULE ChannelFlowProofs ---------------------------
(***************************************************************************)
(* Proofs about ChannelFlow, for every window size, packet limit, chunk    *)
(* cap and amount of data: FlowInv is inductive, it implies the safety     *)
(* properties, and the direction implements ByteStream.                    *)
(***************************************************************************)
EXTENDS ChannelFlow, SequenceTheorems, TLAPS

--------------------------------------------------------------------------------
(* Arithmetic, stated once so that the provers meet it without other facts. *)

\* What fits in the room that is left stays within the total.
LEMMA RoomLeft ==
    ASSUME NEW s \in Nat, NEW n \in Nat, NEW d \in Nat, NEW a \in Nat,
           n <= d + a - s
    PROVE  s + n <= d + a
OBVIOUS

\* The window left by a message that stays within the total.
LEMMA WindowLeft ==
    ASSUME NEW r \in Nat, NEW l \in Nat, NEW d \in Nat, NEW g \in Nat, r + l <= d + g
    PROVE  /\ l <= d + g - r
           /\ (d + g - r) - l \in Nat /\ (d + g - r) - l = d + g - (r + l)
OBVIOUS

\* A window that grows by a grant stays below the u32 maximum.
LEMMA NoSaturation ==
    ASSUME NEW d \in Nat, NEW a \in Nat, NEW l \in Nat, NEW s \in Nat, NEW u \in Nat,
           a + l <= s, d <= u
    PROVE  /\ (d + a - s) + l = d + (a + l) - s
           /\ (d + a - s) + l <= u
OBVIOUS

\* What ends before a point ends before everything behind that point.
LEMMA Between ==
    ASSUME NEW x \in Nat, NEW l \in Nat, NEW m \in Nat, NEW y \in Nat,
           x + l <= m, m <= y
    PROVE  x + l <= y
OBVIOUS

\* An index into the second part of a concatenation.
LEMMA SecondPart ==
    ASSUME NEW a \in Nat, NEW b \in Nat, NEW i \in a+1..a+b
    PROVE  i - a \in 1..b
OBVIOUS

--------------------------------------------------------------------------------
(* Chains of messages. *)

\* Reading the head of a chain leaves the chain of what is behind it.
LEMMA ChainTail ==
    ASSUME NEW M, NEW w \in Seq(M), \A m \in M : m.off \in Nat /\ m.len \in Nat,
           NEW a \in Nat, NEW b \in Nat, Chain(w, a, b), w # <<>>
    PROVE  /\ w[1].off = a /\ a + w[1].len <= b /\ w[1].len \in Nat
           /\ Tail(w) \in Seq(M)
           /\ Len(Tail(w)) = Len(w) - 1
           /\ \A i \in 1..Len(Tail(w)) : Tail(w)[i] = w[i+1]
           /\ Chain(Tail(w), a + w[1].len, b)
<1>1. /\ Len(w) \in Nat \ {0} /\ Tail(w) \in Seq(M) /\ Len(Tail(w)) = Len(w) - 1
      /\ \A i \in 1..Len(Tail(w)) : Tail(w)[i] = w[i+1]
      /\ \A i \in 1..Len(w) : w[i] \in M
  OBVIOUS
<1>2. w[1].off = a /\ a + w[1].len <= b /\ w[1].len \in Nat
  BY <1>1 DEF Chain
<1>3. Chain(Tail(w), a + w[1].len, b)
  <2> DEFINE t == Tail(w)
  <2>0. \A i \in 1..Len(w) : w[i].off \in Nat /\ w[i].len \in Nat
    BY <1>1
  <2>1. t = <<>> => a + w[1].len = b
    <3> SUFFICES ASSUME Tail(w) = <<>> PROVE a + w[1].len = b
      OBVIOUS
    <3>1. Len(Tail(w)) = 0
      <4>1. Len(<<>>) = 0
        OBVIOUS
      <4> QED BY <4>1
    <3>2. Len(w) = 1
      BY <3>1, <1>1
    <3> QED BY <3>2, <1>2 DEF Chain
  <2>2. t # <<>> => t[1].off = a + w[1].len /\ t[Len(t)].off + t[Len(t)].len = b
    BY <1>1, <1>2, <2>0 DEF Chain
  <2>3. \A i \in 1..Len(t) : a + w[1].len <= t[i].off /\ t[i].off + t[i].len <= b
    <3> SUFFICES ASSUME NEW i \in 1..Len(t)
                 PROVE a + w[1].len <= t[i].off /\ t[i].off + t[i].len <= b
      OBVIOUS
    <3>1. i + 1 \in 1..Len(w) /\ 1 \in 1..Len(w) /\ 1 < i + 1 /\ t[i] = w[i+1]
      BY <1>1
    <3> QED BY <3>1, <1>2, <2>0 DEF Chain
  <2>4. \A i, j \in 1..Len(t) : i < j => t[i].off + t[i].len <= t[j].off
    <3> SUFFICES ASSUME NEW i \in 1..Len(t), NEW j \in 1..Len(t), i < j
                 PROVE t[i].off + t[i].len <= t[j].off
      OBVIOUS
    <3>1. i + 1 \in 1..Len(w) /\ j + 1 \in 1..Len(w) /\ i + 1 < j + 1
          /\ t[i] = w[i+1] /\ t[j] = w[j+1]
      BY <1>1
    <3> QED BY <3>1 DEF Chain
  <2>5. \A i \in 1..Len(t) : i + 1 <= Len(t) => t[i+1].off = t[i].off + t[i].len
    <3> SUFFICES ASSUME NEW i \in 1..Len(t), i + 1 <= Len(t)
                 PROVE t[i+1].off = t[i].off + t[i].len
      OBVIOUS
    <3>1. i + 1 \in 1..Len(w) /\ (i + 1) + 1 <= Len(w)
          /\ t[i] = w[i+1] /\ t[i+1] = w[(i+1)+1]
      BY <1>1
    <3> QED BY <3>1 DEF Chain
  <2> QED BY <2>1, <2>2, <2>3, <2>4, <2>5 DEF Chain
<1> QED BY <1>1, <1>2, <1>3

\* Two adjacent chains make one.
LEMMA ChainConcat ==
    ASSUME NEW M, NEW v \in Seq(M), NEW w \in Seq(M),
           \A m \in M : m.off \in Nat /\ m.len \in Nat,
           NEW a \in Nat, NEW b \in Nat, NEW c \in Nat,
           Chain(v, a, b), Chain(w, b, c)
    PROVE  /\ v \o w \in Seq(M)
           /\ Len(v \o w) = Len(v) + Len(w)
           /\ \A i \in 1..Len(v) : (v \o w)[i] = v[i]
           /\ \A i \in Len(v)+1..Len(v)+Len(w) : (v \o w)[i] = w[i - Len(v)]
           /\ Chain(v \o w, a, c) /\ a <= b /\ b <= c
<1> DEFINE u == v \o w
<1>1. /\ u \in Seq(M) /\ Len(v) \in Nat /\ Len(w) \in Nat /\ Len(u) = Len(v) + Len(w)
      /\ \A i \in 1..Len(v) : u[i] = v[i]
      /\ \A i \in Len(v)+1..Len(v)+Len(w) : u[i] = w[i - Len(v)]
  OBVIOUS
<1>2. /\ \A i \in 1..Len(v) : v[i].off \in Nat /\ v[i].len \in Nat
      /\ \A i \in 1..Len(w) : w[i].off \in Nat /\ w[i].len \in Nat
  <2>1. \A i \in 1..Len(v) : v[i] \in M
    OBVIOUS
  <2>2. \A i \in 1..Len(w) : w[i] \in M
    OBVIOUS
  <2> QED BY <2>1, <2>2
<1>3. a <= b /\ b <= c
  <2>1. ASSUME v # <<>> PROVE a <= b
    <3>1. 1 \in 1..Len(v)
      BY <2>1, <1>1
    <3>2. a <= v[1].off /\ v[1].off + v[1].len <= b /\ v[1].off \in Nat /\ v[1].len \in Nat
      BY <3>1, <1>2 DEF Chain
    <3> QED BY <3>2
  <2>2. ASSUME w # <<>> PROVE b <= c
    <3>1. 1 \in 1..Len(w)
      BY <2>2, <1>1
    <3>2. b <= w[1].off /\ w[1].off + w[1].len <= c /\ w[1].off \in Nat /\ w[1].len \in Nat
      BY <3>1, <1>2 DEF Chain
    <3> QED BY <3>2
  <2>3. (v = <<>> => a = b) /\ (w = <<>> => b = c)
    BY DEF Chain
  <2> QED BY <2>1, <2>2, <2>3
<1>4. u = <<>> => a = c
  BY <1>1 DEF Chain
<1>5. u # <<>> => u[1].off = a /\ u[Len(u)].off + u[Len(u)].len = c
  <2>1. CASE v = <<>>
    BY <2>1, <1>1 DEF Chain
  <2>2. CASE w = <<>> /\ v # <<>>
    <3>1. Len(v) \in 1..Len(v) /\ 1 \in 1..Len(v) /\ Len(u) = Len(v)
      BY <2>2, <1>1
    <3> QED BY <3>1, <2>2, <1>1 DEF Chain
  <2>3. CASE v # <<>> /\ w # <<>>
    <3>1. /\ 1 \in 1..Len(v) /\ Len(u) \in Len(v)+1..Len(v)+Len(w)
          /\ Len(u) - Len(v) = Len(w)
      BY <2>3, <1>1
    <3> QED BY <3>1, <2>3, <1>1 DEF Chain
  <2> QED BY <2>1, <2>2, <2>3
<1>6. \A i \in 1..Len(u) : a <= u[i].off /\ u[i].off + u[i].len <= c
  <2> SUFFICES ASSUME NEW i \in 1..Len(u)
               PROVE a <= u[i].off /\ u[i].off + u[i].len <= c
    OBVIOUS
  <2>1. CASE i \in 1..Len(v)
    BY <2>1, <1>1, <1>2, <1>3 DEF Chain
  <2>2. CASE i \in Len(v)+1..Len(v)+Len(w)
    <3>1. i - Len(v) \in 1..Len(w) /\ u[i] = w[i - Len(v)]
      BY <2>2, <1>1
    <3> QED BY <3>1, <1>2, <1>3 DEF Chain
  <2> QED BY <2>1, <2>2, <1>1
<1>7. \A i, j \in 1..Len(u) : i < j => u[i].off + u[i].len <= u[j].off
  <2> SUFFICES ASSUME NEW i \in 1..Len(u), NEW j \in 1..Len(u), i < j
               PROVE u[i].off + u[i].len <= u[j].off
    OBVIOUS
  <2>1. CASE j \in 1..Len(v)
    <3>1. i \in 1..Len(v)
      BY <2>1, <1>1
    <3> QED BY <3>1, <2>1, <1>1 DEF Chain
  <2>2. CASE i \in 1..Len(v) /\ j \in Len(v)+1..Len(v)+Len(w)
    <3>1. j - Len(v) \in 1..Len(w) /\ u[j] = w[j - Len(v)] /\ u[i] = v[i]
      BY <2>2, <1>1
    <3>2. u[i].off + u[i].len <= b /\ b <= u[j].off
      BY <3>1, <2>2 DEF Chain
    <3>3. u[i].off \in Nat /\ u[i].len \in Nat /\ u[j].off \in Nat
      BY <3>1, <2>2, <1>2
    <3> HIDE DEF u
    <3> QED BY <3>2, <3>3, Between
  <2>3. CASE i \in Len(v)+1..Len(v)+Len(w) /\ j \in Len(v)+1..Len(v)+Len(w)
    <3>1. /\ i - Len(v) \in 1..Len(w) /\ j - Len(v) \in 1..Len(w)
          /\ i - Len(v) < j - Len(v)
          /\ u[i] = w[i - Len(v)] /\ u[j] = w[j - Len(v)]
      BY <2>3, <1>1
    <3> QED BY <3>1 DEF Chain
  <2> QED BY <2>1, <2>2, <2>3, <1>1
<1>8. \A i \in 1..Len(u) : i + 1 <= Len(u) => u[i+1].off = u[i].off + u[i].len
  <2> SUFFICES ASSUME NEW i \in 1..Len(u), i + 1 <= Len(u)
               PROVE u[i+1].off = u[i].off + u[i].len
    OBVIOUS
  <2>1. CASE i + 1 \in 1..Len(v)
    <3>1. i \in 1..Len(v)
      BY <2>1, <1>1
    <3> QED BY <3>1, <2>1, <1>1 DEF Chain
  <2>2. CASE i = Len(v)
    <3>1. /\ v # <<>> /\ w # <<>> /\ i \in 1..Len(v) /\ i + 1 \in Len(v)+1..Len(v)+Len(w)
          /\ (i + 1) - Len(v) = 1
      BY <2>2, <1>1
    <3>2. u[i] = v[Len(v)] /\ u[i+1] = w[1]
      BY <3>1, <2>2, <1>1
    <3>3. v[Len(v)].off + v[Len(v)].len = b /\ w[1].off = b
      BY <3>1 DEF Chain
    <3>4. u[i].off + u[i].len = b
      BY <3>2, <3>3
    <3>5. u[i+1].off = b
      BY <3>2, <3>3
    <3> HIDE DEF u
    <3> QED BY <3>4, <3>5
  <2>3. CASE i > Len(v)
    <3>1. /\ i - Len(v) \in 1..Len(w) /\ (i - Len(v)) + 1 <= Len(w)
          /\ u[i] = w[i - Len(v)] /\ u[i+1] = w[(i - Len(v)) + 1]
      <4>1. i \in Len(v)+1..Len(v)+Len(w) /\ i + 1 \in Len(v)+1..Len(v)+Len(w)
            /\ (i + 1) - Len(v) = (i - Len(v)) + 1
        BY <2>3, <1>1
      <4> QED BY <4>1, <1>1
    <3> QED BY <3>1 DEF Chain
  <2>4. i + 1 \in 1..Len(v) \/ i = Len(v) \/ i > Len(v)
    <3>1. i \in Nat /\ i >= 1 /\ Len(v) \in Nat
      BY <1>1
    <3> QED BY <3>1
  <2> HIDE DEF u
  <2> QED BY <2>1, <2>2, <2>3, <2>4
<1> QED BY <1>1, <1>3, <1>4, <1>5, <1>6, <1>7, <1>8 DEF Chain

\* A single message is a chain.
LEMMA ChainOne ==
    ASSUME NEW m, NEW a \in Nat, NEW b \in Nat,
           m.off = a, m.len \in Nat, a + m.len = b
    PROVE  Chain(<<m>>, a, b)
<1>1. Len(<<m>>) = 1 /\ <<m>>[1] = m /\ <<m>> # <<>>
  OBVIOUS
<1> QED BY <1>1 DEF Chain

\* A message at the end of a chain extends it.
LEMMA ChainAppend ==
    ASSUME NEW M, NEW w \in Seq(M), NEW m \in M,
           \A x \in M : x.off \in Nat /\ x.len \in Nat,
           NEW a \in Nat, NEW b \in Nat, Chain(w, a, b), m.off = b
    PROVE  /\ Append(w, m) \in Seq(M) /\ Append(w, m) # <<>>
           /\ Len(Append(w, m)) = Len(w) + 1
           /\ \A i \in 1..Len(w) : Append(w, m)[i] = w[i]
           /\ Append(w, m)[Len(w) + 1] = m
           /\ Chain(Append(w, m), a, b + m.len)
<1>1. <<m>> \in Seq(M) /\ m.len \in Nat /\ b + m.len \in Nat
  OBVIOUS
<1>2. Chain(<<m>>, b, b + m.len)
  BY <1>1, ChainOne
<1>3. Chain(w \o <<m>>, a, b + m.len)
  BY <1>1, <1>2, ChainConcat
<1>4. Append(w, m) = w \o <<m>>
  OBVIOUS
<1> QED BY <1>1, <1>3, <1>4

\* Messages have a position and a length.
LEMMA MessageFields ==
    /\ \A m \in DataMsg : m.off \in Nat /\ m.len \in Nat /\ m.type \in DataTypes
                          /\ (m.type # "DATA" => m.len = 0)
    /\ \A m \in BackMsg : m.off \in Nat /\ m.len \in Nat /\ m.type \in BackTypes
                          /\ (m.type # "WINDOW_ADJUST" => m.len = 0)
BY DEF DataMsg, BackMsg

\* However drain_output cuts its bytes, the messages cover them in order.
LEMMA ChunkingsCover ==
    ASSUME NEW p \in Nat, NEW n \in Nat, NEW c \in Chunkings(p, n)
    PROVE  /\ c \in Seq(DataMsg) /\ Chain(c, p, p + n)
           /\ \A i \in 1..Len(c) : c[i].type = "DATA"
<1> DEFINE R == [type : {"DATA"}, off : p..p+n-1, len : 1..ChunkLimit]
<1>1. PICK k \in 0..n : c \in [1..k -> R]
  BY DEF Chunkings
<1>3. R \subseteq DataMsg
  <2>1. ChunkLimit \in Int
    BY FlowAssumption DEF ChunkLimit, Min2, AtLeast1
  <2> QED BY <2>1 DEF DataMsg, DataTypes
<1>4. \A i \in 1..Len(c) : c[i] \in R
  <2> HIDE DEF R
  <2>1. c \in Seq(R)
    BY <1>1, SeqDef
  <2>2. Len(c) = k
    BY <1>1, <2>1
  <2> QED BY <1>1, <2>2
<1>5. c \in Seq(DataMsg)
  <2> HIDE DEF R
  <2>1. c \in [1..k -> DataMsg] /\ k \in Nat
    BY <1>1, <1>3
  <2> QED BY <2>1, SeqDef
<1>6. Chain(c, p, p + n)
  BY DEF Chunkings
<1> QED BY <1>4, <1>5, <1>6

\* The end marks of a stream that ends at position p.
LEMMA EndMarks ==
    ASSUME NEW p \in Nat
    PROVE  /\ EndMessages(p) \in Seq(DataMsg) /\ Chain(EndMessages(p), p, p)
           /\ \A i \in 1..Len(EndMessages(p)) :
                 /\ EndMessages(p)[i].off = p
                 /\ EndMessages(p)[i].type = "CLOSE" =>
                       i = Len(EndMessages(p)) /\ SenderRole = "server"
<1> DEFINE e == EndMessages(p)
<1>1. \A t \in DataTypes : Msg(t, p, 0) \in DataMsg
  BY DEF Msg, DataMsg
<1>2. CASE SenderRole = "server"
  <2>1. /\ Len(e) = 3 /\ e \in Seq(DataMsg) /\ e # <<>>
        /\ e[1] = Msg("EXIT_STATUS", p, 0) /\ e[2] = Msg("EOF", p, 0)
        /\ e[3] = Msg("CLOSE", p, 0)
    BY <1>1, <1>2 DEF EndMessages, DataTypes
  <2>2. \A i \in 1..Len(e) : e[i].off = p /\ e[i].len = 0 /\ (e[i].type = "CLOSE" => i = 3)
    BY <2>1 DEF Msg
  <2>3. Chain(e, p, p)
    BY <2>1, <2>2 DEF Chain
  <2> QED BY <2>1, <2>2, <2>3, <1>2
<1>3. CASE SenderRole # "server"
  <2>1. Len(e) = 1 /\ e \in Seq(DataMsg) /\ e # <<>> /\ e[1] = Msg("EOF", p, 0)
    BY <1>1, <1>3 DEF EndMessages, DataTypes
  <2>2. \A i \in 1..Len(e) : e[i].off = p /\ e[i].len = 0 /\ e[i].type = "EOF"
    BY <2>1 DEF Msg
  <2>3. Chain(e, p, p)
    BY <2>1, <2>2 DEF Chain
  <2> QED BY <2>1, <2>2, <2>3
<1> QED BY <1>2, <1>3

--------------------------------------------------------------------------------
\* What flush_channel does to the sender's counters and to the messages in
\* transit: it sends within the window, appends to the chain, and puts the end
\* marks behind all data.  Once the end is sent it does nothing.
LEMMA FlushFacts ==
    ASSUME TypeOK, TransitInv, EndInv, snd_open, NEW q \in Nat, NEW w \in Nat,
           NEW want \in BOOLEAN, sent_end => q = 0, flush_channel(q, w, want)
    PROVE  /\ \E n \in Nat : /\ n <= q /\ n <= w /\ out' = q - n
                             /\ remote_window' = w - n /\ sent' = sent + n
           /\ sent_end' \in BOOLEAN /\ (sent_end => sent_end' /\ sent' = sent)
           /\ (sent_end' => (sent_end \/ want) /\ out' = 0)
           /\ wire' \in Seq(DataMsg)
           /\ (rcv_open => Chain(wire', received, sent'))
           /\ (~rcv_open => wire' = <<>> /\ sent_end)
           /\ \A i \in 1..Len(wire') :
                 /\ wire'[i].type = "EOF" => sent_end' /\ wire'[i].off = sent'
                 /\ wire'[i].type = "CLOSE" =>
                       i = Len(wire') /\ SenderRole = "server" /\ sent_end'
<1> DEFINE n   == Drainable(q, w)
           end == EndDue(q, n, want)
<1>0. \A m \in DataMsg : m.off \in Nat /\ m.len \in Nat
  BY MessageFields
<1>1. n \in Nat /\ n <= q /\ n <= w /\ (q = 0 => n = 0)
  BY DEF Drainable, Min2
<1>2. end \in BOOLEAN /\ (end => q = n /\ want /\ ~sent_end) /\ sent_end \in BOOLEAN
  BY DEF EndDue, TypeOK
<1> HIDE DEF n, end
<1>3. PICK c \in Chunkings(sent, n) :
         wire' = wire \o (IF end THEN c \o EndMessages(sent + n) ELSE c)
  BY DEF flush_channel, n, end
<1>4. /\ sent \in Nat /\ received \in Nat /\ wire \in Seq(DataMsg)
      /\ out' = q - n /\ remote_window' = w - n /\ sent' = sent + n
      /\ sent_end' = (sent_end \/ end)
  BY DEF flush_channel, TypeOK, n, end
<1>5. \E k \in Nat : /\ k <= q /\ k <= w /\ out' = q - k
                     /\ remote_window' = w - k /\ sent' = sent + k
  BY <1>1, <1>4
<1>6. /\ sent_end' \in BOOLEAN /\ (sent_end => sent_end' /\ sent' = sent)
      /\ (sent_end' => (sent_end \/ want) /\ out' = 0)
  BY <1>1, <1>2, <1>4
<1>7. /\ c \in Seq(DataMsg) /\ Chain(c, sent, sent + n)
      /\ \A i \in 1..Len(c) : c[i].type = "DATA"
  BY <1>1, <1>3, <1>4, ChunkingsCover
<1> DEFINE tail == IF end THEN c \o EndMessages(sent + n) ELSE c
<1>8. /\ tail \in Seq(DataMsg) /\ Chain(tail, sent, sent + n)
      /\ \A i \in 1..Len(tail) :
            /\ tail[i].type = "EOF" => end /\ tail[i].off = sent + n
            /\ tail[i].type = "CLOSE" => end /\ i = Len(tail) /\ SenderRole = "server"
  <2>1. CASE ~end
    BY <2>1, <1>7
  <2>2. CASE end
    <3> DEFINE e == EndMessages(sent + n)
    <3>0. sent + n \in Nat
      BY <1>1, <1>4
    <3>1. /\ e \in Seq(DataMsg) /\ Chain(e, sent + n, sent + n)
          /\ \A i \in 1..Len(e) :
                e[i].off = sent + n /\ (e[i].type = "CLOSE" => i = Len(e) /\ SenderRole = "server")
      BY <3>0, EndMarks
    <3> HIDE DEF e
    <3>3. /\ c \o e \in Seq(DataMsg) /\ Len(c \o e) = Len(c) + Len(e)
          /\ \A i \in 1..Len(c) : (c \o e)[i] = c[i]
          /\ \A i \in Len(c)+1..Len(c)+Len(e) : (c \o e)[i] = e[i - Len(c)]
          /\ Chain(c \o e, sent, sent + n)
      BY <3>1, <3>0, <1>0, <1>4, <1>7, ChainConcat
    <3>4. ASSUME NEW i \in 1..Len(c \o e)
          PROVE  /\ (c \o e)[i].type = "EOF" => (c \o e)[i].off = sent + n
                 /\ (c \o e)[i].type = "CLOSE" =>
                       i = Len(c \o e) /\ SenderRole = "server"
      <4>0. Len(c) \in Nat /\ Len(e) \in Nat
        BY <1>7, <3>1
      <4>1. CASE i \in 1..Len(c)
        BY <4>1, <3>3, <1>7
      <4>2. CASE i \in Len(c)+1..Len(c)+Len(e)
        <5>1. i - Len(c) \in 1..Len(e) /\ (c \o e)[i] = e[i - Len(c)]
          BY <4>0, <4>2, <3>3, SecondPart
        <5> QED BY <5>1, <3>1, <3>3, <4>0
      <4> QED BY <4>0, <4>1, <4>2, <3>3
    <3>5. tail = c \o e
      BY <2>2 DEF e
    <3> HIDE DEF tail
    <3> QED BY <3>3, <3>4, <3>5, <2>2
  <2> QED BY <2>1, <2>2
<1>9. wire' = wire \o tail
  BY <1>3
<1> HIDE DEF tail
<1>10. CASE sent_end
  <2>1. n = 0 /\ ~end /\ q = 0
    BY <1>10, <1>1, <1>2
  <2>2. tail = <<>>
    <3>1. 1 \in 1..Len(tail) => FALSE
      <4> SUFFICES ASSUME 1 \in 1..Len(tail) PROVE FALSE
        OBVIOUS
      <4>1. Chunkings(sent, n) = {k \in UNION {[1..k -> [type : {"DATA"}, off : sent..sent+n-1, len : 1..ChunkLimit]] : k \in 0..n} : Chain(k, sent, sent + n)}
        BY DEF Chunkings
      <4>2. tail = c
        BY <2>1 DEF tail
      <4>3. c \in [1..0 -> [type : {"DATA"}, off : sent..sent+n-1, len : 1..ChunkLimit]]
        BY <1>3, <4>1, <2>1
      <4>4. Len(c) = 0
        BY <4>3, <1>7
      <4> QED BY <4>2, <4>4
    <3> QED BY <3>1, <1>8
  <2>3. wire' = wire
    BY <2>2, <1>9, <1>4
  <2> QED BY <2>1, <2>3, <1>10, <1>4, <1>5, <1>6 DEF TransitInv, EndInv, Finished
<1>11. CASE ~sent_end
  <2>1. /\ rcv_open
        /\ \A i \in 1..Len(wire) : wire[i].type # "EOF" /\ wire[i].type # "CLOSE"
    BY <1>11 DEF EndInv, Finished
  <2>2. sent + n \in Nat /\ Chain(wire, received, sent)
    BY <1>1, <1>4, <2>1 DEF TransitInv
  <2>3. /\ wire' \in Seq(DataMsg) /\ Len(wire') = Len(wire) + Len(tail)
        /\ \A i \in 1..Len(wire) : wire'[i] = wire[i]
        /\ \A i \in Len(wire)+1..Len(wire)+Len(tail) : wire'[i] = tail[i - Len(wire)]
        /\ Chain(wire', received, sent')
    BY <2>2, <1>0, <1>4, <1>8, <1>9, ChainConcat
  <2>4. ASSUME NEW i \in 1..Len(wire')
        PROVE  /\ wire'[i].type = "EOF" => sent_end' /\ wire'[i].off = sent'
               /\ wire'[i].type = "CLOSE" =>
                     i = Len(wire') /\ SenderRole = "server" /\ sent_end'
    <3>0. Len(wire) \in Nat /\ Len(tail) \in Nat
      BY <1>4, <1>8
    <3>1. CASE i \in 1..Len(wire)
      BY <3>1, <2>1, <2>3
    <3>2. CASE i \in Len(wire)+1..Len(wire)+Len(tail)
      <4>0. i - Len(wire) \in 1..Len(tail)
        BY <3>0, <3>2, SecondPart
      <4>1. i - Len(wire) \in 1..Len(tail) /\ wire'[i] = tail[i - Len(wire)]
        BY <4>0, <3>2, <2>3
      <4>2. /\ wire'[i].type = "EOF" => end /\ wire'[i].off = sent + n
            /\ wire'[i].type = "CLOSE" =>
                  end /\ i - Len(wire) = Len(tail) /\ SenderRole = "server"
        BY <4>1, <1>8
      <4>3. i - Len(wire) = Len(tail) => i = Len(wire')
        BY <3>0, <3>2, <2>3
      <4>4. end => sent_end'
        BY <1>2, <1>4
      <4> QED BY <4>2, <4>3, <4>4, <1>4
    <3> QED BY <3>0, <3>1, <3>2, <2>3
  <2> QED BY <2>1, <2>3, <2>4, <1>5, <1>6
<1> QED BY <1>10, <1>11, <1>2

\* What holds of the backward messages after the receiver appends one.
LEMMA BackAppend ==
    ASSUME TypeOK, TransitInv, OpenInv, NEW m \in BackMsg, m.off = granted,
           m.type # "CONFIRMATION", back' = Append(back, m)
    PROVE  /\ back' \in Seq(BackMsg) /\ Chain(back', adjusted, granted + m.len)
           /\ back' # <<>> /\ (~remote_set => back'[1].type = "CONFIRMATION")
           /\ \A i \in 1..Len(back') :
                 /\ back'[i].type = "CONFIRMATION" => i = 1 /\ ~remote_set
                 /\ back'[i] = m \/ (i \in 1..Len(back) /\ back'[i] = back[i])
<1>1. /\ back \in Seq(BackMsg) /\ Chain(back, adjusted, granted)
      /\ adjusted \in Nat /\ granted \in Nat
      /\ \A x \in BackMsg : x.off \in Nat /\ x.len \in Nat
  BY MessageFields DEF TypeOK, TransitInv
<1>2. /\ back' \in Seq(BackMsg) /\ back' # <<>> /\ Len(back') = Len(back) + 1
      /\ \A i \in 1..Len(back) : back'[i] = back[i]
      /\ back'[Len(back) + 1] = m
      /\ Chain(back', adjusted, granted + m.len)
  <2>1. Chain(Append(back, m), adjusted, granted + m.len)
    BY <1>1, ChainAppend
  <2>2. /\ back' \in Seq(BackMsg) /\ back' # <<>> /\ Len(back') = Len(back) + 1
        /\ \A i \in 1..Len(back) : back'[i] = back[i]
        /\ back'[Len(back) + 1] = m
    BY <1>1
  <2> QED BY <2>1, <2>2
<1>3. Len(back) \in Nat
  BY <1>1
<1>4. \A i \in 1..Len(back') : back'[i] = m \/ (i \in 1..Len(back) /\ back'[i] = back[i])
  BY <1>2, <1>3
<1>5. ~remote_set => back'[1].type = "CONFIRMATION"
  <2>1. back # <<>> => 1 \in 1..Len(back)
    BY <1>1
  <2> QED BY <2>1, <1>2 DEF OpenInv
<1> QED BY <1>2, <1>4, <1>5 DEF OpenInv

\* The receiver appends CLOSE to the backward messages.
LEMMA CloseAppend ==
    ASSUME FlowInv, granted \in Nat, back' = Append(back, Msg("CLOSE", granted, 0))
    PROVE  /\ back' \in Seq(BackMsg) /\ Chain(back', adjusted, granted)
           /\ (~remote_set => back' # <<>> /\ back'[1].type = "CONFIRMATION")
           /\ \A i \in 1..Len(back') :
                 back'[i].type = "CONFIRMATION" => i = 1 /\ ~remote_set
<1> DEFINE m == Msg("CLOSE", granted, 0)
<1>1. m \in BackMsg /\ m.off = granted /\ m.len = 0 /\ m.type = "CLOSE"
  BY DEF Msg, BackMsg, BackTypes
<1>2. back' = Append(back, m)
  OBVIOUS
<1> HIDE DEF m
<1>3. granted + m.len = granted
  BY <1>1
<1> QED BY <1>1, <1>2, <1>3, BackAppend DEF FlowInv

\* What ack_incoming does: the clamp never bites, every consumed byte is either
\* granted or pending, and the window stays what the grants imply.
LEMMA AckFacts ==
    ASSUME TypeOK, WindowInv, TransitInv, OpenInv, NEW w \in Nat, NEW r \in Nat, NEW len \in Nat,
           w = DEFAULT_WINDOW + granted - r, consumed + len <= r, ack_incoming(w, len)
    PROVE  /\ granted' \in Nat /\ granted' >= granted
           /\ unacked' \in 0..DEFAULT_WINDOW /\ local_window' \in 0..DEFAULT_WINDOW
           /\ local_window' = DEFAULT_WINDOW + granted' - r
           /\ granted' + unacked' = consumed + len
           /\ back' \in Seq(BackMsg) /\ Chain(back', adjusted, granted')
           /\ (~remote_set => back' # <<>> /\ back'[1].type = "CONFIRMATION")
           /\ \A i \in 1..Len(back') :
                 /\ back'[i].type = "CONFIRMATION" => i = 1 /\ ~remote_set
                 /\ back'[i].type = "CLOSE" => i \in 1..Len(back) /\ back[i].type = "CLOSE"
<1> DEFINE u == Acked(w, len)
<1>1. /\ DEFAULT_WINDOW \in Nat /\ granted \in Nat /\ unacked \in Nat /\ consumed \in Nat
      /\ granted + unacked = consumed /\ back \in Seq(BackMsg)
  BY FlowAssumption DEF TypeOK, WindowInv
<1>2. u = unacked + len
  BY <1>1 DEF Acked, Min2
<1>3. u \in Nat /\ w + u <= DEFAULT_WINDOW
  BY <1>1, <1>2
<1> HIDE DEF u
<1>4. CASE Grants(w, u)
  <2>1. /\ local_window' = w + u /\ unacked' = 0 /\ granted' = granted + u
        /\ back' = Append(back, Msg("WINDOW_ADJUST", granted, u))
    BY <1>4 DEF ack_incoming, u
  <2> DEFINE m == Msg("WINDOW_ADJUST", granted, u)
  <2>2. /\ m \in BackMsg /\ m.off = granted /\ m.len = u /\ m.type = "WINDOW_ADJUST"
    BY <1>1, <1>3 DEF Msg, BackMsg, BackTypes
  <2> HIDE DEF m
  <2>3. /\ back' \in Seq(BackMsg) /\ Chain(back', adjusted, granted + m.len)
        /\ back' # <<>> /\ (~remote_set => back'[1].type = "CONFIRMATION")
        /\ \A i \in 1..Len(back') :
              /\ back'[i].type = "CONFIRMATION" => i = 1 /\ ~remote_set
              /\ back'[i] = m \/ (i \in 1..Len(back) /\ back'[i] = back[i])
    BY <2>1, <2>2, BackAppend DEF m
  <2>4. /\ granted' \in Nat /\ granted' >= granted
        /\ unacked' \in 0..DEFAULT_WINDOW /\ local_window' \in 0..DEFAULT_WINDOW
        /\ local_window' = DEFAULT_WINDOW + granted' - r
        /\ granted' + unacked' = consumed + len
    BY <2>1, <1>1, <1>2, <1>3
  <2> QED BY <2>1, <2>2, <2>3, <2>4
<1>5. CASE ~Grants(w, u)
  <2>1. local_window' = w /\ unacked' = u /\ granted' = granted /\ back' = back
    BY <1>5 DEF ack_incoming, u
  <2>2. /\ granted' \in Nat /\ granted' >= granted
        /\ unacked' \in 0..DEFAULT_WINDOW /\ local_window' \in 0..DEFAULT_WINDOW
        /\ local_window' = DEFAULT_WINDOW + granted' - r
        /\ granted' + unacked' = consumed + len
    BY <2>1, <1>1, <1>2, <1>3
  <2> QED BY <2>1, <2>2, <1>1 DEF TransitInv, OpenInv
<1> QED BY <1>4, <1>5

--------------------------------------------------------------------------------
\* The invariant holds when a channel opens.
LEMMA InitFlowInv == Init => FlowInv
<1> SUFFICES ASSUME Init PROVE FlowInv
  OBVIOUS
<1>1. wire \in Seq(DataMsg) /\ Len(wire) = 0 /\ wire = <<>> /\ Chain(wire, 0, 0)
  BY DEF Init, Chain
<1>2. /\ back \in Seq(BackMsg) /\ Chain(back, 0, 0)
      /\ \A i \in 1..Len(back) :
            back[i].type = "CONFIRMATION" /\ i = 1 /\ SenderRole = "client"
      /\ (SenderRole = "client" => back # <<>> /\ back[1].type = "CONFIRMATION")
  <2>1. CASE SenderRole = "server"
    <3>1. back = <<>> /\ Len(back) = 0
      BY <2>1 DEF Init
    <3> QED BY <2>1, <3>1 DEF Chain
  <2>2. CASE SenderRole = "client"
    <3> DEFINE m == Msg("CONFIRMATION", 0, 0)
    <3>1. m \in BackMsg /\ m.type = "CONFIRMATION" /\ m.off = 0 /\ m.len = 0
      BY DEF Msg, BackMsg, BackTypes
    <3>2. back = <<m>>
      BY <2>2 DEF Init
    <3> HIDE DEF m
    <3>3. back \in Seq(BackMsg) /\ Len(back) = 1 /\ back[1] = m /\ back # <<>>
      BY <3>1, <3>2
    <3>4. Chain(back, 0, 0)
      BY <3>1, <3>2, ChainOne
    <3> QED BY <2>2, <3>1, <3>3, <3>4
  <2> QED BY <2>1, <2>2, FlowAssumption
<1>3. /\ snd_open = TRUE /\ out = 0 /\ want_end = FALSE /\ sent_end = FALSE
      /\ rcv_open = TRUE /\ local_window = DEFAULT_WINDOW /\ unacked = 0
      /\ sent_close = FALSE /\ violated = FALSE /\ eof_seen = FALSE
      /\ written = 0 /\ sent = 0 /\ received = 0
      /\ consumed = 0 /\ granted = 0 /\ adjusted = 0
  BY DEF Init
<1>4. /\ remote_set \in BOOLEAN /\ (remote_set <=> SenderRole = "server")
      /\ (remote_set => remote_window = DEFAULT_WINDOW)
      /\ (~remote_set => remote_window = 0)
  BY DEF Init
<1>5. remote_window \in 0..U32Max /\ DEFAULT_WINDOW \in Nat /\ MaxWritten \in Nat
  BY <1>4, FlowAssumption
<1>6. TypeOK
  <2>1. /\ local_window \in 0..DEFAULT_WINDOW /\ unacked \in 0..DEFAULT_WINDOW
        /\ out \in Nat /\ written \in 0..MaxWritten
    BY <1>3, <1>5
  <2> QED BY <1>1, <1>2, <1>3, <1>4, <1>5, <2>1 DEF TypeOK
<1>7. WindowInv
  BY <1>3, <1>4, <1>5 DEF WindowInv
<1>8. TransitInv
  BY <1>1, <1>2, <1>3 DEF TransitInv
<1>9. OpenInv
  BY <1>2, <1>3, <1>4, FlowAssumption DEF OpenInv
<1>10. EndInv
  <2>1. \A i \in 1..Len(back) : back[i].type # "CLOSE"
    BY <1>2
  <2> QED BY <1>1, <1>3, <2>1 DEF EndInv, Finished
<1> QED BY <1>3, <1>6, <1>7, <1>8, <1>9, <1>10 DEF FlowInv, NoWindowViolation

\* The backward messages after a step of the sender that leaves the grants alone.
BackKept ==
    /\ back' \in Seq(BackMsg) /\ Chain(back', adjusted', granted)
    /\ ~remote_set' => back' # <<>> /\ back'[1].type = "CONFIRMATION"
    /\ \A i \in 1..Len(back') :
          /\ back'[i].type = "CONFIRMATION" => i = 1 /\ ~remote_set'
          /\ SenderRole = "server" /\ back'[i].type = "CLOSE" => sent_end

\* The actions of the sender that flush: what each must establish beside the
\* flush itself.
LEMMA FlushKeeps ==
    ASSUME FlowInv, snd_open,
           NEW q \in Nat, NEW w \in 0..U32Max, NEW want \in BOOLEAN,
           sent_end => q = 0, flush_channel(q, w, want),
           want_end' = want, want_end => want,
           UNCHANGED <<snd_open, rcvVars, received, consumed, granted>>,
           written' \in 0..MaxWritten, written' = sent + q,
           adjusted' \in Nat, adjusted' <= granted, remote_set' \in BOOLEAN,
           remote_set' => w = DEFAULT_WINDOW + adjusted' - sent,
           ~remote_set' => w = 0 /\ sent = 0 /\ adjusted' = 0,
           BackKept
    PROVE  FlowInv'
<1>1. /\ \E n \in Nat : /\ n <= q /\ n <= w /\ out' = q - n
                        /\ remote_window' = w - n /\ sent' = sent + n
      /\ sent_end' \in BOOLEAN /\ (sent_end => sent_end' /\ sent' = sent)
      /\ (sent_end' => (sent_end \/ want) /\ out' = 0)
      /\ wire' \in Seq(DataMsg)
      /\ (rcv_open => Chain(wire', received, sent'))
      /\ (~rcv_open => wire' = <<>> /\ sent_end)
      /\ \A i \in 1..Len(wire') :
            /\ wire'[i].type = "EOF" => sent_end' /\ wire'[i].off = sent'
            /\ wire'[i].type = "CLOSE" =>
                  i = Len(wire') /\ SenderRole = "server" /\ sent_end'
  <2>1. w \in Nat
    BY FlowAssumption
  <2> QED BY <2>1, FlushFacts DEF FlowInv
<1>2. /\ snd_open' = snd_open /\ rcv_open' = rcv_open /\ local_window' = local_window
      /\ unacked' = unacked /\ sent_close' = sent_close /\ violated' = violated
      /\ eof_seen' = eof_seen /\ received' = received /\ consumed' = consumed
      /\ granted' = granted
  BY DEF rcvVars
<1>3. sent \in Nat /\ U32Max \in Nat /\ w <= U32Max /\ DEFAULT_WINDOW \in Nat
  BY FlowAssumption DEF FlowInv, TypeOK
<1>4. PICK n \in Nat : /\ n <= q /\ n <= w /\ out' = q - n
                      /\ remote_window' = w - n /\ sent' = sent + n
  BY <1>1
<1>5. TypeOK'
  <2>1. remote_window' \in 0..U32Max
    BY <1>3, <1>4
  <2>2. out' \in Nat /\ sent' \in Nat
    BY <1>3, <1>4
  <2> QED BY <1>1, <1>2, <2>1, <2>2 DEF FlowInv, TypeOK, BackKept
<1>6. WindowInv'
  <2>1. sent' <= DEFAULT_WINDOW + adjusted'
    <3>1. CASE remote_set'
      <4>1. n <= DEFAULT_WINDOW + adjusted' - sent
        BY <3>1, <1>4
      <4>2. sent + n <= DEFAULT_WINDOW + adjusted'
        BY <4>1, <1>3, RoomLeft
      <4> QED BY <4>2, <1>4
    <3>2. CASE ~remote_set'
      <4>1. n = 0 /\ sent = 0 /\ adjusted' = 0
        BY <3>2, <1>4
      <4>2. sent' = 0 /\ 0 <= DEFAULT_WINDOW + 0
        BY <4>1, <1>3, <1>4
      <4> QED BY <4>1, <4>2
    <3> QED BY <3>1, <3>2
  <2>2. sent' + out' = written'
    BY <1>3, <1>4
  <2>3. remote_set' => remote_window' = DEFAULT_WINDOW + adjusted' - sent'
    BY <1>3, <1>4
  <2>4. received' <= sent'
    BY <1>2, <1>3, <1>4 DEF FlowInv, WindowInv, TypeOK
  <2> QED BY <1>2, <2>1, <2>2, <2>3, <2>4 DEF FlowInv, WindowInv
<1>7. TransitInv' /\ OpenInv'
  <2>1. TransitInv'
    BY <1>1, <1>2 DEF TransitInv, BackKept
  <2>2. ~remote_set' => remote_window' = 0 /\ sent' = 0
    BY <1>3, <1>4
  <2> QED BY <1>2, <2>1, <2>2 DEF OpenInv, BackKept
<1>8. EndInv'
  <2>1. /\ sent_end => sent_end' /\ sent' = sent
        /\ sent_end' => want_end' /\ out' = 0
        /\ rcv_open' = rcv_open /\ snd_open' /\ eof_seen' = eof_seen
        /\ received' = received /\ sent_close' = sent_close
    BY <1>1, <1>2 DEF FlowInv, EndInv
  <2>2. ~rcv_open => wire' = <<>> /\ sent_end /\ SenderRole = "server" /\ received = sent
    BY <1>1 DEF FlowInv, EndInv, Finished
  <2>3. \A i \in 1..Len(wire') :
           /\ wire'[i].type = "EOF" => sent_end' /\ wire'[i].off = sent'
           /\ wire'[i].type = "CLOSE" =>
                 i = Len(wire') /\ SenderRole = "server" /\ sent_end'
    BY <1>1
  <2>4. eof_seen' => sent_end' /\ received' = sent'
    BY <2>1 DEF FlowInv, EndInv
  <2>5. SenderRole = "server" =>
          /\ ~snd_open' \/ sent_close' => sent_end'
          /\ \A i \in 1..Len(back') : back'[i].type = "CLOSE" => sent_end'
    BY <2>1 DEF FlowInv, EndInv, BackKept
  <2> QED BY <2>1, <2>2, <2>3, <2>4, <2>5 DEF EndInv, Finished
<1> QED BY <1>2, <1>5, <1>6, <1>7, <1>8 DEF FlowInv, NoWindowViolation

\* The sender takes the first backward message.
LEMMA BackTail ==
    ASSUME FlowInv, back # <<>>, back' = Tail(back)
    PROVE  /\ back[1] \in BackMsg /\ back[1].len \in Nat
           /\ (back[1].type # "WINDOW_ADJUST" => back[1].len = 0)
           /\ adjusted + back[1].len \in Nat /\ adjusted + back[1].len <= granted
           /\ back' \in Seq(BackMsg) /\ Chain(back', adjusted + back[1].len, granted)
           /\ \A j \in 1..Len(back') :
                 j + 1 \in 1..Len(back) /\ back'[j] = back[j+1]
                 /\ back'[j].type # "CONFIRMATION"
<1>1. /\ back \in Seq(BackMsg) /\ Chain(back, adjusted, granted)
      /\ adjusted \in Nat /\ granted \in Nat
  BY DEF FlowInv, TypeOK, TransitInv
<1>2. \A m \in BackMsg : m.off \in Nat /\ m.len \in Nat
  BY MessageFields
<1>3. /\ adjusted + back[1].len <= granted /\ back[1].len \in Nat
      /\ back' \in Seq(BackMsg) /\ Len(back') = Len(back) - 1
      /\ \A j \in 1..Len(back') : back'[j] = back[j+1]
      /\ Chain(back', adjusted + back[1].len, granted)
  BY <1>1, <1>2, ChainTail
<1>4. Len(back) \in Nat /\ 1 \in 1..Len(back) /\ back[1] \in BackMsg
  BY <1>1
<1>5. \A j \in 1..Len(back') : j + 1 \in 1..Len(back) /\ j + 1 # 1
  BY <1>3, <1>4
<1>6. \A j \in 1..Len(back') : back'[j].type # "CONFIRMATION"
  BY <1>3, <1>5 DEF FlowInv, OpenInv
<1> QED BY <1>1, <1>3, <1>4, <1>5, <1>6, MessageFields

\* The receiver takes the first message of the stream.
LEMMA WireTail ==
    ASSUME FlowInv, wire # <<>>, wire' = Tail(wire)
    PROVE  /\ rcv_open /\ wire[1] \in DataMsg /\ wire[1].off = received
           /\ wire[1].len \in Nat /\ (wire[1].type # "DATA" => wire[1].len = 0)
           /\ received + wire[1].len \in Nat /\ received + wire[1].len <= sent
           /\ wire' \in Seq(DataMsg) /\ Chain(wire', received + wire[1].len, sent)
           /\ Len(wire) \in Nat /\ 1 \in 1..Len(wire) /\ Len(wire') = Len(wire) - 1
           /\ \A j \in 1..Len(wire') :
                 j + 1 \in 1..Len(wire) /\ wire'[j] = wire[j+1]
<1>1. /\ wire \in Seq(DataMsg) /\ rcv_open /\ Chain(wire, received, sent)
      /\ received \in Nat /\ sent \in Nat
  BY DEF FlowInv, TypeOK, TransitInv, EndInv
<1>2. \A m \in DataMsg : m.off \in Nat /\ m.len \in Nat
  BY MessageFields
<1>3. /\ wire[1].off = received
      /\ received + wire[1].len <= sent /\ wire[1].len \in Nat
      /\ wire' \in Seq(DataMsg) /\ Len(wire') = Len(wire) - 1
      /\ \A j \in 1..Len(wire') : wire'[j] = wire[j+1]
      /\ Chain(wire', received + wire[1].len, sent)
  BY <1>1, <1>2, ChainTail
<1>4. Len(wire) \in Nat /\ 1 \in 1..Len(wire) /\ wire[1] \in DataMsg
  BY <1>1
<1>5. \A j \in 1..Len(wire') : j + 1 \in 1..Len(wire)
  BY <1>3, <1>4
<1> QED BY <1>1, <1>3, <1>4, <1>5, MessageFields

--------------------------------------------------------------------------------
\* No step of either side breaks the invariant.
LEMMA NextFlowInv == FlowInv /\ [Next]_vars => FlowInv'
<1> SUFFICES ASSUME FlowInv, [Next]_vars PROVE FlowInv'
  OBVIOUS
<1> USE DEF FlowInv
<1>1. /\ sent \in Nat /\ out \in Nat /\ written \in Nat /\ received \in Nat
      /\ consumed \in Nat /\ granted \in Nat /\ adjusted \in Nat
      /\ remote_window \in 0..U32Max /\ DEFAULT_WINDOW \in Nat /\ U32Max \in Nat
      /\ DEFAULT_WINDOW <= U32Max /\ MaxWritten \in Nat
  BY FlowAssumption DEF TypeOK
<1>2. \A m \in DataMsg : m.off \in Nat /\ m.len \in Nat
  BY MessageFields
<1>3. \A m \in BackMsg : m.off \in Nat /\ m.len \in Nat
  BY MessageFields
<1>4. BackKept \/ ~(UNCHANGED <<back, adjusted, remote_set>>)
  BY DEF BackKept, TypeOK, TransitInv, OpenInv, EndInv
<1>5. ASSUME NEW n \in 1..MaxWritten, Write(n) PROVE FlowInv'
  <2>1. /\ snd_open /\ ~want_end /\ written + n <= MaxWritten /\ written' = written + n
        /\ flush_channel(out + n, remote_window, want_end)
        /\ UNCHANGED <<snd_open, remote_set, want_end, rcvVars, back,
                       received, consumed, granted, adjusted>>
    BY <1>5 DEF Write
  <2>2. out + n \in Nat /\ written' \in 0..MaxWritten /\ written' = sent + (out + n)
    BY <2>1, <1>1 DEF WindowInv
  <2>3. want_end \in BOOLEAN /\ (sent_end => out + n = 0)
    BY <2>1 DEF TypeOK, EndInv
  <2>4. /\ adjusted' \in Nat /\ adjusted' <= granted /\ remote_set' \in BOOLEAN
        /\ remote_set' => remote_window = DEFAULT_WINDOW + adjusted' - sent
        /\ ~remote_set' => remote_window = 0 /\ sent = 0 /\ adjusted' = 0
    BY <2>1 DEF TypeOK, WindowInv, OpenInv
  <2>5. BackKept
    BY <2>1, <1>4
  <2> QED BY <2>1, <2>2, <2>3, <2>4, <2>5, <1>1, FlushKeeps
<1>6. CASE End
  <2>1. /\ snd_open /\ ~want_end /\ want_end' = TRUE
        /\ flush_channel(out, remote_window, TRUE)
        /\ UNCHANGED <<snd_open, remote_set, rcvVars, back,
                       written, received, consumed, granted, adjusted>>
    BY <1>6 DEF End
  <2>2. written' \in 0..MaxWritten /\ written' = sent + out
    BY <2>1 DEF WindowInv, TypeOK
  <2>3. sent_end => out = 0
    BY DEF EndInv
  <2>4. /\ adjusted' \in Nat /\ adjusted' <= granted /\ remote_set' \in BOOLEAN
        /\ remote_set' => remote_window = DEFAULT_WINDOW + adjusted' - sent
        /\ ~remote_set' => remote_window = 0 /\ sent = 0 /\ adjusted' = 0
    BY <2>1 DEF TypeOK, WindowInv, OpenInv
  <2>5. BackKept
    BY <2>1, <1>4
  <2> QED BY <2>1, <2>2, <2>3, <2>4, <2>5, <1>1, FlushKeeps
<1>7. CASE handle_open_confirmation
  <2>1. /\ back # <<>> /\ back[1].type = "CONFIRMATION" /\ back' = Tail(back)
        /\ remote_set' = TRUE /\ flush_channel(out, DEFAULT_WINDOW, want_end)
        /\ UNCHANGED <<snd_open, want_end, rcvVars, written, received, consumed,
                       granted, adjusted>>
    BY <1>7 DEF handle_open_confirmation
  <2>2. snd_open /\ sent = 0 /\ adjusted = 0 /\ ~remote_set
    <3>1. 1 \in 1..Len(back)
      BY <2>1 DEF TypeOK
    <3> QED BY <2>1, <3>1 DEF OpenInv
  <2>3. /\ back[1].len = 0 /\ back' \in Seq(BackMsg)
        /\ Chain(back', adjusted + back[1].len, granted)
        /\ \A j \in 1..Len(back') :
              j + 1 \in 1..Len(back) /\ back'[j] = back[j+1]
              /\ back'[j].type # "CONFIRMATION"
    BY <2>1, BackTail
  <2>4. BackKept
    <3>1. adjusted + back[1].len = adjusted'
      BY <2>1, <2>3, <1>1
    <3>2. remote_set'
      BY <2>1
    <3> QED BY <2>3, <3>1, <3>2 DEF BackKept, EndInv
  <2>5. written' \in 0..MaxWritten /\ written' = sent + out
    BY <2>1 DEF WindowInv, TypeOK
  <2>6. /\ DEFAULT_WINDOW \in 0..U32Max /\ want_end \in BOOLEAN /\ (sent_end => out = 0)
        /\ adjusted' \in Nat /\ adjusted' <= granted
        /\ DEFAULT_WINDOW = DEFAULT_WINDOW + adjusted' - sent
    BY <1>1, <2>1, <2>2 DEF TypeOK, EndInv
  <2> QED BY <2>1, <2>2, <2>4, <2>5, <2>6, <1>1, FlushKeeps
<1>8. CASE handle_window_adjust
  <2>1. /\ back # <<>> /\ back[1].type = "WINDOW_ADJUST" /\ back' = Tail(back)
        /\ adjusted' = adjusted + back[1].len
        /\ UNCHANGED <<snd_open, remote_set, want_end, rcvVars, written, received,
                       consumed, granted>>
    BY <1>8 DEF handle_window_adjust
  <2>2. remote_set
    BY <2>1 DEF OpenInv
  <2>3. /\ back[1].len \in Nat /\ adjusted' \in Nat /\ adjusted' <= granted
        /\ back' \in Seq(BackMsg) /\ Chain(back', adjusted', granted)
        /\ \A j \in 1..Len(back') :
              j + 1 \in 1..Len(back) /\ back'[j] = back[j+1]
              /\ back'[j].type # "CONFIRMATION"
    BY <2>1, BackTail
  <2>4. BackKept
    <3>1. remote_set'
      BY <2>1, <2>2
    <3> QED BY <2>3, <3>1 DEF BackKept, EndInv
  <2>5. sent <= DEFAULT_WINDOW + adjusted'
    BY <2>1, <2>3, <1>1, SMTT(30) DEF WindowInv
  <2>6. CASE snd_open
    <3> DEFINE w == AddWindow(remote_window, back[1].len)
    <3>1. flush_channel(out, w, want_end)
      BY <1>8, <2>6 DEF handle_window_adjust
    <3>2. w \in 0..U32Max /\ w = DEFAULT_WINDOW + adjusted' - sent
      <4>1. remote_window = DEFAULT_WINDOW + adjusted - sent
        BY <2>2, <2>6 DEF WindowInv
      <4>2. adjusted + back[1].len <= sent
        BY <2>1, <2>3, <1>1 DEF WindowInv, TypeOK
      <4>3. /\ remote_window + back[1].len = DEFAULT_WINDOW + (adjusted + back[1].len) - sent
            /\ remote_window + back[1].len <= U32Max
        <5>1. back[1].len \in Nat
          BY <2>3
        <5> QED BY <4>1, <4>2, <5>1, <1>1, NoSaturation
      <4>4. w = remote_window + back[1].len
        BY <4>3, <2>3, <1>1 DEF AddWindow, Min2
      <4>5. w = DEFAULT_WINDOW + adjusted' - sent
        BY <4>3, <4>4, <2>1
      <4>6. w \in Nat /\ w <= U32Max
        <5>1. back[1].len \in Nat /\ remote_window \in Nat
          BY <2>3, <1>1
        <5>2. remote_window + back[1].len \in Nat
          BY <5>1
        <5> HIDE DEF w
        <5> QED BY <5>2, <4>3, <4>4
      <4> HIDE DEF w
      <4> QED BY <4>5, <4>6, <1>1
    <3> HIDE DEF w
    <3>3. written' \in 0..MaxWritten /\ written' = sent + out
      BY <2>1 DEF WindowInv, TypeOK
    <3>4. want_end \in BOOLEAN /\ (sent_end => out = 0)
      BY DEF TypeOK, EndInv
    <3> QED BY <2>1, <2>2, <2>3, <2>4, <2>6, <3>1, <3>2, <3>3, <3>4, <1>1, FlushKeeps
  <2>7. CASE ~snd_open
    <3>1. UNCHANGED <<sndVars, rcvVars, wire, written, sent, received, consumed, granted>>
      BY <1>8, <2>1, <2>7 DEF handle_window_adjust, sndVars
    <3>2. TypeOK'
      BY <2>3, <3>1 DEF TypeOK, sndVars, rcvVars
    <3>3. WindowInv'
      BY <2>3, <2>5, <2>7, <3>1 DEF WindowInv, sndVars, rcvVars
    <3>4. TransitInv' /\ OpenInv'
      BY <2>2, <2>3, <3>1 DEF TransitInv, OpenInv, sndVars, rcvVars
    <3>5. EndInv' /\ NoWindowViolation'
      BY <2>3, <3>1 DEF EndInv, Finished, NoWindowViolation, sndVars, rcvVars
    <3> QED BY <3>2, <3>3, <3>4, <3>5
  <2> QED BY <2>6, <2>7
<1>9. CASE SenderClose
  <2>1. /\ back # <<>> /\ back[1].type = "CLOSE" /\ back' = Tail(back) /\ snd_open' = FALSE
        /\ UNCHANGED <<remote_set, remote_window, out, want_end, sent_end, rcvVars, totals>>
    BY <1>9 DEF SenderClose
  <2>2. remote_set
    BY <2>1 DEF OpenInv
  <2>3. /\ back' \in Seq(BackMsg) /\ Chain(back', adjusted, granted)
        /\ \A j \in 1..Len(back') :
              j + 1 \in 1..Len(back) /\ back'[j] = back[j+1]
              /\ back'[j].type # "CONFIRMATION"
    <3>1. /\ back[1].len = 0 /\ back' \in Seq(BackMsg)
          /\ Chain(back', adjusted + back[1].len, granted)
          /\ \A j \in 1..Len(back') :
                j + 1 \in 1..Len(back) /\ back'[j] = back[j+1]
                /\ back'[j].type # "CONFIRMATION"
      BY <2>1, BackTail
    <3>2. adjusted + back[1].len = adjusted
      BY <3>1, <1>1
    <3> QED BY <3>1, <3>2
  <2>4. SenderRole = "server" => sent_end
    <3>1. 1 \in 1..Len(back)
      BY <2>1 DEF TypeOK
    <3> QED BY <2>1, <3>1 DEF EndInv
  <2>5. /\ wire' \in Seq(DataMsg) /\ (rcv_open => Chain(wire', received, sent))
        /\ (~rcv_open => wire' = <<>> /\ (SenderRole = "server" => sent_end) /\ received = sent)
        /\ \A i \in 1..Len(wire') :
              /\ wire'[i].type = "EOF" => sent_end /\ wire'[i].off = sent
              /\ wire'[i].type = "CLOSE" => i = Len(wire')
    <3>1. CASE ~(snd_open /\ SenderRole = "client")
      <4>1. wire' = wire
        BY <1>9, <2>4, <3>1, FlowAssumption DEF SenderClose
      <4> QED BY <4>1, <2>4 DEF TypeOK, TransitInv, EndInv
    <3>2. CASE snd_open /\ SenderRole = "client"
      <4> DEFINE m == Msg("CLOSE", sent, 0)
      <4>1. m \in DataMsg /\ m.off = sent /\ m.len = 0 /\ m.type = "CLOSE"
        BY <1>1 DEF Msg, DataMsg, DataTypes
      <4>2. wire' = Append(wire, m)
        BY <1>9, <3>2 DEF SenderClose
      <4> HIDE DEF m
      <4>3. /\ wire \in Seq(DataMsg) /\ rcv_open /\ Chain(wire, received, sent)
            /\ \A i \in 1..Len(wire) :
                  /\ wire[i].type = "EOF" => sent_end /\ wire[i].off = sent
                  /\ wire[i].type # "CLOSE"
        BY <3>2 DEF TypeOK, TransitInv, EndInv, Finished
      <4>4. /\ wire' \in Seq(DataMsg) /\ Len(wire') = Len(wire) + 1 /\ Len(wire) \in Nat
            /\ \A i \in 1..Len(wire) : wire'[i] = wire[i]
            /\ wire'[Len(wire) + 1] = m
        BY <4>1, <4>2, <4>3
      <4>5. Chain(Append(wire, m), received, sent + m.len)
        BY <4>1, <4>3, <1>1, <1>2, ChainAppend
      <4>6. Chain(wire', received, sent)
        <5>1. sent + m.len = sent
          BY <4>1, <1>1
        <5> QED BY <4>2, <4>5, <5>1
      <4>7. \A i \in 1..Len(wire') : i \in 1..Len(wire) \/ i = Len(wire) + 1
        BY <4>4
      <4> QED BY <4>1, <4>3, <4>4, <4>6, <4>7
    <3> QED BY <3>1, <3>2
  <2>6. TypeOK'
    BY <2>1, <2>3, <2>5 DEF TypeOK, rcvVars, totals
  <2>7. WindowInv'
    BY <2>1 DEF WindowInv, rcvVars, totals
  <2>8. TransitInv' /\ OpenInv'
    BY <2>1, <2>2, <2>3, <2>5 DEF TransitInv, OpenInv, rcvVars, totals
  <2>9. EndInv' /\ NoWindowViolation'
    <3>1. Finished'
      BY <2>1, <2>4 DEF Finished
    <3>2. UNCHANGED <<rcv_open, sent_close, eof_seen, violated, received, sent,
                      sent_end, want_end, out>>
      BY <2>1 DEF rcvVars, totals
    <3> QED BY <2>3, <2>4, <2>5, <3>1, <3>2 DEF EndInv, NoWindowViolation
  <2> QED BY <2>6, <2>7, <2>8, <2>9
<1>10. CASE handle_channel_data
  <2>1. /\ wire # <<>> /\ wire[1].type = "DATA" /\ wire' = Tail(wire)
        /\ UNCHANGED <<sndVars, rcv_open, sent_close, eof_seen, written, sent, adjusted>>
    BY <1>10 DEF handle_channel_data
  <2> DEFINE len == wire[1].len
  <2>2. /\ rcv_open /\ len \in Nat
        /\ received + len \in Nat /\ received + len <= sent
        /\ wire' \in Seq(DataMsg) /\ Chain(wire', received + len, sent)
        /\ Len(wire) \in Nat /\ 1 \in 1..Len(wire) /\ Len(wire') = Len(wire) - 1
        /\ \A j \in 1..Len(wire') : j + 1 \in 1..Len(wire) /\ wire'[j] = wire[j+1]
    BY <2>1, WireTail
  <2> HIDE DEF len
  <2>3. /\ Fits(len) /\ local_window - len \in Nat
        /\ local_window - len = DEFAULT_WINDOW + granted - (received + len)
    <3>1. received + len <= DEFAULT_WINDOW + granted
      BY <2>2, <1>1 DEF WindowInv
    <3>2. local_window = DEFAULT_WINDOW + granted - received
      BY DEF WindowInv
    <3>3. /\ len <= DEFAULT_WINDOW + granted - received
          /\ (DEFAULT_WINDOW + granted - received) - len \in Nat
          /\ (DEFAULT_WINDOW + granted - received) - len
                = DEFAULT_WINDOW + granted - (received + len)
      BY <3>1, <2>2, <1>1, WindowLeft
    <3> QED BY <3>2, <3>3 DEF Fits
  <2>4. received' = received + len /\ violated' = violated
    BY <1>10, <2>2, <2>3 DEF handle_channel_data, len
  <2>5. received' \in Nat /\ received' <= sent /\ local_window - len \in Nat
        /\ local_window - len = DEFAULT_WINDOW + granted - received'
    BY <2>2, <2>3, <2>4
  <2>6. /\ granted' \in Nat /\ granted' >= granted
        /\ unacked' \in 0..DEFAULT_WINDOW /\ local_window' \in 0..DEFAULT_WINDOW
        /\ local_window' = DEFAULT_WINDOW + granted' - received'
        /\ granted' + unacked' = consumed' /\ consumed' \in Nat /\ consumed' <= received'
        /\ back' \in Seq(BackMsg) /\ Chain(back', adjusted, granted')
        /\ (~remote_set => back' # <<>> /\ back'[1].type = "CONFIRMATION")
        /\ \A i \in 1..Len(back') :
              /\ back'[i].type = "CONFIRMATION" => i = 1 /\ ~remote_set
              /\ back'[i].type = "CLOSE" => i \in 1..Len(back) /\ back[i].type = "CLOSE"
    <3>1. CASE SenderRole = "server"
      <4>1. consumed' = consumed + len /\ ack_incoming(local_window - len, len)
        BY <1>10, <2>2, <2>3, <3>1 DEF handle_channel_data, len
      <4>2. consumed + len <= received' /\ consumed' \in Nat
        <5>1. len \in Nat /\ consumed <= received
          BY <2>2 DEF WindowInv
        <5>2. consumed + len <= received + len /\ consumed + len \in Nat
          BY <5>1, <1>1
        <5> QED BY <5>2, <4>1, <2>4
      <4> QED BY <4>1, <4>2, <2>2, <2>5, AckFacts
    <3>2. CASE SenderRole # "server"
      <4>1. /\ local_window' = local_window - len
            /\ UNCHANGED <<unacked, back, consumed, granted>>
        BY <1>10, <2>2, <2>3, <3>2 DEF handle_channel_data, len
      <4>2. local_window' \in 0..DEFAULT_WINDOW
        <5>1. /\ len \in Nat /\ local_window - len \in Nat
              /\ local_window \in Nat /\ local_window <= DEFAULT_WINDOW
          BY <2>2, <2>5, <1>1 DEF TypeOK
        <5>2. local_window - len \in 0..DEFAULT_WINDOW
          BY <5>1, <1>1
        <5> QED BY <4>1, <5>2
      <4>3. consumed <= received'
        <5>1. consumed <= received /\ len \in Nat
          BY <2>2 DEF WindowInv
        <5>2. consumed <= received + len
          BY <5>1, <1>1
        <5> QED BY <5>2, <2>4
      <4> QED BY <4>1, <4>2, <4>3, <2>5, <1>1 DEF TypeOK, WindowInv, TransitInv, OpenInv
    <3> QED BY <3>1, <3>2
  <2>7. TypeOK'
    BY <2>1, <2>2, <2>4, <2>5, <2>6 DEF TypeOK, sndVars
  <2>8. WindowInv'
    <3>1. adjusted' <= granted'
      <4>1. adjusted <= granted
        BY DEF WindowInv
      <4>2. adjusted' = adjusted /\ granted' \in Nat /\ granted' >= granted
        BY <2>1, <2>6
      <4> QED BY <4>1, <4>2, <1>1
    <3> QED BY <2>1, <2>5, <2>6, <3>1 DEF WindowInv, sndVars
  <2>9. TransitInv' /\ OpenInv'
    <3>1. Chain(wire', received', sent) /\ Chain(back', adjusted, granted')
      BY <2>2, <2>4, <2>6
    <3> QED BY <2>1, <2>6, <3>1 DEF TransitInv, OpenInv, sndVars
  <2>10. EndInv' /\ NoWindowViolation'
    <3>1. UNCHANGED <<snd_open, want_end, sent_end, out, rcv_open, sent_close, eof_seen, sent>>
      BY <2>1 DEF sndVars
    <3>2. eof_seen => received' = sent
      <4> SUFFICES ASSUME eof_seen PROVE received' = sent
        OBVIOUS
      <4>1. received = sent /\ len \in Nat /\ received + len <= sent
        BY <2>2 DEF EndInv
      <4>2. received + len = sent
        BY <4>1, <1>1
      <4> QED BY <4>2, <2>4
    <3>3. \A i \in 1..Len(wire') : wire'[i].type = "CLOSE" => i = Len(wire') /\ Finished
      <4> SUFFICES ASSUME NEW i \in 1..Len(wire'), wire'[i].type = "CLOSE"
                   PROVE  i = Len(wire') /\ Finished
        OBVIOUS
      <4>1. i + 1 \in 1..Len(wire) /\ wire[i+1].type = "CLOSE"
        BY <2>2
      <4>2. i + 1 = Len(wire) /\ Finished
        BY <4>1 DEF EndInv
      <4> QED BY <4>2, <2>2
    <3>4. \A i \in 1..Len(wire') : wire'[i].type = "EOF" => sent_end /\ wire'[i].off = sent
      BY <2>2 DEF EndInv
    <3>5. rcv_open' /\ Finished' = Finished
      BY <2>2, <3>1 DEF Finished
    <3>6. SenderRole = "server" =>
            /\ ~snd_open \/ sent_close => sent_end
            /\ \A i \in 1..Len(back') : back'[i].type = "CLOSE" => sent_end
      BY <2>6 DEF EndInv
    <3>7. /\ sent_end => want_end /\ out = 0
          /\ eof_seen => sent_end
          /\ ~violated'
      BY <2>4 DEF EndInv, NoWindowViolation
    <3> QED BY <3>1, <3>2, <3>3, <3>4, <3>5, <3>6, <3>7 DEF EndInv, NoWindowViolation
  <2> QED BY <2>7, <2>8, <2>9, <2>10
<1>11. ASSUME NEW n \in 1..DEFAULT_WINDOW, channel_consumed(n) PROVE FlowInv'
  <2>1. /\ SenderRole = "client" /\ rcv_open /\ n <= received - consumed
        /\ consumed' = consumed + n /\ ack_incoming(local_window, n)
        /\ UNCHANGED <<sndVars, wire, rcv_open, sent_close, violated, eof_seen,
                       written, sent, received, adjusted>>
    BY <1>11 DEF channel_consumed
  <2>2. /\ n \in Nat /\ consumed + n <= received /\ consumed' \in Nat
        /\ local_window \in Nat /\ local_window = DEFAULT_WINDOW + granted - received
    BY <2>1, <1>1 DEF WindowInv, TypeOK
  <2>3. /\ granted' \in Nat /\ granted' >= granted
        /\ unacked' \in 0..DEFAULT_WINDOW /\ local_window' \in 0..DEFAULT_WINDOW
        /\ local_window' = DEFAULT_WINDOW + granted' - received
        /\ granted' + unacked' = consumed'
        /\ back' \in Seq(BackMsg) /\ Chain(back', adjusted, granted')
        /\ (~remote_set => back' # <<>> /\ back'[1].type = "CONFIRMATION")
        /\ \A i \in 1..Len(back') :
              /\ back'[i].type = "CONFIRMATION" => i = 1 /\ ~remote_set
              /\ back'[i].type = "CLOSE" => i \in 1..Len(back) /\ back[i].type = "CLOSE"
    BY <2>1, <2>2, <1>1, AckFacts
  <2>4. TypeOK'
    BY <2>1, <2>2, <2>3 DEF TypeOK, sndVars
  <2>5. WindowInv'
    <3>1. adjusted' <= granted'
      <4>1. adjusted <= granted
        BY DEF WindowInv
      <4>2. adjusted' = adjusted /\ granted' \in Nat /\ granted' >= granted
        BY <2>1, <2>3
      <4> QED BY <4>1, <4>2, <1>1
    <3>2. consumed' <= received'
      BY <2>1, <2>2
    <3> QED BY <2>1, <2>3, <3>1, <3>2 DEF WindowInv, sndVars
  <2>6. TransitInv' /\ OpenInv'
    BY <2>1, <2>3 DEF TransitInv, OpenInv, sndVars
  <2>7. EndInv' /\ NoWindowViolation'
    BY <2>1, <2>3 DEF EndInv, Finished, NoWindowViolation, sndVars
  <2> QED BY <2>4, <2>5, <2>6, <2>7
<1>12. CASE handle_channel_eof
  <2>1. /\ wire # <<>> /\ wire[1].type # "DATA" /\ wire[1].type # "CLOSE" /\ wire' = Tail(wire)
        /\ eof_seen' = (eof_seen \/ wire[1].type = "EOF")
        /\ UNCHANGED <<sndVars, rcv_open, local_window, unacked, sent_close, violated,
                       back, totals>>
    BY <1>12 DEF handle_channel_eof
  <2>2. /\ rcv_open /\ wire[1].off = received /\ wire[1].len = 0
        /\ wire' \in Seq(DataMsg) /\ Chain(wire', received + wire[1].len, sent)
        /\ Len(wire) \in Nat /\ 1 \in 1..Len(wire) /\ Len(wire') = Len(wire) - 1
        /\ \A j \in 1..Len(wire') : j + 1 \in 1..Len(wire) /\ wire'[j] = wire[j+1]
    BY <2>1, WireTail
  <2>3. Chain(wire', received, sent)
    <3>1. received + wire[1].len = received
      BY <2>2, <1>1
    <3> QED BY <2>2, <3>1
  <2>4. eof_seen' \in BOOLEAN /\ (eof_seen' => sent_end /\ received = sent)
    BY <2>1, <2>2 DEF EndInv, TypeOK
  <2>5. TypeOK'
    BY <2>1, <2>2, <2>4 DEF TypeOK, sndVars, totals
  <2>6. WindowInv' /\ TransitInv' /\ OpenInv'
    BY <2>1, <2>3 DEF WindowInv, TransitInv, OpenInv, sndVars, totals
  <2>7. EndInv' /\ NoWindowViolation'
    <3>1. UNCHANGED <<snd_open, want_end, sent_end, out, rcv_open, sent_close, received, sent,
                      back, violated>>
      BY <2>1 DEF sndVars, totals
    <3>2. \A i \in 1..Len(wire') : wire'[i].type = "CLOSE" => i = Len(wire') /\ Finished
      <4> SUFFICES ASSUME NEW i \in 1..Len(wire'), wire'[i].type = "CLOSE"
                   PROVE  i = Len(wire') /\ Finished
        OBVIOUS
      <4>1. i + 1 \in 1..Len(wire) /\ wire[i+1].type = "CLOSE"
        BY <2>2
      <4>2. i + 1 = Len(wire) /\ Finished
        BY <4>1 DEF EndInv
      <4> QED BY <4>2, <2>2
    <3>3. \A i \in 1..Len(wire') : wire'[i].type = "EOF" => sent_end /\ wire'[i].off = sent
      BY <2>2 DEF EndInv
    <3>4. rcv_open' /\ Finished' = Finished
      BY <2>2, <3>1 DEF Finished
    <3> QED BY <2>4, <3>1, <3>2, <3>3, <3>4 DEF EndInv, NoWindowViolation
  <2> QED BY <2>5, <2>6, <2>7
<1>13. CASE ReceiverClose
  <2>1. /\ wire # <<>> /\ wire[1].type = "CLOSE" /\ wire' = Tail(wire)
        /\ rcv_open' = FALSE /\ sent_close' = (sent_close \/ rcv_open)
        /\ UNCHANGED <<sndVars, local_window, unacked, violated, eof_seen, totals>>
    BY <1>13 DEF ReceiverClose
  <2>2. /\ rcv_open /\ wire[1].off = received /\ wire[1].len = 0
        /\ wire' \in Seq(DataMsg) /\ Chain(wire', received + wire[1].len, sent)
        /\ Len(wire) \in Nat /\ 1 \in 1..Len(wire) /\ Len(wire') = Len(wire) - 1
    BY <2>1, WireTail
  <2>3. wire' = <<>> /\ Finished /\ received = sent
    <3>1. Len(wire) = 1 /\ Finished
      BY <2>1, <2>2 DEF EndInv
    <3>2. wire' = <<>>
      BY <3>1, <2>2
    <3>3. received + wire[1].len = sent
      BY <2>2, <3>2 DEF Chain
    <3> QED BY <3>1, <3>2, <3>3, <2>2, <1>1
  <2>4. /\ back' \in Seq(BackMsg) /\ Chain(back', adjusted, granted)
        /\ (~remote_set => back' # <<>> /\ back'[1].type = "CONFIRMATION")
        /\ \A i \in 1..Len(back') :
              back'[i].type = "CONFIRMATION" => i = 1 /\ ~remote_set
    <3>1. CASE sent_close
      <4>1. back' = back
        BY <1>13, <3>1 DEF ReceiverClose
      <4> QED BY <4>1 DEF TypeOK, TransitInv, OpenInv
    <3>2. CASE ~sent_close
      <4>1. back' = Append(back, Msg("CLOSE", granted, 0))
        BY <1>13, <2>2, <3>2 DEF ReceiverClose
      <4> QED BY <4>1, <1>1, CloseAppend
    <3> QED BY <3>1, <3>2
  <2>5. sent_close' \in BOOLEAN
    BY <2>1 DEF TypeOK
  <2>6. TypeOK'
    BY <2>1, <2>2, <2>4, <2>5 DEF TypeOK, sndVars, totals
  <2>7. WindowInv' /\ TransitInv' /\ OpenInv'
    BY <2>1, <2>4 DEF WindowInv, TransitInv, OpenInv, sndVars, totals
  <2>8. EndInv' /\ NoWindowViolation'
    <3>1. UNCHANGED <<snd_open, want_end, sent_end, out, received, sent, eof_seen, violated>>
      BY <2>1 DEF sndVars, totals
    <3>2. Len(wire') = 0
      BY <2>3
    <3>3. SenderRole = "server" => sent_end
      BY <2>3 DEF Finished
    <3> QED BY <2>3, <3>1, <3>2, <3>3 DEF EndInv, Finished, NoWindowViolation
  <2> QED BY <2>6, <2>7, <2>8
<1>14. CASE ReceiverExit
  <2>1. /\ SenderRole = "client" /\ rcv_open /\ sent_close' = TRUE
        /\ back' = Append(back, Msg("CLOSE", granted, 0))
        /\ UNCHANGED <<sndVars, wire, rcv_open, local_window, unacked, violated,
                       eof_seen, totals>>
    BY <1>14 DEF ReceiverExit
  <2>2. /\ back' \in Seq(BackMsg) /\ Chain(back', adjusted, granted)
        /\ (~remote_set => back' # <<>> /\ back'[1].type = "CONFIRMATION")
        /\ \A i \in 1..Len(back') :
              back'[i].type = "CONFIRMATION" => i = 1 /\ ~remote_set
    BY <2>1, <1>1, CloseAppend
  <2>3. TypeOK'
    BY <2>1, <2>2 DEF TypeOK, sndVars, totals
  <2>4. WindowInv' /\ TransitInv' /\ OpenInv'
    BY <2>1, <2>2 DEF WindowInv, TransitInv, OpenInv, sndVars, totals
  <2>5. EndInv' /\ NoWindowViolation'
    BY <2>1 DEF EndInv, Finished, NoWindowViolation, sndVars, totals
  <2> QED BY <2>3, <2>4, <2>5
<1>15. CASE UNCHANGED vars
  BY <1>15 DEF vars, sndVars, rcvVars, totals, TypeOK, WindowInv, TransitInv, OpenInv,
               EndInv, Finished, NoWindowViolation
<1> QED
  BY <1>5, <1>6, <1>7, <1>8, <1>9, <1>10, <1>11, <1>12, <1>13, <1>14, <1>15
     DEF Next, HandlerReads

--------------------------------------------------------------------------------
\* The inductive invariant holds in every reachable state of a direction of a
\* channel, whatever the window, the packet size, the chunk cap and the amount
\* of data (connection.rs and its callers).
THEOREM FlowInvariant == Spec => []FlowInv
<1>1. Init => FlowInv
  BY InitFlowInv
<1>2. FlowInv /\ [Next]_vars => FlowInv'
  BY NextFlowInv
<1> QED BY <1>1, <1>2, PTL DEF Spec

\* The counters of both channels stay in range: in particular remote_window
\* never exceeds the u32 maximum and local_window never its initial size.
THEOREM TypeCorrect == Spec => []TypeOK
<1>1. FlowInv => TypeOK
  BY DEF FlowInv
<1> QED BY <1>1, FlowInvariant, PTL

\* A sender that is this code never overruns the window of a receiver that is
\* this code, so consume_incoming never returns false between them.
THEOREM WindowRespected == Spec => []NoWindowViolation
<1>1. FlowInv => NoWindowViolation
  BY DEF FlowInv
<1> QED BY <1>1, FlowInvariant, PTL

\* At most one window of data is unconsumed, however grants are batched.
THEOREM BackpressureHolds == Spec => []Backpressure
<1>1. FlowInv => Backpressure
  BY FlowAssumption DEF FlowInv, TypeOK, WindowInv, Backpressure
<1> QED BY <1>1, FlowInvariant, PTL

\* EOF and the client's close come behind all data.
THEOREM EndBehindData == Spec => []EndAfterData
<1>1. FlowInv => EndAfterData
  <2> SUFFICES ASSUME FlowInv PROVE EndAfterData
    OBVIOUS
  <2>1. sent_end => sent = written
    BY DEF FlowInv, TypeOK, WindowInv, EndInv
  <2> QED BY <2>1 DEF FlowInv, EndInv, Finished, EndAfterData
<1> QED BY <1>1, FlowInvariant, PTL

--------------------------------------------------------------------------------
\* Nothing is sent that was not written, nor more than a window ahead.
LEMMA SentBounds == FlowInv => sent <= written /\ sent <= consumed + DEFAULT_WINDOW
<1> SUFFICES ASSUME FlowInv PROVE sent <= written /\ sent <= consumed + DEFAULT_WINDOW
  OBVIOUS
<1>1. /\ sent \in Nat /\ out \in Nat /\ consumed \in Nat /\ granted \in Nat
      /\ adjusted \in Nat /\ unacked \in Nat /\ DEFAULT_WINDOW \in Nat
  BY FlowAssumption DEF FlowInv, TypeOK
<1>2. sent + out = written /\ sent <= DEFAULT_WINDOW + adjusted /\ adjusted <= granted
      /\ granted + unacked = consumed
  BY DEF FlowInv, WindowInv
<1> QED BY <1>1, <1>2

\* A step that flushes launches bytes that were written and fit the capacity.
LEMMA FlushLaunches ==
    ASSUME FlowInv, FlowInv', NEW q \in Nat, NEW w \in Nat, NEW want,
           flush_channel(q, w, want), consumed' = consumed
    PROVE  sent' \in sent..written' /\ sent' <= consumed + DEFAULT_WINDOW
<1>1. sent' = sent + Drainable(q, w) /\ Drainable(q, w) \in Nat
  BY DEF flush_channel, Drainable, Min2
<1>2. sent \in Nat /\ sent' \in Nat /\ written' \in Nat
  BY FlowAssumption DEF FlowInv, TypeOK
<1>3. sent <= sent'
  BY <1>1, <1>2
<1>4. sent' <= written' /\ sent' <= consumed' + DEFAULT_WINDOW
  <2>1. (FlowInv => sent <= written /\ sent <= consumed + DEFAULT_WINDOW)'
    BY SentBounds, PTL
  <2> QED BY <2>1
<1> QED BY <1>2, <1>3, <1>4

\* Every step of the channel is a step of the byte stream or leaves it alone.
LEMMA StepRefines == FlowInv /\ FlowInv' /\ [Next]_vars => [Stream!Next]_(Stream!vars)
<1> SUFFICES ASSUME FlowInv, FlowInv', [Next]_vars PROVE [Stream!Next]_(Stream!vars)
  OBVIOUS
<1>1. /\ sent \in Nat /\ out \in Nat /\ written \in Nat /\ received \in Nat
      /\ consumed \in Nat /\ remote_window \in Nat /\ DEFAULT_WINDOW \in Nat
      /\ written' \in Nat /\ want_end' \in BOOLEAN /\ want_end \in BOOLEAN
  BY FlowAssumption DEF FlowInv, TypeOK
<1>2. ASSUME NEW n \in 1..MaxWritten, Write(n) PROVE Stream!Next
  <2>1. /\ ~want_end /\ written' = written + n /\ consumed' = consumed
        /\ flush_channel(out + n, remote_window, want_end) /\ eof_seen' = eof_seen
    BY <1>2 DEF Write, rcvVars
  <2>2. out + n \in Nat /\ written' >= written
    BY <2>1, <1>1
  <2>3. sent' \in sent..written' /\ sent' <= consumed + DEFAULT_WINDOW
    BY <2>1, <2>2, <1>1, FlushLaunches
  <2> QED BY <2>1, <2>2, <2>3, <1>1 DEF Stream!Next, Stream!Produce
<1>3. CASE End
  <2>1. /\ ~want_end /\ written' = written /\ consumed' = consumed
        /\ flush_channel(out, remote_window, TRUE) /\ eof_seen' = eof_seen
    BY <1>3 DEF End, rcvVars
  <2>2. sent' \in sent..written' /\ sent' <= consumed + DEFAULT_WINDOW
    BY <2>1, <1>1, FlushLaunches
  <2>3. written' >= written
    BY <2>1, <1>1
  <2> QED BY <2>1, <2>2, <2>3, <1>1 DEF Stream!Next, Stream!Produce
<1>4. CASE handle_open_confirmation
  <2>1. /\ flush_channel(out, DEFAULT_WINDOW, want_end) /\ consumed' = consumed
        /\ written' = written /\ want_end' = want_end /\ eof_seen' = eof_seen
    BY <1>4 DEF handle_open_confirmation, rcvVars
  <2>2. sent' \in sent..written' /\ sent' <= consumed + DEFAULT_WINDOW
    BY <2>1, <1>1, FlushLaunches
  <2> QED BY <2>1, <2>2 DEF Stream!Next, Stream!Launch
<1>5. CASE handle_window_adjust
  <2>1. /\ consumed' = consumed /\ written' = written /\ want_end' = want_end
        /\ eof_seen' = eof_seen
    BY <1>5 DEF handle_window_adjust, rcvVars
  <2>2. CASE snd_open
    <3> DEFINE w == AddWindow(remote_window, back[1].len)
    <3>1. flush_channel(out, w, want_end)
      BY <1>5, <2>2 DEF handle_window_adjust
    <3>2. w \in Nat
      <4>1. back # <<>> /\ back \in Seq(BackMsg)
        BY <1>5 DEF handle_window_adjust, FlowInv, TypeOK
      <4>2. back[1].len \in Nat
        BY <4>1, MessageFields
      <4> QED BY <4>2, <1>1, FlowAssumption DEF AddWindow, Min2
    <3> HIDE DEF w
    <3>3. sent' \in sent..written' /\ sent' <= consumed + DEFAULT_WINDOW
      BY <2>1, <3>1, <3>2, <1>1, FlushLaunches
    <3> QED BY <2>1, <3>3 DEF Stream!Next, Stream!Launch
  <2>3. CASE ~snd_open
    <3>1. sent' = sent
      BY <1>5, <2>3 DEF handle_window_adjust
    <3> QED BY <2>1, <3>1 DEF Stream!vars
  <2> QED BY <2>2, <2>3
<1>6. CASE SenderClose \/ ReceiverClose \/ ReceiverExit \/ UNCHANGED vars
  BY <1>6 DEF SenderClose, ReceiverClose, ReceiverExit, vars, sndVars, rcvVars, totals,
              Stream!vars
<1>7. CASE handle_channel_data
  <2>1. /\ written' = written /\ sent' = sent /\ want_end' = want_end /\ eof_seen' = eof_seen
    BY <1>7 DEF handle_channel_data, sndVars
  <2>2. CASE consumed' = consumed
    BY <2>1, <2>2 DEF Stream!vars
  <2>3. CASE consumed' # consumed
    <3>1. wire # <<>> /\ wire' = Tail(wire) /\ consumed' = consumed + wire[1].len
      BY <1>7, <2>3 DEF handle_channel_data
    <3>2. wire[1].len \in Nat
      BY <3>1, WireTail
    <3>3. consumed' \in Nat /\ consumed' >= consumed
      BY <3>1, <3>2, <1>1
    <3>4. consumed' <= sent'
      BY FlowAssumption DEF FlowInv, TypeOK, WindowInv
    <3>5. consumed' \in consumed..sent
      BY <2>1, <3>3, <3>4, <1>1
    <3> QED BY <2>1, <3>5 DEF Stream!Next, Stream!Consume
  <2> QED BY <2>2, <2>3
<1>8. ASSUME NEW n \in 1..DEFAULT_WINDOW, channel_consumed(n) PROVE Stream!Next
  <2>1. /\ written' = written /\ sent' = sent /\ want_end' = want_end
        /\ eof_seen' = eof_seen /\ consumed' = consumed + n
    BY <1>8 DEF channel_consumed, sndVars
  <2>2. consumed' \in Nat /\ consumed' >= consumed
    BY <2>1, <1>1
  <2>3. consumed' <= sent'
    BY FlowAssumption DEF FlowInv, TypeOK, WindowInv
  <2>4. consumed' \in consumed..sent
    BY <2>1, <2>2, <2>3, <1>1
  <2> QED BY <2>1, <2>4 DEF Stream!Next, Stream!Consume
<1>9. CASE handle_channel_eof
  <2>1. /\ written' = written /\ sent' = sent /\ want_end' = want_end
        /\ consumed' = consumed /\ eof_seen' = (eof_seen \/ wire[1].type = "EOF")
    BY <1>9 DEF handle_channel_eof, sndVars, totals
  <2>2. CASE eof_seen'
    <3>1. want_end /\ sent = written
      <4>1. sent_end' /\ sent_end' = sent_end
        BY <1>9, <2>2 DEF FlowInv, EndInv, handle_channel_eof, sndVars
      <4>2. want_end /\ out = 0
        BY <4>1 DEF FlowInv, EndInv
      <4> QED BY <4>2, <1>1 DEF FlowInv, WindowInv
    <3>2. eof_seen' = TRUE
      BY <2>2 DEF FlowInv, TypeOK
    <3> QED BY <2>1, <3>1, <3>2 DEF Stream!Next, Stream!SeeEnd
  <2>3. CASE ~eof_seen'
    <3>1. eof_seen' = eof_seen
      BY <2>1, <2>3 DEF FlowInv, TypeOK
    <3> QED BY <2>1, <3>1 DEF Stream!vars
  <2> QED BY <2>2, <2>3
<1> QED
  BY <1>2, <1>3, <1>4, <1>5, <1>6, <1>7, <1>8, <1>9 DEF Next, HandlerReads

\* One direction of a channel implements a bounded byte stream: nothing is
\* launched beyond what was written or beyond one window, nothing is consumed
\* that was not launched, and the end is seen only behind the last byte.
THEOREM Refinement == Spec => ImplementsStream
<1>1. Init => Stream!Init
  BY DEF Init, Stream!Init
<1>2. FlowInv /\ FlowInv' /\ [Next]_vars => [Stream!Next]_(Stream!vars)
  BY StepRefines
<1> QED BY <1>1, <1>2, FlowInvariant, PTL DEF Spec, ImplementsStream, Stream!Spec
================================================================================
