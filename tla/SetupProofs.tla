----------------------------- MODULE SetupProofs -----------------------------
(***************************************************************************)
(* Proofs about Setup, for any addresses, processes, requests and payload. *)
(***************************************************************************)
EXTENDS SetupInv, SequenceTheorems, TLAPS

(***************************************************************************)
(* The sequences on the socket and in the buffers.                         *)
(***************************************************************************)

(* Data alone is its own data: it holds no token.                          *)
LEMMA DataOfData ==
  ASSUME NEW d \in Seq(Range(Payload)) PROVE DataOf(d) = d
<1>1. d # <<>> => Head(d) \in Range(Payload)
  BY HeadTailProperties
<1> QED  BY <1>1, PayloadAssumption DEF DataOf

(* One token before it is taken off.                                       *)
LEMMA DataBehindToken ==
  ASSUME NEW t \in Tokens, NEW d \in Seq(Range(Payload))
  PROVE  /\ DataOf(<<t>> \o d) = d
         /\ <<t>> \o d # <<>> /\ Head(<<t>> \o d) = t /\ Tail(<<t>> \o d) = d
<1> DEFINE w == <<t>> \o d
<1>1. /\ w \in Seq(Tokens \cup Range(Payload)) /\ Len(w) = 1 + Len(d) /\ w[1] = t
      /\ \A i \in 1 .. Len(d) : w[1 + i] = d[i]
  OBVIOUS
<1>2. w # <<>> /\ Head(w) = t
  BY <1>1
<1>3. Tail(w) = d
  <2>1. Tail(w) \in Seq(Tokens \cup Range(Payload)) /\ Len(Tail(w)) = Len(d)
    BY <1>1
  <2>2. \A i \in 1 .. Len(d) : Tail(w)[i] = d[i]
    BY <1>1, <1>2, HeadTailProperties
  <2> QED  BY <2>1, <2>2, SeqEqual
<1> QED  BY <1>2, <1>3 DEF DataOf

(* The operations on sequences, under names the provers do not look into.  *)
Put(b, m) == Append(b, m)
Rest(b) == Tail(b)
Behind(t, d) == t \o d
InTransit(r, b, d) == r \o b \o d

LEMMA PutTyped == ASSUME NEW S, NEW b \in Seq(S), NEW m \in S PROVE Put(b, m) \in Seq(S)
BY DEF Put

LEMMA RestTyped ==
  ASSUME NEW S, NEW b \in Seq(S), b # <<>> PROVE Head(b) \in S /\ Rest(b) \in Seq(S)
BY HeadTailProperties DEF Rest

(* Receiving moves a message from the front of what is under way.          *)
LEMMA ReceiveFirst ==
  ASSUME NEW S, NEW r \in Seq(S), NEW b \in Seq(S), NEW d \in Seq(S)
  PROVE  /\ b # <<>> => InTransit(Put(r, Head(b)), Rest(b), d) = InTransit(r, b, d)
         /\ d # <<>> /\ b = <<>> => InTransit(Put(r, Head(d)), b, Rest(d)) = InTransit(r, b, d)
<1>1. ASSUME NEW q \in Seq(S), q # <<>> PROVE Append(r, Head(q)) \o Tail(q) = r \o q
  <2>1. Head(q) \in S /\ Tail(q) \in Seq(S) /\ q = <<Head(q)>> \o Tail(q)
    BY <1>1, HeadTailProperties
  <2> QED  BY <2>1
<1>2. ASSUME NEW q \in Seq(S) PROVE q \o <<>> = q /\ Append(q, Head(d)) \o <<>> = Append(q, Head(d))
  OBVIOUS
<1> QED  BY <1>1, <1>2 DEF InTransit, Put, Rest

(* Sending one more message of the payload.                                *)
LEMMA NextMessage ==
  ASSUME NEW n \in 0 .. Len(Payload), n < Len(Payload)
  PROVE  /\ SubSeq(Payload, 1, n + 1) = Put(SubSeq(Payload, 1, n), Payload[n + 1])
         /\ Payload[n + 1] \in Range(Payload)
         /\ SubSeq(Payload, 1, n) \in Seq(Range(Payload))
<1>1. Payload \in Seq(Range(Payload))
  BY PayloadAssumption
<1>2. n + 1 \in 1 .. Len(Payload)
  OBVIOUS
<1>3. Payload[n + 1] \in Range(Payload)
  BY <1>1, <1>2
<1> QED  BY <1>1, <1>2, <1>3 DEF Put

(* Sending a message puts it behind the others.                            *)
LEMMA SendLast ==
  ASSUME NEW S, NEW r \in Seq(S), NEW b \in Seq(S), NEW d \in Seq(S), NEW m \in S
  PROVE  /\ InTransit(r, Put(b, m), <<>>) = Put(InTransit(r, b, <<>>), m)
         /\ InTransit(r, <<>>, Put(d, m)) = Put(InTransit(r, <<>>, d), m)
<1>1. r \o Append(b, m) \o <<>> = Append(r \o b \o <<>>, m)
  <2>1. r \o Append(b, m) = Append(r \o b, m)
    OBVIOUS
  <2>2. r \o b \in Seq(S) /\ Append(r \o b, m) \in Seq(S)
    OBVIOUS
  <2>3. r \o b \o <<>> = r \o b /\ Append(r \o b, m) \o <<>> = Append(r \o b, m)
    BY <2>2, ConcatEmptySeq
  <2> QED  BY <2>1, <2>3
<1>2. r \o <<>> \o Append(d, m) = Append(r \o <<>> \o d, m)
  OBVIOUS
<1> QED  BY <1>1, <1>2 DEF InTransit, Put

LEMMA SendBehindToken ==
  ASSUME NEW t \in {<<>>, <<"id">>, <<"!">>}, NEW d \in Seq(Range(Payload)), NEW m \in Range(Payload)
  PROVE  Put(Behind(t, d), m) = Behind(t, Put(d, m))
<1>1. CASE t = <<>>
  BY <1>1 DEF Put, Behind
<1>2. CASE t = <<"id">>
  BY <1>2 DEF Put, Behind
<1>3. CASE t = <<"!">>
  BY <1>3 DEF Put, Behind
<1> QED  BY <1>1, <1>2, <1>3

(***************************************************************************)
(* What follows from the invariant's core.                                 *)
(***************************************************************************)

LEMMA SidesAre ==
  /\ "client" \in Sides /\ "server" \in Sides
  /\ \A side \in Sides : side = "client" \/ side = "server"
  /\ Peer("client") = "server" /\ Peer("server") = "client"
BY DEF Sides, Peer

(* With one variable the two sides decide alike.                           *)
LEMMA UsageAgrees == Agree => (check_tssx_usage("client") <=> Moves)
BY DEF Agree, Moves, check_tssx_usage, _is_domain_and_stream_socket,
   _parse_tssx_variable

LEMMA CoreSides == Core => SidesAgree
<1> SUFFICES ASSUME Core, Agree
             PROVE  /\ pc["client"] # "failed" /\ pc["server"] # "failed"
                    /\ pc["client"] = "done" /\ pc["server"] = "done" =>
                          session["client"] = session["server"]
  BY SidesAre DEF SidesAgree
<1>1. PlaceInv
  BY DEF Core, AgreeInv
<1>2. session["client"] \in BOOLEAN /\ session["server"] \in BOOLEAN
  BY SidesAre DEF Core, TypeOK
<1> QED  BY <1>1, <1>2, SidesAre DEF PlaceInv

LEMMA CoreFlags == Core => FlagsInSync
<1> SUFFICES ASSUME Core, NEW side \in Sides,
                    session[side], Quiet(side), asked[side] # BOOLEAN
             PROVE  {sock[side], flag[First(side)], flag[Second(side)]} = asked[side]
  BY DEF FlagsInSync
<1>1. PICK m \in BOOLEAN : ModeIs(side, m)
  BY DEF Core, ModeInv, ModeOf
<1>2. asked[side] = {m} /\ sock[side] = m /\ flag[First(side)] = m /\ flag[Second(side)] = m
  BY <1>1 DEF ModeIs
<1> QED  BY <1>2

LEMMA CorePrivate == Core => HandshakeIsPrivate
<1> SUFFICES ASSUME Core, Agree
             PROVE  /\ \A side \in Sides : Tokens \cap Range(received[side]) = {}
                    /\ (\A side \in Sides : session[side]) /\ ~detour =>
                          \A side \in Sides : wire[side] = <<>>
  BY DEF HandshakeIsPrivate
<1>1. PlaceInv /\ \A side \in Sides : SocketOf(side)
  BY DEF Core, AgreeInv
<1>2. ASSUME NEW side \in Sides PROVE Tokens \cap Range(received[side]) = {}
  <2>1. received[side] \in Seq(Range(Payload))
    BY <1>1 DEF SocketOf
  <2>2. \A x \in Range(received[side]) : x \in Range(Payload)
    BY <2>1, RangeOfSeq
  <2> QED  BY <2>2, PayloadAssumption
<1>3. ASSUME \A side \in Sides : session[side], ~detour, NEW side \in Sides
      PROVE  wire[side] = <<>>
  <2>1. Moves /\ pc["server"] = "done"
    BY <1>1, <1>3, SidesAre DEF PlaceInv
  <2>2. Token(side) = <<>> /\ Data(side) = <<>>
    BY <1>1, <1>3, <2>1 DEF Token, SocketOf
  <2> QED  BY <1>1, <2>2 DEF SocketOf
<1> QED  BY <1>2, <1>3

LEMMA CoreSuffices == Core /\ AbortsOnlyTorn <=> IInv
BY CoreSides, CoreFlags, CorePrivate DEF IInv, SidesInv, Core

(***************************************************************************)
(* Init.                                                                   *)
(***************************************************************************)

LEMMA NoSetterTyped == NotSetting \in [at : {"no", "first", "second"}, mode : BOOLEAN]
<1>1. FALSE \in BOOLEAN
  OBVIOUS
<1> QED  BY <1>1 DEF NotSetting

LEMMA InitTyped == Init => TypeOK
<1> SUFFICES ASSUME Init PROVE TypeOK
  OBVIOUS
<1>1. /\ session \in [Sides -> BOOLEAN] /\ sock \in [Sides -> BOOLEAN]
      /\ flag \in [Slots -> BOOLEAN] /\ asked \in [Sides -> SUBSET BOOLEAN]
      /\ overlapped \in [Sides -> BOOLEAN]
  BY Zenon DEF Init
<1>2. setter \in [Sides \X Processes -> [at : {"no", "first", "second"}, mode : BOOLEAN]]
  BY NoSetterTyped DEF Init
<1>3. /\ wire \in [Sides -> Seq(Tokens \cup Range(Payload))]
      /\ buffer \in [Sides -> Seq(Range(Payload))]
      /\ received \in [Sides -> Seq(Tokens \cup Range(Payload))]
  BY DEF Init
<1>4. sent \in [Sides -> 0 .. Len(Payload)]
  BY PayloadAssumption DEF Init
<1> QED  BY <1>1, <1>2, <1>3, <1>4 DEF Init, TypeOK

LEMMA InitAgree == Init => AgreeInv
<1> SUFFICES ASSUME Init, Agree PROVE PlaceInv /\ (\A side \in Sides : SocketOf(side)) /\ StreamInOrder
  BY DEF AgreeInv
<1>1. PlaceInv
  <2>1. \A side \in Sides : ~session[side] /\ pc[side] = "start"
    BY Zenon DEF Init
  <2> QED  BY <2>1, SidesAre DEF PlaceInv
<1>2. \A side \in Sides : wire[side] = <<>> /\ buffer[side] = <<>> /\ received[side] = <<>>
                          /\ sent[side] = 0 /\ pc[side] = "start"
  BY DEF Init
<1>3. \A side \in Sides : Data(side) = <<>> /\ Token(side) = <<>>
  BY <1>2, SidesAre DEF Data, DataOf, Token
<1>4. \A side \in Sides : SocketOf(side)
  <2>1. <<>> \o <<>> = <<>> /\ <<>> \in Seq(Range(Payload))
    OBVIOUS
  <2> QED  BY <1>2, <1>3, <2>1, Zenon DEF SocketOf
<1>5. StreamInOrder
  <2>1. SubSeq(Payload, 1, 0) = <<>> /\ <<>> \o <<>> \o <<>> = <<>>
    BY PayloadAssumption
  <2>2. \A side \in Sides : Peer(side) \in Sides
    BY SidesAre
  <2> QED  BY <1>2, <1>3, <2>1, <2>2, Zenon DEF StreamInOrder
<1> QED  BY <1>1, <1>4, <1>5

LEMMA SlotsAre == \A side \in Sides : First(side) \in Slots /\ Second(side) \in Slots
                                       /\ First(side) # Second(side)
BY DEF Slots, First, Second

LEMMA OthersSlots ==
  \A side, other \in Sides : side # other =>
     {First(side), Second(side)} \cap {First(other), Second(other)} = {}
BY DEF Sides, First, Second

LEMMA InitSession == Init => SessionInv
<1> SUFFICES ASSUME Init PROVE SessionInv
  OBVIOUS
<1>1. \A side \in Sides : ~session[side]
  BY Zenon DEF Init
<1>2. \A side \in Sides : ~flag[First(side)] /\ ~flag[Second(side)]
  BY SlotsAre, Zenon DEF Init
<1>3. \A side \in Sides, p \in Processes : setter[<<side, p>>].at = "no"
  BY DEF Init, NotSetting
<1> QED  BY <1>1, <1>2, <1>3, SidesAre DEF Init, SessionInv, Quiet

LEMMA InitMode == Init => ModeInv
<1> SUFFICES ASSUME Init, NEW side \in Sides PROVE ModeOf(side)
  BY DEF ModeInv
<1>1. asked[side] = {FALSE} /\ sock[side] = FALSE /\ ~session[side]
  BY Zenon DEF Init
<1>2. pc[side] = "start"
  BY DEF Init
<1>3. \A p \in Processes : setter[<<side, p>>].at = "no"
  BY DEF Init, NotSetting
<1>4. ModeIs(side, FALSE)
  BY <1>1, <1>3, Zenon DEF ModeIs
<1>5. asked[side] = {sock[side]}
  BY <1>1, Zenon
<1>6. pc[side] # "synchronize"
  BY <1>2
<1> QED  BY <1>1, <1>4, <1>5, <1>6, Zenon DEF ModeOf

LEMMA InitInv == Init => IInv
<1> SUFFICES ASSUME Init PROVE Core /\ AbortsOnlyTorn
  BY CoreSuffices
<1>1. aborted = "no"
  BY DEF Init
<1> QED  BY <1>1, InitTyped, InitAgree, InitSession, InitMode DEF Core,
           AbortsOnlyTorn

(***************************************************************************)
(* What a step leaves alone.                                               *)
(***************************************************************************)

LEMMA StreamKept ==
  ASSUME AgreeInv, UNCHANGED <<static, pc, session, stream>> PROVE AgreeInv'
BY DEF AgreeInv, Agree, PlaceInv, SocketOf, StreamInOrder, Moves,
   check_tssx_usage,
   _is_domain_and_stream_socket, _parse_tssx_variable, Token, Data, static, stream

LEMMA ModeOfKept ==
  ASSUME NEW side \in Sides, ModeOf(side),
         pc'[side] = pc[side], session'[side] = session[side], asked'[side] = asked[side],
         overlapped'[side] = overlapped[side],
         sock'[side] = sock[side], flag'[First(side)] = flag[First(side)],
         flag'[Second(side)] = flag[Second(side)],
         \A p \in Processes : setter'[<<side, p>>] = setter[<<side, p>>]
  PROVE  ModeOf(side)'
<1>1. \A m \in BOOLEAN : ModeIs(side, m)' <=> ModeIs(side, m)
  BY Zenon DEF ModeIs, Quiet
<1>2. overlapped'[side] <=> overlapped[side]
  OBVIOUS
<1> QED  BY <1>1, <1>2, Zenon DEF ModeOf

LEMMA ModeKept ==
  ASSUME ModeInv, UNCHANGED <<pc, session, mode>> PROVE ModeInv'
<1> SUFFICES ASSUME NEW side \in Sides PROVE ModeOf(side)'
  BY DEF ModeInv
<1>1. /\ pc' = pc /\ session' = session /\ asked' = asked /\ sock' = sock
      /\ flag' = flag /\ setter' = setter /\ overlapped' = overlapped
  BY DEF mode
<1> QED  BY <1>1, ModeOfKept DEF ModeInv

LEMMA SessionKept ==
  ASSUME SessionInv, UNCHANGED <<pc, wire, session, flag, setter>> PROVE SessionInv'
BY DEF SessionInv, Quiet

LEMMA TornKept ==
  ASSUME AbortsOnlyTorn, UNCHANGED mode PROVE AbortsOnlyTorn'
BY DEF AbortsOnlyTorn, Quiet, mode

(***************************************************************************)
(* The blocking mode.                                                      *)
(***************************************************************************)

LEMMA ClientPreparesKeeps ==
  ASSUME Core, AbortsOnlyTorn, ClientPrepares PROVE Core' /\ AbortsOnlyTorn'
<1>1. TypeOK'
  <2>1. sock' \in [Sides -> BOOLEAN] /\ asked' \in [Sides -> SUBSET BOOLEAN]
    BY Zenon DEF Core, TypeOK, ClientPrepares
  <2> QED  BY <2>1 DEF Core, TypeOK, ClientPrepares, stream
<1>2. AgreeInv'
  BY StreamKept DEF Core, ClientPrepares
<1>3. SessionInv'
  BY SessionKept DEF Core, ClientPrepares, stream
<1>4. ModeInv'
  <2> SUFFICES ASSUME NEW side \in Sides PROVE ModeOf(side)'
    BY DEF ModeInv
  <2>1. CASE side = "client"
    <3>1. ~session[side] /\ Quiet(side) /\ pc[side] = "start"
      BY <2>1, SidesAre DEF Core, SessionInv, ClientPrepares
    <3>2. asked'[side] = {TRUE} /\ sock'[side] = TRUE
      BY <2>1, Zenon DEF Core, TypeOK, ClientPrepares
    <3>3. ModeIs(side, TRUE)'
      BY <3>1, <3>2, Zenon DEF ModeIs, Quiet, ClientPrepares
    <3>4. asked'[side] = {sock'[side]}
      BY <3>2, Zenon
    <3>5. pc'[side] # "synchronize" /\ side # "server"
      BY <2>1, <3>1 DEF ClientPrepares
    <3> QED  BY <3>3, <3>4, <3>5, Zenon DEF ModeOf
  <2>2. CASE side # "client"
    <3>1. asked'[side] = asked[side] /\ sock'[side] = sock[side]
      BY <2>2, Zenon DEF Core, TypeOK, ClientPrepares
    <3> QED  BY <3>1, ModeOfKept DEF Core, ModeInv, ClientPrepares
  <2> QED  BY <2>1, <2>2
<1>5. AbortsOnlyTorn'
  BY DEF AbortsOnlyTorn, ClientPrepares, Quiet
<1> QED  BY <1>1, <1>2, <1>3, <1>4, <1>5 DEF Core

LEMMA SecondTyped ==
  ASSUME NEW M, NEW r \in [at : {"no", "first", "second"}, mode : M]
  PROVE  [r EXCEPT !.at = "second"] \in [at : {"no", "first", "second"}, mode : M]
OBVIOUS

LEMMA SetFirstKeeps ==
  ASSUME Core, AbortsOnlyTorn, NEW side \in Sides, NEW p \in Processes, SetFirst(side, p)
  PROVE  Core' /\ AbortsOnlyTorn'
<1>0. session[side] /\ ~Quiet(side) /\ First(side) \in Slots /\ <<side, p>> \in Sides \X Processes
  BY SlotsAre DEF Core, SessionInv, SetFirst, Quiet
<1>1. TypeOK'
  <2>1. flag' \in [Slots -> BOOLEAN]
    <3>1. setter[<<side, p>>].mode \in BOOLEAN
      BY <1>0 DEF Core, TypeOK
    <3> QED  BY <3>1, Zenon DEF Core, TypeOK, SetFirst
  <2>2. setter' \in [Sides \X Processes -> [at : {"no", "first", "second"}, mode : BOOLEAN]]
    <3> DEFINE s == [setter[<<side, p>>] EXCEPT !.at = "second"]
    <3>1. s \in [at : {"no", "first", "second"}, mode : BOOLEAN]
      <4>1. setter[<<side, p>>] \in [at : {"no", "first", "second"}, mode : BOOLEAN]
        BY <1>0 DEF Core, TypeOK
      <4> QED  BY <4>1, SecondTyped
    <3>2. setter' = [setter EXCEPT ![<<side, p>>] = s]
      BY DEF SetFirst
    <3> HIDE DEF s
    <3> QED  BY <3>1, <3>2 DEF Core, TypeOK
  <2> QED  BY <2>1, <2>2 DEF Core, TypeOK, SetFirst, stream
<1>2. AgreeInv'
  BY StreamKept DEF Core, SetFirst
<1>a. /\ setter'[<<side, p>>].at = "second"
      /\ setter'[<<side, p>>].mode = setter[<<side, p>>].mode
      /\ \A s \in Sides, q \in Processes : <<s, q>> # <<side, p>> => setter'[<<s, q>>] = setter[<<s, q>>]
  BY <1>0 DEF Core, TypeOK, SetFirst
<1>b. flag'[First(side)] = setter[<<side, p>>].mode
  BY <1>0, Zenon DEF Core, TypeOK, SetFirst
<1>c. \A x \in Slots : x # First(side) => flag'[x] = flag[x]
  BY <1>0, Zenon DEF Core, TypeOK, SetFirst
<1>d. ~Quiet(side)'
  BY <1>a DEF Quiet
<1>e. ASSUME NEW other \in Sides, other # side
      PROVE  /\ flag'[First(other)] = flag[First(other)] /\ flag'[Second(other)] = flag[Second(other)]
             /\ \A q \in Processes : setter'[<<other, q>>] = setter[<<other, q>>]
  <2>1. First(other) # First(side) /\ Second(other) # First(side)
    BY <1>e, OthersSlots
  <2> QED  BY <1>e, <1>a, <1>c, <2>1, SlotsAre
<1>3. SessionInv'
  <2>1. ASSUME NEW other \in Sides, ~session[other]
        PROVE  Quiet(other)' /\ ~flag'[First(other)] /\ ~flag'[Second(other)]
    <3>1. other # side
      BY <1>0, <2>1
    <3> QED  BY <1>e, <2>1, <3>1 DEF Core, SessionInv, Quiet
  <2> QED  BY <2>1 DEF Core, SessionInv, SetFirst, stream
<1>4. ModeInv'
  <2> SUFFICES ASSUME NEW other \in Sides PROVE ModeOf(other)'
    BY DEF ModeInv
  <2>1. CASE other # side
    BY <2>1, <1>e, ModeOfKept DEF Core, ModeInv, SetFirst
  <2>2. CASE other = side
    <3>1. ASSUME NEW m \in BOOLEAN, ModeIs(side, m) PROVE ModeIs(side, m)'
      <4>1. setter[<<side, p>>].mode = m /\ \A q \in Processes \ {p} : setter[<<side, q>>].at = "no"
        BY <3>1 DEF ModeIs, SetFirst
      <4>2. \A q \in Processes \ {p} : setter'[<<side, q>>].at = "no"
        BY <1>a, <4>1
      <4>3. asked'[side] = BOOLEAN \/ (asked'[side] = {m} /\ sock'[side] = m)
        BY <3>1 DEF ModeIs, SetFirst
      <4>4. \A q \in Processes : setter'[<<side, q>>].at # "no" => q = p
        BY <4>2
      <4> QED  BY <4>1, <4>2, <4>3, <4>4, <1>a, <1>b, <1>d, Zenon DEF ModeIs
    <3>2. session'[side] /\ pc'[side] = "done"
      BY <1>0 DEF SetFirst, Core, SessionInv
    <3>3. asked'[side] = asked[side] /\ overlapped' = overlapped
      BY DEF SetFirst
    <3>4. pc'[side] # "synchronize"
      BY <3>2
    <3> QED  BY <2>2, <3>1, <3>2, <3>3, <3>4, Zenon DEF Core, ModeInv, ModeOf
  <2> QED  BY <2>1, <2>2
<1>5. AbortsOnlyTorn'
  BY DEF AbortsOnlyTorn, SetFirst
<1> QED  BY <1>1, <1>2, <1>3, <1>4, <1>5 DEF Core

LEMMA SetSecondKeeps ==
  ASSUME Core, AbortsOnlyTorn, NEW side \in Sides, NEW p \in Processes, SetSecond(side, p)
  PROVE  Core' /\ AbortsOnlyTorn'
<1>0. /\ session[side] /\ ~Quiet(side) /\ Second(side) \in Slots
      /\ <<side, p>> \in Sides \X Processes
  BY SlotsAre DEF Core, SessionInv, SetSecond, Quiet
<1>1. TypeOK'
  <2>1. flag' \in [Slots -> BOOLEAN]
    <3>1. setter[<<side, p>>].mode \in BOOLEAN
      BY <1>0 DEF Core, TypeOK
    <3> QED  BY <3>1, Zenon DEF Core, TypeOK, SetSecond
  <2>2. setter' \in [Sides \X Processes -> [at : {"no", "first", "second"}, mode : BOOLEAN]]
    BY NoSetterTyped DEF Core, TypeOK, SetSecond
  <2> QED  BY <2>1, <2>2 DEF Core, TypeOK, SetSecond, stream
<1>2. AgreeInv'
  BY StreamKept DEF Core, SetSecond
<1>a. /\ setter'[<<side, p>>].at = "no"
      /\ \A s \in Sides, q \in Processes : <<s, q>> # <<side, p>> => setter'[<<s, q>>] = setter[<<s, q>>]
  BY <1>0 DEF Core, TypeOK, SetSecond, NotSetting
<1>b. flag'[Second(side)] = setter[<<side, p>>].mode
  BY <1>0, Zenon DEF Core, TypeOK, SetSecond
<1>c. \A x \in Slots : x # Second(side) => flag'[x] = flag[x]
  BY <1>0, Zenon DEF Core, TypeOK, SetSecond
<1>e. ASSUME NEW other \in Sides, other # side
      PROVE  /\ flag'[First(other)] = flag[First(other)] /\ flag'[Second(other)] = flag[Second(other)]
             /\ \A q \in Processes : setter'[<<other, q>>] = setter[<<other, q>>]
  <2>1. First(other) # Second(side) /\ Second(other) # Second(side)
    BY <1>e, OthersSlots
  <2> QED  BY <1>e, <1>a, <1>c, <2>1, SlotsAre
<1>f. flag'[First(side)] = flag[First(side)]
  BY <1>c, SlotsAre
<1>3. SessionInv'
  <2>1. ASSUME NEW other \in Sides, ~session[other]
        PROVE  Quiet(other)' /\ ~flag'[First(other)] /\ ~flag'[Second(other)]
    <3>1. other # side
      BY <1>0, <2>1
    <3> QED  BY <1>e, <2>1, <3>1 DEF Core, SessionInv, Quiet
  <2> QED  BY <2>1 DEF Core, SessionInv, SetSecond, stream
<1>g. ASSUME NEW m \in BOOLEAN, ModeIs(side, m) PROVE ModeIs(side, m)'
  <2>1. /\ setter[<<side, p>>].mode = m /\ flag[First(side)] = m
        /\ \A q \in Processes \ {p} : setter[<<side, q>>].at = "no"
    BY <1>g DEF ModeIs, SetSecond
  <2>2. \A q \in Processes : setter'[<<side, q>>].at = "no"
    BY <1>a, <2>1
  <2>3. asked'[side] = BOOLEAN \/ (asked'[side] = {m} /\ sock'[side] = m)
    BY <1>g DEF ModeIs, SetSecond
  <2>4. flag'[First(side)] = m /\ flag'[Second(side)] = m
    BY <2>1, <1>b, <1>f
  <2> QED  BY <2>2, <2>3, <2>4, Zenon DEF ModeIs
<1>4. ModeInv'
  <2> SUFFICES ASSUME NEW other \in Sides PROVE ModeOf(other)'
    BY DEF ModeInv
  <2>1. CASE other # side
    BY <2>1, <1>e, ModeOfKept DEF Core, ModeInv, SetSecond
  <2>2. CASE other = side
    <3>2. session'[side] /\ pc'[side] = "done"
      BY <1>0 DEF SetSecond, Core, SessionInv
    <3>3. asked'[side] = asked[side] /\ overlapped' = overlapped
      BY DEF SetSecond
    <3>4. pc'[side] # "synchronize"
      BY <3>2
    <3> QED  BY <2>2, <1>g, <3>2, <3>3, <3>4, Zenon DEF Core, ModeInv, ModeOf
  <2> QED  BY <2>1, <2>2
<1>5. AbortsOnlyTorn'
  <2>1. aborted' = "no"
    BY DEF SetSecond
  <2> QED  BY <2>1 DEF AbortsOnlyTorn
<1> QED  BY <1>1, <1>2, <1>3, <1>4, <1>5 DEF Core

LEMMA FcntlGetKeeps ==
  ASSUME Core, AbortsOnlyTorn, NEW side \in Sides, NEW p \in Processes, fcntl_get(side, p)
  PROVE  Core' /\ AbortsOnlyTorn'
<1>1. TypeOK'
  BY DEF Core, TypeOK, fcntl_get, stream
<1>2. AgreeInv'
  BY StreamKept DEF Core, fcntl_get
<1>3. SessionInv'
  BY SessionKept DEF Core, fcntl_get, stream
<1>4. ModeInv'
  <2> SUFFICES ASSUME NEW other \in Sides PROVE ModeOf(other)'
    BY DEF ModeInv
  <2> QED  BY ModeOfKept DEF Core, ModeInv, fcntl_get
<1>5. AbortsOnlyTorn'
  <2>1. session[side] /\ aborted = "no" /\ overlapped' = overlapped /\ setter' = setter
    BY DEF fcntl_get, May
  <2>2. ASSUME ~overlapped[side], Quiet(side)
        PROVE  flag[First(side)] = flag[Second(side)]
    <3>1. PICK m \in BOOLEAN : ModeIs(side, m)
      BY <2>2 DEF Core, ModeInv, ModeOf
    <3> QED  BY <2>1, <2>2, <3>1 DEF ModeIs
  <2>3. CASE flag[First(side)] = flag[Second(side)]
    BY <2>1, <2>3 DEF AbortsOnlyTorn, fcntl_get
  <2>4. CASE flag[First(side)] # flag[Second(side)]
    <3>1. aborted' = side
      BY <2>4 DEF fcntl_get
    <3> QED  BY <2>1, <2>2, <2>4, <3>1 DEF AbortsOnlyTorn, Quiet
  <2> QED  BY <2>3, <2>4
<1> QED  BY <1>1, <1>2, <1>3, <1>4, <1>5 DEF Core

LEMMA FcntlSetKeeps ==
  ASSUME Core, AbortsOnlyTorn, NEW side \in Sides, NEW p \in Processes,
         NEW command \in {"F_SETFL", "F_SETFD"}, NEW m \in BOOLEAN, fcntl_set(side, p, command, m)
  PROVE  Core' /\ AbortsOnlyTorn'
<1>0. /\ pc[side] = "done" /\ setter[<<side, p>>].at = "no"
      /\ <<side, p>> \in Sides \X Processes
  BY DEF fcntl_set, May
<1>a. /\ asked'[side] = IF command = "F_SETFL" /\ Quiet(side) THEN {m}
                        ELSE IF session[side] THEN BOOLEAN ELSE asked[side]
      /\ \A other \in Sides : other # side => asked'[other] = asked[other]
      /\ asked' \in [Sides -> SUBSET BOOLEAN]
  BY Zenon DEF Core, TypeOK, fcntl_set
<1>b. /\ sock'[side] = IF command = "F_SETFL" THEN m ELSE sock[side]
      /\ \A other \in Sides : other # side => sock'[other] = sock[other]
      /\ sock' \in [Sides -> BOOLEAN]
  BY Zenon DEF Core, TypeOK, fcntl_set
<1>o. /\ overlapped'[side] = ~Quiet(side)
      /\ \A other \in Sides : other # side => overlapped'[other] = overlapped[other]
      /\ overlapped' \in [Sides -> BOOLEAN]
  BY Zenon DEF Core, TypeOK, fcntl_set
<1>c. [at |-> "first", mode |-> m] \in [at : {"no", "first", "second"}, mode : BOOLEAN]
  OBVIOUS
<1>d. /\ setter'[<<side, p>>] = IF session[side] THEN [at |-> "first", mode |-> m] ELSE NotSetting
      /\ \A s \in Sides, q \in Processes : <<s, q>> # <<side, p>> => setter'[<<s, q>>] = setter[<<s, q>>]
      /\ setter' \in [Sides \X Processes -> [at : {"no", "first", "second"}, mode : BOOLEAN]]
  BY <1>0, <1>c, NoSetterTyped DEF Core, TypeOK, fcntl_set
<1>1. TypeOK'
  BY <1>a, <1>b, <1>o, <1>d DEF Core, TypeOK, fcntl_set, stream
<1>2. AgreeInv'
  BY StreamKept DEF Core, fcntl_set
<1>e. ~session[side] => Quiet(side)' /\ Quiet(side)
  <2> SUFFICES ASSUME ~session[side] PROVE Quiet(side) /\ Quiet(side)'
    OBVIOUS
  <2>1. Quiet(side)
    BY DEF Core, SessionInv
  <2>2. setter'[<<side, p>>].at = "no"
    BY <1>d DEF NotSetting
  <2> QED  BY <2>1, <2>2, <1>d DEF Quiet
<1>3. SessionInv'
  <2>1. ASSUME NEW other \in Sides, ~session[other]
        PROVE  Quiet(other)' /\ ~flag'[First(other)] /\ ~flag'[Second(other)]
    <3>1. Quiet(other) /\ ~flag'[First(other)] /\ ~flag'[Second(other)]
      BY <2>1 DEF Core, SessionInv, fcntl_set
    <3>2. CASE other = side
      BY <2>1, <3>1, <3>2, <1>e
    <3>3. CASE other # side
      BY <3>1, <3>3, <1>d DEF Quiet
    <3> QED  BY <3>2, <3>3
  <2> QED  BY <2>1 DEF Core, SessionInv, fcntl_set, stream
<1>f. ASSUME command = "F_SETFL" \/ session[side], Quiet(side) PROVE ModeIs(side, m)'
  <2>1. asked'[side] = BOOLEAN \/ (asked'[side] = {m} /\ sock'[side] = m)
    BY <1>a, <1>b, <1>f
  <2>2. CASE ~session[side]
    <3>1. \A q \in Processes : setter'[<<side, q>>].at = "no"
      BY <2>2, <1>e DEF Quiet
    <3>2. ~session'[side]
      BY <2>2 DEF fcntl_set
    <3> QED  BY <2>1, <3>1, <3>2, Zenon DEF ModeIs
  <2>3. CASE session[side]
    <3>1. setter'[<<side, p>>].at = "first" /\ setter'[<<side, p>>].mode = m
      BY <2>3, <1>d
    <3>2. \A q \in Processes \ {p} : setter'[<<side, q>>].at = "no"
      BY <1>d, <1>f DEF Quiet
    <3>3. ~Quiet(side)' /\ \A q \in Processes : setter'[<<side, q>>].at # "no" => q = p
      BY <3>1, <3>2 DEF Quiet
    <3>4. "first" # "second"
      OBVIOUS
    <3> QED  BY <2>1, <3>1, <3>2, <3>3, <3>4, Zenon DEF ModeIs
  <2> QED  BY <2>2, <2>3
<1>g. ASSUME command # "F_SETFL", ~session[side], NEW k \in BOOLEAN, ModeIs(side, k)
      PROVE  ModeIs(side, k)'
  <2>1. asked'[side] = BOOLEAN \/ (asked'[side] = {k} /\ sock'[side] = k)
    BY <1>a, <1>b, <1>g DEF ModeIs
  <2>2. \A q \in Processes : setter'[<<side, q>>].at = "no"
    BY <1>g, <1>e DEF Quiet
  <2>3. ~session'[side]
    BY <1>g DEF fcntl_set
  <2> QED  BY <2>1, <2>2, <2>3, Zenon DEF ModeIs
<1>4. ModeInv'
  <2> SUFFICES ASSUME NEW other \in Sides PROVE ModeOf(other)'
    BY DEF ModeInv
  <2>1. CASE other # side
    <3>1. \A q \in Processes : setter'[<<other, q>>] = setter[<<other, q>>]
      BY <2>1, <1>d
    <3> QED  BY <2>1, <3>1, <1>a, <1>b, <1>o, ModeOfKept DEF Core, ModeInv,
               fcntl_set
  <2>2. CASE other = side
    <3>1. (overlapped'[side] /\ asked'[side] = BOOLEAN) \/ \E k \in BOOLEAN : ModeIs(side, k)'
      <4>1. CASE Quiet(side) /\ (command = "F_SETFL" \/ session[side])
        BY <4>1, <1>f
      <4>2. CASE ~Quiet(side)
        <5>1. session[side]
          BY <4>2, <1>e
        <5>2. asked'[side] = BOOLEAN
          BY <4>2, <5>1, <1>a
        <5>3. overlapped'[side]
          BY <4>2, <1>o, Zenon
        <5> QED  BY <5>2, <5>3
      <4>3. CASE Quiet(side) /\ ~(command = "F_SETFL" \/ session[side])
        <5>1. asked[side] = {sock[side]}
          BY <4>3, <1>0 DEF Core, ModeInv, ModeOf
        <5>2. asked[side] # BOOLEAN
          BY <5>1, Zenon
        <5>3. \E k \in BOOLEAN : ModeIs(side, k)
          BY <5>2 DEF Core, ModeInv, ModeOf
        <5> QED  BY <4>3, <5>3, <1>g
      <4> QED  BY <4>1, <4>2, <4>3
    <3>2. ~session'[side] => asked'[side] = {sock'[side]}
      <4> SUFFICES ASSUME ~session[side] PROVE asked'[side] = {sock'[side]}
        BY DEF fcntl_set
      <4>1. asked[side] = {sock[side]}
        BY <1>0 DEF Core, ModeInv, ModeOf
      <4> QED  BY <4>1, <1>a, <1>b, <1>e
    <3>3. pc'[side] = "done" /\ pc'[side] # "synchronize"
      BY <1>0 DEF fcntl_set
    <3> QED  BY <2>2, <3>1, <3>2, <3>3, Zenon DEF ModeOf
  <2> QED  BY <2>1, <2>2
<1>5. AbortsOnlyTorn'
  <2>1. aborted' = "no"
    BY DEF fcntl_set, May
  <2> QED  BY <2>1 DEF AbortsOnlyTorn
<1> QED  BY <1>1, <1>2, <1>3, <1>4, <1>5 DEF Core

(***************************************************************************)
(* Sending and receiving.                                                  *)
(***************************************************************************)

LEMMA StaticKept ==
  ASSUME UNCHANGED static
  PROVE  /\ Agree' <=> Agree
         /\ Moves' <=> Moves
         /\ \A side \in Sides : check_tssx_usage(side)' <=> check_tssx_usage(side)
BY DEF static, Agree, Moves, check_tssx_usage, _is_domain_and_stream_socket,
   _parse_tssx_variable

LEMMA TokenIs == \A side \in Sides : Token(side) \in {<<>>, <<"id">>, <<"!">>}
BY DEF Token

LEMMA DataBehind ==
  ASSUME NEW t \in {<<>>, <<"id">>, <<"!">>}, NEW d \in Seq(Range(Payload))
  PROVE  DataOf(Behind(t, d)) = d
<1>1. CASE t = <<>>
  <2>1. t \o d = d
    BY <1>1, ConcatEmptySeq
  <2> QED  BY <2>1, DataOfData DEF Behind
<1>2. CASE t = <<"id">>
  BY <1>2, DataBehindToken DEF Tokens, Behind
<1>3. CASE t = <<"!">>
  BY <1>3, DataBehindToken DEF Tokens, Behind
<1> QED  BY <1>1, <1>2, <1>3

LEMMA SocketKept ==
  ASSUME NEW side \in Sides, SocketOf(side), UNCHANGED <<static, detour>>,
         Token(side)' = Token(side), wire'[side] = wire[side], buffer'[side] = buffer[side],
         received'[side] = received[side], sent'[side] = sent[side],
         pc'[side] # "done" => pc[side] # "done"
  PROVE  SocketOf(side)'
BY StaticKept DEF SocketOf, Data

LEMMA OrderKept ==
  ASSUME StreamInOrder, UNCHANGED <<static, buffer, received, sent, detour>>,
         \A side \in Sides : Data(side)' = Data(side)
  PROVE  StreamInOrder'
BY StaticKept DEF StreamInOrder

(* A plain request of a side with a session goes through the buffer.       *)
LEMMA PlainIsRouted == ASSUME NEW r \in Requests, Plain(r) PROVE Route(r) = "write"
<1>1. /\ r.fn \in {"write", "send", "sendto", "sendmsg"} /\ r.flags \in {"none", "NOSIGNAL", "other"}
      /\ r.address \in BOOLEAN /\ r.buffers \in {1, 2}
  BY RequestsAssumption
<1>2. CASE r.fn = "write"
  BY <1>2 DEF Route
<1>3. CASE r.fn # "write"
  <2>1. r.flags \in {"none", "NOSIGNAL"} /\ ~r.address /\ r.buffers = 1
    BY <1>1, <1>3 DEF Plain
  <2>2. send(r) = "write" /\ sendto(r) = "write" /\ sendmsg(r) = "write"
    BY <2>1 DEF send, sendto, sendmsg
  <2> QED  BY <1>1, <1>3, <2>2 DEF Route
<1> QED  BY <1>2, <1>3

LEMMA SendKeeps ==
  ASSUME Core, AbortsOnlyTorn, NEW side \in Sides, NEW r \in Requests, Send(side, r)
  PROVE  Core' /\ AbortsOnlyTorn'
<1> DEFINE n == sent[side]
           message == Payload[n + 1]
<1>0. /\ pc[side] = "done" /\ n \in 0 .. Len(Payload) /\ n < Len(Payload)
      /\ UNCHANGED <<static, pc, session, received, mode>>
      /\ detour' = (detour \/ ~Plain(r))
  BY DEF Send, Talks, Core, TypeOK
<1>a. /\ SubSeq(Payload, 1, n + 1) = Put(SubSeq(Payload, 1, n), message)
      /\ message \in Range(Payload)
  BY <1>0, NextMessage
<1>b. sent'[side] = n + 1 /\ \A s \in Sides : s # side => sent'[s] = sent[s]
  BY DEF Send, Core, TypeOK
<1>d. \/ /\ ThroughBuffer(side, r) /\ wire' = wire
         /\ buffer' = [buffer EXCEPT ![side] = Put(buffer[side], message)]
      \/ /\ ~ThroughBuffer(side, r) /\ buffer' = buffer
         /\ wire' = [wire EXCEPT ![side] = Put(wire[side], message)]
  BY DEF Send, Put
<1> HIDE DEF message, n
<1>1. TypeOK'
  <2>1. buffer' \in [Sides -> Seq(Range(Payload))]
    <3>1. Put(buffer[side], message) \in Seq(Range(Payload))
      BY <1>a, PutTyped DEF Core, TypeOK
    <3> QED  BY <1>d, <3>1 DEF Core, TypeOK
  <2>2. wire' \in [Sides -> Seq(Tokens \cup Range(Payload))]
    <3>1. Put(wire[side], message) \in Seq(Tokens \cup Range(Payload))
      BY <1>a, PutTyped DEF Core, TypeOK
    <3> QED  BY <1>d, <3>1 DEF Core, TypeOK
  <2>3. sent' \in [Sides -> 0 .. Len(Payload)]
    BY <1>0, PayloadAssumption DEF Core, TypeOK, Send, n
  <2> QED  BY <1>0, <2>1, <2>2, <2>3 DEF Core, TypeOK, mode
<1>2. ASSUME Agree
      PROVE  PlaceInv' /\ (\A s \in Sides : SocketOf(s)') /\ StreamInOrder'
  <2>1. PlaceInv /\ (\A s \in Sides : SocketOf(s)) /\ StreamInOrder
    BY <1>2 DEF Core, AgreeInv
  <2>2. Moves' <=> Moves
    BY <1>0, StaticKept
  <2>3. PlaceInv'
    BY <1>0, <2>1, <2>2 DEF PlaceInv
  <2>4. \A s \in Sides : Token(s)' = Token(s)
    BY <1>0, <2>2 DEF Token
  <2>5. ASSUME NEW s \in Sides, s # side
        PROVE  wire'[s] = wire[s] /\ buffer'[s] = buffer[s] /\ Data(s)' = Data(s)
    BY <1>d, <2>5 DEF Core, TypeOK, Data
  <2>6. ASSUME NEW s \in Sides, s # side PROVE SocketOf(s)'
    BY <1>0, <1>b, <2>1, <2>2, <2>4, <2>5, <2>6 DEF SocketOf
  <2>7. session[side] <=> Moves
    BY <1>0, <2>1 DEF PlaceInv
  <2>8. /\ Data(side) \in Seq(Range(Payload)) /\ wire[side] = Token(side) \o Data(side)
        /\ received[Peer(side)] \in Seq(Range(Payload)) /\ buffer[side] \in Seq(Range(Payload))
        /\ Peer(side) \in Sides
    BY <2>1, SidesAre DEF SocketOf, Core, TypeOK
  <2>9. /\ Moves /\ ~detour' => ThroughBuffer(side, r)
        /\ ThroughBuffer(side, r) => Moves
    BY <1>0, <2>7, PlainIsRouted DEF ThroughBuffer
  <2>10. ASSUME ~detour'
         PROVE  InTransit(received[Peer(side)], buffer[side], Data(side)) = SubSeq(Payload, 1, n)
    BY <1>0, <1>2, <2>1, <2>10 DEF StreamInOrder, n, InTransit
  <2>11. ASSUME SocketOf(side)',
                ~detour' => InTransit(received[Peer(side)], buffer'[side], Data(side)')
                               = SubSeq(Payload, 1, n + 1)
         PROVE  PlaceInv' /\ (\A s \in Sides : SocketOf(s)') /\ StreamInOrder'
    <3>1. StreamInOrder'
      <4> SUFFICES ASSUME ~detour', NEW s \in Sides
                   PROVE  received'[Peer(s)] \o buffer'[s] \o Data(s)' = SubSeq(Payload, 1, sent'[s])
        BY DEF StreamInOrder
      <4>1. CASE s = side
        BY <1>0, <1>b, <2>11, <4>1 DEF InTransit
      <4>2. CASE s # side
        BY <1>0, <1>2, <1>b, <2>1, <2>5, <4>2 DEF StreamInOrder
      <4> QED  BY <4>1, <4>2
    <3> QED  BY <2>3, <2>6, <2>11, <3>1
  <2>12. CASE ThroughBuffer(side, r)
    <3>1. /\ Moves /\ wire' = wire /\ buffer'[side] = Put(buffer[side], message)
          /\ Data(side)' = Data(side)
      BY <1>d, <2>9, <2>12 DEF Core, TypeOK, Data
    <3>2. SocketOf(side)'
      BY <1>0, <2>1, <2>2, <2>4, <3>1 DEF SocketOf
    <3>3. ASSUME ~detour'
          PROVE  InTransit(received[Peer(side)], buffer'[side], Data(side)') = SubSeq(Payload, 1, n + 1)
      <4>1. Data(side) = <<>>
        BY <1>0, <2>1, <3>1, <3>3 DEF SocketOf
      <4>2. message \in Range(Payload)
        BY <1>a
      <4>3. InTransit(received[Peer(side)], Put(buffer[side], message), <<>>)
               = Put(InTransit(received[Peer(side)], buffer[side], <<>>), message)
        BY <2>8, <4>2, SendLast
      <4> QED  BY <1>a, <2>10, <3>1, <3>3, <4>1, <4>3, Zenon
    <3> QED  BY <2>11, <3>2, <3>3
  <2>13. CASE ~ThroughBuffer(side, r)
    <3>1. /\ buffer' = buffer /\ wire'[side] = Put(wire[side], message)
          /\ Moves => detour'
      BY <1>d, <2>9, <2>13 DEF Core, TypeOK
    <3>2. Put(Data(side), message) \in Seq(Range(Payload))
      BY <1>a, <2>8, PutTyped
    <3>3. wire'[side] = Behind(Token(side), Put(Data(side), message))
      <4>1. wire[side] = Behind(Token(side), Data(side))
        BY <2>8 DEF Behind
      <4> QED  BY <1>a, <2>8, <3>1, <4>1, TokenIs, SendBehindToken
    <3>4. Data(side)' = Put(Data(side), message)
      BY <3>2, <3>3, TokenIs, DataBehind DEF Data
    <3>5. SocketOf(side)'
      <4>1. wire'[side] = Token(side) \o Data(side)'
        BY <3>3, <3>4 DEF Behind
      <4> QED  BY <1>0, <2>1, <2>2, <2>4, <3>1, <3>2, <3>4, <4>1 DEF SocketOf
    <3>6. ASSUME ~detour'
          PROVE  InTransit(received[Peer(side)], buffer'[side], Data(side)') = SubSeq(Payload, 1, n + 1)
      <4>1. buffer[side] = <<>>
        BY <2>1, <3>1, <3>6 DEF SocketOf
      <4>2. message \in Range(Payload)
        BY <1>a
      <4>3. InTransit(received[Peer(side)], <<>>, Put(Data(side), message))
               = Put(InTransit(received[Peer(side)], <<>>, Data(side)), message)
        BY <2>8, <4>2, SendLast
      <4> QED  BY <1>a, <2>10, <3>1, <3>4, <3>6, <4>1, <4>3, Zenon
    <3> QED  BY <2>11, <3>5, <3>6
  <2> QED  BY <2>12, <2>13
<1>3. SessionInv'
  <2>1. pc["server"] = "start" => wire'["server"] = wire["server"]
    BY <1>0, <1>d, SidesAre DEF Core, TypeOK
  <2> QED  BY <1>0, <2>1 DEF Core, SessionInv, Quiet, mode
<1>4. ModeInv'
  BY <1>0, ModeKept DEF Core
<1>5. AbortsOnlyTorn'
  BY <1>0, TornKept
<1> QED  BY <1>0, <1>1, <1>2, <1>3, <1>4, <1>5, StaticKept DEF Core, AgreeInv

LEMMA ReceiveKeeps ==
  ASSUME Core, AbortsOnlyTorn, NEW side \in Sides, NEW r \in Requests, Receive(side, r)
  PROVE  Core' /\ AbortsOnlyTorn'
<1> DEFINE peer == Peer(side)
<1>0. /\ pc[side] = "done" /\ peer \in Sides /\ Peer(peer) = side /\ peer # side
      /\ UNCHANGED <<static, pc, session, sent, mode>>
      /\ detour' = (detour \/ ~Plain(r))
  BY SidesAre DEF Receive, Talks
<1>d. \/ /\ ThroughBuffer(side, r) /\ wire' = wire /\ buffer[peer] # <<>>
         /\ buffer' = [buffer EXCEPT ![peer] = Rest(buffer[peer])]
         /\ received' = [received EXCEPT ![side] = Put(received[side], Head(buffer[peer]))]
      \/ /\ ~ThroughBuffer(side, r) /\ buffer' = buffer /\ wire[peer] # <<>>
         /\ wire' = [wire EXCEPT ![peer] = Rest(wire[peer])]
         /\ received' = [received EXCEPT ![side] = Put(received[side], Head(wire[peer]))]
  BY DEF Receive, Put, Rest
<1> HIDE DEF peer
<1>a. /\ buffer[peer] \in Seq(Range(Payload)) /\ wire[peer] \in Seq(Tokens \cup Range(Payload))
      /\ received[side] \in Seq(Tokens \cup Range(Payload))
  BY <1>0 DEF Core, TypeOK
<1>1. TypeOK'
  <2>1. CASE ThroughBuffer(side, r)
    <3>1. Rest(buffer[peer]) \in Seq(Range(Payload)) /\ Head(buffer[peer]) \in Range(Payload)
      BY <1>a, <1>d, <2>1, RestTyped
    <3>2. Head(buffer[peer]) \in Tokens \cup Range(Payload)
      BY <3>1
    <3>3. Put(received[side], Head(buffer[peer])) \in Seq(Tokens \cup Range(Payload))
      BY <1>a, <3>2, PutTyped
    <3>4. received' \in [Sides -> Seq(Tokens \cup Range(Payload))]
      BY <1>d, <2>1, <3>3 DEF Core, TypeOK
    <3>5. buffer' \in [Sides -> Seq(Range(Payload))] /\ wire' = wire
      <4>1. buffer' = [buffer EXCEPT ![peer] = Rest(buffer[peer])] /\ wire' = wire
        BY <1>d, <2>1
      <4>2. buffer \in [Sides -> Seq(Range(Payload))]
        BY DEF Core, TypeOK
      <4> QED  BY <3>1, <4>1, <4>2
    <3> QED  BY <1>0, <3>4, <3>5 DEF Core, TypeOK, mode
  <2>2. CASE ~ThroughBuffer(side, r)
    <3>1. /\ Rest(wire[peer]) \in Seq(Tokens \cup Range(Payload))
          /\ Head(wire[peer]) \in Tokens \cup Range(Payload)
      BY <1>a, <1>d, <2>2, RestTyped
    <3>3. Put(received[side], Head(wire[peer])) \in Seq(Tokens \cup Range(Payload))
      BY <1>a, <3>1, PutTyped
    <3>4. received' \in [Sides -> Seq(Tokens \cup Range(Payload))]
      BY <1>d, <2>2, <3>3 DEF Core, TypeOK
    <3>5. wire' \in [Sides -> Seq(Tokens \cup Range(Payload))] /\ buffer' = buffer
      <4>1. wire' = [wire EXCEPT ![peer] = Rest(wire[peer])] /\ buffer' = buffer
        BY <1>d, <2>2
      <4>2. wire \in [Sides -> Seq(Tokens \cup Range(Payload))]
        BY DEF Core, TypeOK
      <4> QED  BY <3>1, <4>1, <4>2
    <3> QED  BY <1>0, <3>4, <3>5 DEF Core, TypeOK, mode
  <2> QED  BY <2>1, <2>2
<1>2. ASSUME Agree
      PROVE  PlaceInv' /\ (\A s \in Sides : SocketOf(s)') /\ StreamInOrder'
  <2>1. PlaceInv /\ (\A s \in Sides : SocketOf(s)) /\ StreamInOrder
    BY <1>2 DEF Core, AgreeInv
  <2>2. Moves' <=> Moves
    BY <1>0, StaticKept
  <2>3. PlaceInv'
    BY <1>0, <2>1, <2>2 DEF PlaceInv
  <2>4. \A s \in Sides : Token(s)' = Token(s)
    BY <1>0, <2>2 DEF Token
  <2>5. ~detour' => ~detour
    BY <1>0
  <2>6. /\ Data(peer) \in Seq(Range(Payload)) /\ received[side] \in Seq(Range(Payload))
        /\ Data(peer)' = DataOf(wire'[peer])
    BY <1>0, <2>1 DEF SocketOf, Data
  <2>7. Token(peer) = <<>> /\ wire[peer] = Data(peer)
    <3>1. Token(peer) = <<>>
      BY <1>0, SidesAre DEF Token
    <3>2. wire[peer] = <<>> \o Data(peer)
      BY <1>0, <2>1, <3>1 DEF SocketOf
    <3> QED  BY <2>6, <3>1, <3>2, ConcatEmptySeq
  <2>8. /\ Moves /\ ~detour' => ThroughBuffer(side, r)
        /\ ThroughBuffer(side, r) => Moves
    BY <1>0, <2>1, PlainIsRouted DEF ThroughBuffer, PlaceInv
  <2>9. \A s \in Sides : s = side \/ s = peer
    BY <1>0, SidesAre
  <2>10. ASSUME ~detour'
         PROVE  InTransit(received[side], buffer[peer], Data(peer)) = SubSeq(Payload, 1, sent[peer])
    BY <1>0, <1>2, <2>1, <2>5, <2>10 DEF StreamInOrder, InTransit
  \* The other direction is left alone.
  <2>11. /\ wire'[side] = wire[side] /\ buffer'[side] = buffer[side]
         /\ received'[peer] = received[peer] /\ Data(side)' = Data(side)
    BY <1>0, <1>d DEF Core, TypeOK, Data
  <2>12. ASSUME received'[side] \in Seq(Range(Payload)),
                SocketOf(peer)',
                ~detour' => InTransit(received'[side], buffer'[peer], Data(peer)')
                               = SubSeq(Payload, 1, sent[peer])
         PROVE  PlaceInv' /\ (\A s \in Sides : SocketOf(s)') /\ StreamInOrder'
    <3>1. SocketOf(side)'
      BY <1>0, <2>1, <2>2, <2>4, <2>5, <2>11, <2>12 DEF SocketOf
    <3>2. StreamInOrder'
      <4> SUFFICES ASSUME ~detour', NEW s \in Sides
                   PROVE  received'[Peer(s)] \o buffer'[s] \o Data(s)' = SubSeq(Payload, 1, sent'[s])
        BY DEF StreamInOrder
      <4>1. CASE s = peer
        BY <1>0, <2>12, <4>1 DEF InTransit
      <4>2. CASE s = side
        <5>1. Peer(side) = peer
          BY DEF peer
        <5> QED  BY <1>0, <1>2, <2>1, <2>5, <2>11, <4>2, <5>1 DEF StreamInOrder
      <4> QED  BY <2>9, <4>1, <4>2
    <3> QED  BY <2>3, <2>9, <2>12, <3>1, <3>2
  <2>13. CASE ThroughBuffer(side, r)
    <3>1. /\ Moves /\ wire' = wire /\ buffer[peer] # <<>> /\ buffer'[peer] = Rest(buffer[peer])
          /\ received'[side] = Put(received[side], Head(buffer[peer]))
          /\ received'[peer] = received[peer] /\ Data(peer)' = Data(peer)
      BY <1>0, <1>d, <2>8, <2>13 DEF Core, TypeOK, Data
    <3>2. received'[side] \in Seq(Range(Payload))
      BY <1>a, <2>6, <3>1, RestTyped, PutTyped
    <3>3. pc[peer] = "done"
      BY <1>0, <2>1, <3>1 DEF SocketOf
    <3>4. SocketOf(peer)'
      BY <1>0, <2>1, <2>2, <2>4, <2>5, <3>1, <3>3 DEF SocketOf
    <3>5. InTransit(received'[side], buffer'[peer], Data(peer)')
             = InTransit(received[side], buffer[peer], Data(peer))
      BY <1>a, <2>6, <3>1, ReceiveFirst
    <3> QED  BY <2>10, <2>12, <3>2, <3>4, <3>5, Zenon
  <2>14. CASE ~ThroughBuffer(side, r)
    <3>1. /\ buffer' = buffer /\ wire[peer] # <<>> /\ wire'[peer] = Rest(Data(peer))
          /\ Data(peer) # <<>>
          /\ received'[side] = Put(received[side], Head(Data(peer)))
          /\ Moves => detour'
      BY <1>0, <1>d, <2>7, <2>8, <2>14 DEF Core, TypeOK
    <3>2. Head(Data(peer)) \in Range(Payload) /\ Rest(Data(peer)) \in Seq(Range(Payload))
      BY <2>6, <3>1, RestTyped
    <3>3. received'[side] \in Seq(Range(Payload))
      BY <2>6, <3>1, <3>2, PutTyped
    <3>4. Data(peer)' = Rest(Data(peer))
      BY <2>6, <3>1, <3>2, DataOfData
    <3>5. pc[peer] = "done"
      BY <1>0, <2>1, <3>1 DEF SocketOf
    <3>6. SocketOf(peer)'
      <4>1. wire'[peer] = Token(peer) \o Data(peer)'
        BY <2>7, <3>1, <3>2, <3>4, ConcatEmptySeq
      <4>2. received'[peer] \in Seq(Range(Payload)) /\ Data(peer)' \in Seq(Range(Payload))
        BY <1>0, <2>1, <2>11, <3>2, <3>4 DEF SocketOf
      <4>3. ~Moves => buffer'[peer] = <<>>
        BY <1>0, <2>1, <3>1 DEF SocketOf
      <4> QED  BY <1>0, <2>2, <2>4, <3>1, <3>5, <4>1, <4>2, <4>3 DEF SocketOf
    <3>7. ASSUME ~detour'
          PROVE  InTransit(received'[side], buffer'[peer], Data(peer)') = SubSeq(Payload, 1, sent[peer])
      <4>1. buffer[peer] = <<>>
        BY <1>0, <2>1, <3>1, <3>7 DEF SocketOf
      <4>2. InTransit(Put(received[side], Head(Data(peer))), buffer[peer], Rest(Data(peer)))
               = InTransit(received[side], buffer[peer], Data(peer))
        BY <1>a, <2>6, <3>1, <4>1, ReceiveFirst
      <4> QED  BY <2>10, <3>1, <3>4, <3>7, <4>2, Zenon
    <3> QED  BY <2>12, <3>3, <3>6, <3>7
  <2> QED  BY <2>13, <2>14
<1>3. SessionInv'
  <2>1. ASSUME pc["server"] = "start" PROVE wire'["server"] = wire["server"]
    <3>1. wire["server"] = <<>> /\ ~session["client"]
      BY <2>1 DEF Core, SessionInv
    <3>2. CASE side = "server"
      BY <1>0, <2>1, <3>2
    <3>3. CASE side = "client"
      <4>1. peer = "server"
        BY <3>3, SidesAre DEF peer
      <4> QED  BY <1>d, <3>1, <3>3, <4>1 DEF ThroughBuffer
    <3> QED  BY <3>2, <3>3, SidesAre
  <2> QED  BY <1>0, <2>1 DEF Core, SessionInv, Quiet, mode
<1>4. ModeInv'
  BY <1>0, ModeKept DEF Core
<1>5. AbortsOnlyTorn'
  BY <1>0, TornKept
<1> QED  BY <1>0, <1>1, <1>2, <1>3, <1>4, <1>5, StaticKept DEF Core, AgreeInv

(***************************************************************************)
(* connect and accept.                                                     *)
(***************************************************************************)

LEMMA GotoIs ==
  ASSUME TypeOK, NEW side \in Sides, NEW next \in {"read", "synchronize", "done", "failed"},
         Goto(side, next)
  PROVE  /\ pc' \in [Sides -> {"start", "read", "synchronize", "done", "failed"}]
         /\ pc'[side] = next /\ \A s \in Sides : s # side => pc'[s] = pc[s]
BY DEF TypeOK, Goto

LEMMA ConnectKeeps == ASSUME Core, AbortsOnlyTorn, connect PROVE Core' /\ AbortsOnlyTorn'
<1>0. /\ pc["client"] = "start" /\ UNCHANGED <<static, session, stream, mode>>
      /\ pc'["client"] = IF check_tssx_usage("client") THEN "read" ELSE "done"
      /\ pc' \in [Sides -> {"start", "read", "synchronize", "done", "failed"}]
      /\ pc'["server"] = pc["server"]
  BY GotoIs, SidesAre DEF connect, Core
<1>a. /\ wire' = wire /\ buffer' = buffer /\ sent' = sent /\ received' = received
      /\ detour' = detour /\ session' = session /\ sock' = sock /\ asked' = asked
      /\ flag' = flag /\ setter' = setter /\ overlapped' = overlapped /\ aborted' = aborted
  BY <1>0 DEF stream, mode
<1>1. TypeOK'
  BY <1>0, <1>a DEF Core, TypeOK
<1>2. ASSUME Agree
      PROVE  PlaceInv' /\ (\A s \in Sides : SocketOf(s)') /\ StreamInOrder'
  <2>1. PlaceInv /\ (\A s \in Sides : SocketOf(s)) /\ StreamInOrder
    BY <1>2 DEF Core, AgreeInv
  <2>2. (Moves' <=> Moves) /\ (check_tssx_usage("client") <=> Moves)
    BY <1>0, <1>2, StaticKept, UsageAgrees
  <2>3. pc["server"] = "start"
    BY <1>0, <2>1 DEF PlaceInv
  <2>4. PlaceInv'
    BY <1>0, <1>a, <2>1, <2>2, <2>3, SidesAre DEF PlaceInv
  <2>5. \A s \in Sides : Token(s)' = Token(s) /\ Data(s)' = Data(s)
    BY <1>0, <1>a, <2>3 DEF Token, Data
  <2>6. \A s \in Sides : SocketOf(s)'
    BY <1>0, <1>a, <2>1, <2>5, SocketKept, SidesAre
  <2> QED  BY <1>0, <1>a, <2>1, <2>4, <2>5, <2>6, OrderKept
<1>3. SessionInv'
  BY <1>0, <1>a, SidesAre DEF Core, SessionInv, Quiet
<1>4. ModeInv'
  <2> SUFFICES ASSUME NEW side \in Sides PROVE ModeOf(side)'
    BY DEF ModeInv
  <2>1. CASE side = "server"
    BY <1>0, <1>a, <2>1, ModeOfKept DEF Core, ModeInv
  <2>2. CASE side # "server"
    <3>1. side = "client" /\ ModeOf(side)
      BY <2>2, SidesAre DEF Core, ModeInv
    <3>2. \A m \in BOOLEAN : ModeIs(side, m)' <=> ModeIs(side, m)
      BY <1>a, Zenon DEF ModeIs, Quiet
    <3>3. pc[side] \notin {"synchronize", "failed"} /\ pc'[side] # "synchronize"
      BY <1>0, <3>1
    <3> QED  BY <1>a, <2>2, <3>1, <3>2, <3>3, Zenon DEF ModeOf
  <2> QED  BY <2>1, <2>2
<1>5. AbortsOnlyTorn'
  BY <1>0, TornKept
<1> QED  BY <1>0, <1>1, <1>2, <1>3, <1>4, <1>5, StaticKept DEF Core, AgreeInv

LEMMA SynchronizeWithServerKeeps ==
  ASSUME Core, AbortsOnlyTorn, _synchronize_with_server PROVE Core' /\ AbortsOnlyTorn'
<1>0. /\ pc["client"] = "synchronize" /\ UNCHANGED <<static, buffer, sent, received, detour, mode>>
      /\ pc'["client"] = "done" /\ pc'["server"] = pc["server"]
      /\ pc' \in [Sides -> {"start", "read", "synchronize", "done", "failed"}]
  BY GotoIs, SidesAre DEF _synchronize_with_server, Core
<1>a. /\ wire'["client"] = Put(wire["client"], "!") /\ wire'["server"] = wire["server"]
      /\ wire' \in [Sides -> Seq(Tokens \cup Range(Payload))]
  <2>1. wire' = [wire EXCEPT !["client"] = Put(wire["client"], "!")]
    BY DEF _synchronize_with_server, Put
  <2>2. wire["client"] \in Seq(Tokens \cup Range(Payload)) /\ "!" \in Tokens \cup Range(Payload)
    BY SidesAre DEF Core, TypeOK, Tokens
  <2>3. Put(wire["client"], "!") \in Seq(Tokens \cup Range(Payload))
    BY <2>2, PutTyped
  <2> QED  BY <2>1, <2>3, SidesAre DEF Core, TypeOK
<1>b. session'["client"] /\ session'["server"] = session["server"] /\ session' \in [Sides -> BOOLEAN]
  BY SidesAre, Zenon DEF _synchronize_with_server, Core, TypeOK
<1>c. /\ sock' = sock /\ asked' = asked /\ flag' = flag /\ setter' = setter
      /\ overlapped' = overlapped /\ aborted' = aborted
  BY <1>0 DEF mode
<1>1. TypeOK'
  BY <1>0, <1>a, <1>b, <1>c DEF Core, TypeOK
<1>2. ASSUME Agree
      PROVE  PlaceInv' /\ (\A s \in Sides : SocketOf(s)') /\ StreamInOrder'
  <2>1. PlaceInv /\ (\A s \in Sides : SocketOf(s)) /\ StreamInOrder
    BY <1>2 DEF Core, AgreeInv
  <2>2. Moves' <=> Moves
    BY <1>0, StaticKept
  <2>3. Moves /\ pc["server"] = "synchronize"
    BY <1>0, <2>1, SidesAre DEF PlaceInv
  <2>4. PlaceInv'
    BY <1>0, <1>b, <2>1, <2>2, <2>3, SidesAre DEF PlaceInv
  <2>5. /\ Token("client") = <<>> /\ Token("client")' = <<"!">>
        /\ Token("server") = <<>> /\ Token("server")' = <<>>
    BY <1>0, <2>2, <2>3 DEF Token
  <2>6. SocketOf("server")'
    BY <1>0, <1>a, <2>1, <2>5, SidesAre, SocketKept
  <2>7. wire'["client"] = <<"!">> \o <<>> /\ Data("client") = <<>>
    <3>1. wire["client"] = <<>> \o Data("client") /\ Data("client") = <<>>
      BY <1>0, <2>1, <2>5, SidesAre DEF SocketOf
    <3>2. wire["client"] = <<>>
      BY <3>1
    <3>3. Put(<<>>, "!") = <<"!">> \o <<>>
      BY DEF Put
    <3> QED  BY <1>a, <3>1, <3>2, <3>3, Zenon
  <2>8. Data("client")' = <<>> /\ <<>> \in Seq(Range(Payload))
    <3>1. <<>> \in Seq(Range(Payload)) /\ "!" \in Tokens
      BY DEF Tokens
    <3> QED  BY <2>7, <3>1, DataBehindToken DEF Data
  <2>9. SocketOf("client")'
    <3>1. SocketOf("client")
      BY <2>1, SidesAre
    <3> QED  BY <1>0, <2>2, <2>3, <2>5, <2>7, <2>8, <3>1 DEF SocketOf
  <2>10. \A s \in Sides : Data(s)' = Data(s)
    <3>1. Data("server")' = Data("server")
      BY <1>a DEF Data
    <3> QED  BY <2>7, <2>8, <3>1, SidesAre
  <2> QED  BY <1>0, <2>1, <2>4, <2>6, <2>9, <2>10, OrderKept, SidesAre
<1>3. SessionInv'
  <2>1. pc["server"] # "start"
    BY <1>0 DEF Core, SessionInv
  <2> QED  BY <1>0, <1>b, <1>c, <2>1, SidesAre DEF Core, SessionInv, Quiet
<1>4. ModeInv'
  <2> SUFFICES ASSUME NEW side \in Sides PROVE ModeOf(side)'
    BY DEF ModeInv
  <2>1. CASE side = "server"
    BY <1>0, <1>b, <1>c, <2>1, ModeOfKept DEF Core, ModeInv
  <2>2. CASE side # "server"
    <3>1. side = "client" /\ ModeOf(side) /\ ~session[side]
      BY <1>0, <2>2, SidesAre DEF Core, ModeInv, SessionInv
    <3>2. Quiet(side) /\ ~flag[First(side)] /\ ~flag[Second(side)] /\ ~sock[side]
      BY <1>0, <3>1 DEF Core, SessionInv, ModeOf
    <3>3. flag[First(side)] \in BOOLEAN /\ flag[Second(side)] \in BOOLEAN /\ sock[side] \in BOOLEAN
      BY SlotsAre DEF Core, TypeOK
    <3>4. ModeIs(side, FALSE)'
      <4>1. sock[side] = FALSE /\ flag[First(side)] = FALSE /\ flag[Second(side)] = FALSE
        BY <3>2, <3>3, Zenon
      <4>2. asked[side] = BOOLEAN \/ asked[side] = {FALSE}
        BY <3>1, <4>1, Zenon DEF ModeOf, ModeIs
      <4>3. \A p \in Processes : setter[<<side, p>>].at = "no"
        BY <3>2 DEF Quiet
      <4> QED  BY <1>c, <4>1, <4>2, <4>3, Zenon DEF ModeIs
    <3>5. session'[side] /\ pc'[side] = "done"
      BY <1>0, <1>b, <3>1
    <3>6. pc'[side] # "synchronize"
      BY <3>5
    <3> QED  BY <1>c, <2>2, <3>1, <3>4, <3>5, <3>6, Zenon DEF ModeOf
  <2> QED  BY <2>1, <2>2
<1>5. AbortsOnlyTorn'
  BY <1>0, TornKept
<1> QED  BY <1>0, <1>1, <1>2, <1>3, <1>4, <1>5, StaticKept DEF Core, AgreeInv

LEMMA SynchronizeWithClientKeeps ==
  ASSUME Core, AbortsOnlyTorn, _synchronize_with_client PROVE Core' /\ AbortsOnlyTorn'
<1>0. /\ pc["server"] = "synchronize" /\ wire["client"] # <<>>
      /\ UNCHANGED <<static, buffer, sent, received, detour, flag, setter, overlapped, asked, aborted>>
      /\ pc'["server"] = "done" /\ pc'["client"] = pc["client"]
      /\ pc' \in [Sides -> {"start", "read", "synchronize", "done", "failed"}]
  BY GotoIs, SidesAre DEF _synchronize_with_client, SynchronizeRead, Core
<1>a. /\ wire'["client"] = Rest(wire["client"]) /\ wire'["server"] = wire["server"]
      /\ wire' \in [Sides -> Seq(Tokens \cup Range(Payload))]
  <2>1. wire' = [wire EXCEPT !["client"] = Rest(wire["client"])]
    BY DEF _synchronize_with_client, SynchronizeRead, Rest
  <2>2. Rest(wire["client"]) \in Seq(Tokens \cup Range(Payload))
    BY <1>0, SidesAre, RestTyped DEF Core, TypeOK
  <2> QED  BY <2>1, <2>2, SidesAre DEF Core, TypeOK
<1>b. session'["server"] /\ session'["client"] = session["client"] /\ session' \in [Sides -> BOOLEAN]
  BY SidesAre, Zenon DEF _synchronize_with_client, Core, TypeOK
<1>c. sock'["server"] = FALSE /\ sock'["client"] = sock["client"] /\ sock' \in [Sides -> BOOLEAN]
  BY SidesAre, Zenon DEF _synchronize_with_client, unset_socket_non_blocking,
     Core, TypeOK
<1>1. TypeOK'
  BY <1>0, <1>a, <1>b, <1>c DEF Core, TypeOK
<1>2. ASSUME Agree
      PROVE  PlaceInv' /\ (\A s \in Sides : SocketOf(s)') /\ StreamInOrder'
  <2>1. PlaceInv /\ (\A s \in Sides : SocketOf(s)) /\ StreamInOrder
    BY <1>2 DEF Core, AgreeInv
  <2>2. Moves' <=> Moves
    BY <1>0, StaticKept
  <2>3. Moves /\ pc["client"] \in {"read", "synchronize", "done"}
    BY <1>0, <2>1, SidesAre DEF PlaceInv
  <2>4. pc["client"] = "done" /\ Token("client") = <<"!">>
    <3>1. wire["client"] = Token("client") \o Data("client")
      BY <2>1, SidesAre DEF SocketOf
    <3>2. CASE pc["client"] # "done"
      <4>1. Token("client") = <<>> /\ Data("client") = <<>>
        BY <2>1, <3>2, SidesAre DEF Token, SocketOf
      <4> QED  BY <1>0, <3>1, <4>1
    <3>3. CASE pc["client"] = "done"
      BY <1>0, <2>3, <3>3 DEF Token
    <3> QED  BY <3>2, <3>3
  <2>5. PlaceInv'
    BY <1>0, <1>b, <2>1, <2>2, <2>3, <2>4, SidesAre DEF PlaceInv
  <2>6. Token("client")' = <<>> /\ Token("server")' = <<>> /\ Token("server") = <<>>
    BY <1>0, <2>4 DEF Token
  <2>7. SocketOf("server")'
    BY <1>0, <1>a, <2>1, <2>6, SidesAre, SocketKept
  <2>8. /\ wire'["client"] = Data("client") /\ Data("client") \in Seq(Range(Payload))
        /\ Data("client")' = Data("client")
    <3>1. /\ wire["client"] = <<"!">> \o Data("client") /\ Data("client") \in Seq(Range(Payload))
          /\ "!" \in Tokens
      BY <2>1, <2>4, SidesAre DEF SocketOf, Tokens
    <3>2. wire'["client"] = Data("client")
      BY <1>a, <3>1, DataBehindToken DEF Rest
    <3>3. Data("client")' = Data("client")
      BY <3>1, <3>2, DataOfData DEF Data
    <3> QED  BY <3>1, <3>2, <3>3
  <2>9. SocketOf("client")'
    <3>1. SocketOf("client")
      BY <2>1, SidesAre
    <3>2. wire'["client"] = Token("client")' \o Data("client")'
      BY <2>6, <2>8, ConcatEmptySeq
    <3> QED  BY <1>0, <2>2, <2>3, <2>8, <3>1, <3>2 DEF SocketOf
  <2>10. \A s \in Sides : Data(s)' = Data(s)
    <3>1. Data("server")' = Data("server")
      BY <1>a DEF Data
    <3> QED  BY <2>8, <3>1, SidesAre
  <2> QED  BY <1>0, <2>1, <2>5, <2>7, <2>9, <2>10, OrderKept, SidesAre
<1>3. SessionInv'
  BY <1>0, <1>b, SidesAre DEF Core, SessionInv, Quiet
<1>4. ModeInv'
  <2> SUFFICES ASSUME NEW side \in Sides PROVE ModeOf(side)'
    BY DEF ModeInv
  <2>1. CASE side = "client"
    BY <1>0, <1>b, <1>c, <2>1, ModeOfKept DEF Core, ModeInv
  <2>2. CASE side # "client"
    <3>1. side = "server" /\ ModeOf(side) /\ ~session[side]
      BY <1>0, <2>2, SidesAre DEF Core, ModeInv, SessionInv
    <3>2. Quiet(side) /\ ~flag[First(side)] /\ ~flag[Second(side)] /\ asked[side] = {FALSE}
      BY <1>0, <3>1 DEF Core, SessionInv, ModeOf
    <3>3. flag[First(side)] \in BOOLEAN /\ flag[Second(side)] \in BOOLEAN
      BY SlotsAre DEF Core, TypeOK
    <3>4. flag'[First(side)] = FALSE /\ flag'[Second(side)] = FALSE
      BY <1>0, <3>2, <3>3, Zenon
    <3>5. \A p \in Processes : setter'[<<side, p>>].at = "no"
      BY <1>0, <3>2 DEF Quiet
    <3>6. asked'[side] = {FALSE} /\ sock'[side] = FALSE
      BY <1>0, <1>c, <3>1, <3>2, Zenon
    <3>7. ModeIs(side, FALSE)'
      BY <3>4, <3>5, <3>6, Zenon DEF ModeIs
    <3>8. session'[side] /\ pc'[side] = "done" /\ side # "client"
      BY <1>0, <1>b, <3>1
    <3> QED  BY <3>7, <3>8, Zenon DEF ModeOf
  <2> QED  BY <2>1, <2>2
<1>5. AbortsOnlyTorn'
  BY <1>0 DEF AbortsOnlyTorn, Quiet
<1> QED  BY <1>0, <1>1, <1>2, <1>3, <1>4, <1>5, StaticKept DEF Core, AgreeInv

LEMMA AcceptKeeps == ASSUME Core, AbortsOnlyTorn, accept PROVE Core' /\ AbortsOnlyTorn'
<1>0. /\ pc["server"] = "start" /\ pc["client"] # "start"
      /\ UNCHANGED <<static, session, buffer, sent, received, detour, sock, setter, overlapped, asked, aborted>>
      /\ pc'["server"] = IF check_tssx_usage("server") THEN "synchronize" ELSE "done"
      /\ pc'["client"] = pc["client"]
      /\ pc' \in [Sides -> {"start", "read", "synchronize", "done", "failed"}]
  BY GotoIs, SidesAre DEF accept, Core
<1>a. /\ wire["server"] = <<>> /\ wire'["client"] = wire["client"]
      /\ wire'["server"] = IF check_tssx_usage("server") THEN <<"id">> ELSE <<>>
      /\ wire' \in [Sides -> Seq(Tokens \cup Range(Payload))]
  <2>1. wire["server"] = <<>>
    BY <1>0 DEF Core, SessionInv
  <2>2. \/ check_tssx_usage("server") /\ wire' = [wire EXCEPT !["server"] = Put(wire["server"], "id")]
        \/ ~check_tssx_usage("server") /\ wire' = wire
    BY DEF accept, Put
  <2>3. Put(wire["server"], "id") = <<"id">>
    BY <2>1 DEF Put
  <2>4. <<"id">> \in Seq(Tokens \cup Range(Payload))
    BY DEF Tokens
  <2>5. wire \in [Sides -> Seq(Tokens \cup Range(Payload))]
    BY DEF Core, TypeOK
  <2>6. CASE check_tssx_usage("server")
    <3> DEFINE x == <<"id">>
    <3>1. wire' = [wire EXCEPT !["server"] = x] /\ x \in Seq(Tokens \cup Range(Payload))
      BY <2>2, <2>3, <2>4, <2>6, Zenon
    <3>2. wire'["client"] = wire["client"] /\ wire'["server"] = x
          /\ wire' \in [Sides -> Seq(Tokens \cup Range(Payload))]
      <4> HIDE DEF x
      <4> QED  BY <2>5, <3>1, SidesAre
    <3> QED  BY <2>1, <2>6, <3>2
  <2>7. CASE ~check_tssx_usage("server")
    BY <2>1, <2>2, <2>5, <2>7
  <2> QED  BY <2>6, <2>7
<1>b. ~session["client"] /\ ~session["server"] /\ ~sock["server"]
  BY <1>0, SidesAre DEF Core, SessionInv, ModeInv, ModeOf
<1>c. flag' \in [Slots -> BOOLEAN] /\ \A side \in Sides : ~flag'[First(side)] /\ ~flag'[Second(side)]
  <2>1. CASE check_tssx_usage("server")
    <3>1. flag' = [slot \in Slots |->
                      slot \in {<<"server_buffer", "WRITE">>, <<"client_buffer", "READ">>}
                         /\ sock["server"]]
      BY <2>1 DEF accept
    <3>2. flag' = [slot \in Slots |-> FALSE]
      BY <1>b, <3>1, Zenon
    <3> QED  BY <3>2, SlotsAre, Zenon
  <2>2. CASE ~check_tssx_usage("server")
    <3>1. flag' = flag
      BY <2>2 DEF accept
    <3> QED  BY <1>b, <3>1, SidesAre DEF Core, TypeOK, SessionInv
  <2> QED  BY <2>1, <2>2
<1>1. TypeOK'
  BY <1>0, <1>a, <1>c DEF Core, TypeOK
<1>2. ASSUME Agree
      PROVE  PlaceInv' /\ (\A s \in Sides : SocketOf(s)') /\ StreamInOrder'
  <2>1. PlaceInv /\ (\A s \in Sides : SocketOf(s)) /\ StreamInOrder
    BY <1>2 DEF Core, AgreeInv
  <2>2. (Moves' <=> Moves) /\ (check_tssx_usage("server") <=> Moves)
    BY <1>0, StaticKept DEF Moves
  <2>3. IF Moves THEN pc["client"] = "read" ELSE pc["client"] = "done"
    BY <1>0, <2>1, SidesAre DEF PlaceInv
  <2>4. PlaceInv'
    BY <1>0, <2>1, <2>2, <2>3, SidesAre DEF PlaceInv
  <2>5. /\ Token("client") = <<>> /\ Token("client")' = <<>>
        /\ Token("server")' = IF Moves THEN <<"id">> ELSE <<>>
    BY <1>0, <2>2, <2>3 DEF Token
  <2>6. SocketOf("client")'
    BY <1>0, <1>a, <2>1, <2>5, SidesAre, SocketKept
  <2>7. Data("server") = <<>> /\ <<>> \in Seq(Range(Payload))
    BY <1>0, <2>1, SidesAre DEF SocketOf
  <2>8. wire'["server"] = Token("server")' \o <<>>
    BY <1>a, <2>2, <2>5
  <2>9. Data("server")' = <<>>
    <3>1. CASE Moves
      <4>1. wire'["server"] = <<"id">> \o <<>> /\ "id" \in Tokens
        BY <2>5, <2>8, <3>1 DEF Tokens
      <4> QED  BY <2>7, <4>1, DataBehindToken DEF Data
    <3>2. CASE ~Moves
      BY <1>a, <2>2, <2>7, <3>2, DataOfData DEF Data
    <3> QED  BY <3>1, <3>2
  <2>10. SocketOf("server")'
    <3>1. SocketOf("server")
      BY <2>1, SidesAre
    <3>2. wire'["server"] = Token("server")' \o Data("server")'
      BY <2>8, <2>9
    <3>3. /\ received'["server"] \in Seq(Range(Payload)) /\ buffer'["server"] = <<>>
          /\ received'["server"] = <<>> /\ sent'["server"] = 0
      BY <1>0, <3>1 DEF SocketOf
    <3> QED  BY <2>7, <2>9, <3>2, <3>3 DEF SocketOf
  <2>11. \A s \in Sides : Data(s)' = Data(s)
    <3>1. Data("client")' = Data("client")
      BY <1>a DEF Data
    <3> QED  BY <2>7, <2>9, <3>1, SidesAre
  <2> QED  BY <1>0, <2>1, <2>4, <2>6, <2>10, <2>11, OrderKept, SidesAre
<1>3. SessionInv'
  BY <1>0, <1>b, <1>c, SidesAre DEF Core, SessionInv, Quiet
<1>4. ModeInv'
  <2> SUFFICES ASSUME NEW side \in Sides PROVE ModeOf(side)'
    BY DEF ModeInv
  <2>1. ModeOf(side) /\ ~session[side] /\ Quiet(side)
    BY <1>b, SidesAre DEF Core, ModeInv, SessionInv
  <2>2. /\ session' = session /\ asked' = asked /\ sock' = sock /\ setter' = setter
        /\ overlapped' = overlapped /\ \A p \in Processes : setter[<<side, p>>].at = "no"
    BY <1>0, <2>1 DEF Quiet
  <2>3. \A m \in BOOLEAN : ModeIs(side, m) => ModeIs(side, m)'
    BY <2>1, <2>2, Zenon DEF ModeIs
  <2>4. /\ side = "server" => pc[side] \notin {"synchronize", "failed"} /\ pc[side] # "done"
        /\ side # "server" => pc'[side] = pc[side]
    BY <1>0, SidesAre
  <2>5. side = "server" => asked[side] = {sock[side]} /\ asked[side] = {FALSE} /\ ~sock[side] /\ side # "client"
    BY <2>1, <2>4 DEF ModeOf
  <2> QED  BY <2>1, <2>2, <2>3, <2>4, <2>5, Zenon DEF ModeOf
<1>5. AbortsOnlyTorn'
  BY <1>0 DEF AbortsOnlyTorn, Quiet
<1> QED  BY <1>0, <1>1, <1>2, <1>3, <1>4, <1>5, StaticKept DEF Core, AgreeInv

LEMMA ReadSegmentIdKeeps ==
  ASSUME Core, AbortsOnlyTorn, _read_segment_id_from_server PROVE Core' /\ AbortsOnlyTorn'
<1>a. sock'["client"] = FALSE /\ sock'["server"] = sock["server"] /\ sock' \in [Sides -> BOOLEAN]
  BY SidesAre, Zenon DEF _read_segment_id_from_server,
     unset_socket_non_blocking, Core, TypeOK
<1>b. /\ wire["server"] # <<>> /\ wire' = [wire EXCEPT !["server"] = Rest(wire["server"])]
      /\ Goto("client", IF Head(wire["server"]) = "id" THEN "synchronize" ELSE "failed")
  BY <1>a DEF _read_segment_id_from_server, Rest
<1>0. /\ pc["client"] = "read"
      /\ UNCHANGED <<static, session, buffer, sent, received, detour, flag, setter, overlapped, aborted>>
      /\ pc'["client"] = IF Head(wire["server"]) = "id" THEN "synchronize" ELSE "failed"
      /\ pc'["server"] = pc["server"]
      /\ pc' \in [Sides -> {"start", "read", "synchronize", "done", "failed"}]
  BY <1>b, GotoIs, SidesAre DEF _read_segment_id_from_server, Core
<1>c. /\ wire'["server"] = Rest(wire["server"]) /\ wire'["client"] = wire["client"]
      /\ wire' \in [Sides -> Seq(Tokens \cup Range(Payload))]
  <2>1. Rest(wire["server"]) \in Seq(Tokens \cup Range(Payload))
    BY <1>b, SidesAre, RestTyped DEF Core, TypeOK
  <2> QED  BY <1>b, <2>1, SidesAre DEF Core, TypeOK
<1>d. /\ asked'["client"] = asked["client"] \cup {FALSE} /\ asked'["server"] = asked["server"]
      /\ asked' \in [Sides -> SUBSET BOOLEAN]
  BY SidesAre, Zenon DEF _read_segment_id_from_server, Core, TypeOK
<1>1. TypeOK'
  BY <1>0, <1>a, <1>c, <1>d DEF Core, TypeOK
<1>2. ASSUME Agree
      PROVE  PlaceInv' /\ (\A s \in Sides : SocketOf(s)') /\ StreamInOrder'
  <2>1. PlaceInv /\ (\A s \in Sides : SocketOf(s)) /\ StreamInOrder
    BY <1>2 DEF Core, AgreeInv
  <2>2. Moves' <=> Moves
    BY <1>0, StaticKept
  <2>3. Moves /\ pc["server"] = "synchronize"
    BY <1>0, <1>b, <2>1, SidesAre DEF PlaceInv, Core, SessionInv
  <2>4. Data("server") = <<>> /\ <<>> \in Seq(Range(Payload)) /\ "id" \in Tokens
    BY <2>1, <2>3, SidesAre DEF SocketOf, Tokens
  <2>5. wire["server"] = <<"id">> \o <<>>
    BY <1>0, <2>1, <2>3, <2>4, SidesAre DEF SocketOf, Token
  <2>6. Head(wire["server"]) = "id" /\ wire'["server"] = <<>>
    BY <1>c, <2>4, <2>5, DataBehindToken DEF Rest
  <2>7. pc'["client"] = "synchronize"
    BY <1>0, <2>6
  <2>8. PlaceInv'
    BY <1>0, <2>1, <2>2, <2>3, <2>7, SidesAre DEF PlaceInv
  <2>9. Token("client") = <<>> /\ Token("client")' = <<>> /\ Token("server")' = <<>>
    BY <1>0, <2>7 DEF Token
  <2>10. SocketOf("client")'
    BY <1>0, <1>c, <2>1, <2>9, SidesAre, SocketKept
  <2>11. Data("server")' = <<>>
    BY <2>4, <2>6, DataOfData DEF Data
  <2>12. SocketOf("server")'
    <3>1. SocketOf("server")
      BY <2>1, SidesAre
    <3>2. wire'["server"] = Token("server")' \o Data("server")'
      BY <2>6, <2>9, <2>11
    <3>3. /\ received'["server"] \in Seq(Range(Payload)) /\ buffer'["server"] = <<>>
          /\ received'["server"] = <<>> /\ sent'["server"] = 0
      BY <1>0, <2>3, <3>1 DEF SocketOf
    <3> QED  BY <2>4, <2>11, <3>2, <3>3 DEF SocketOf
  <2>13. \A s \in Sides : Data(s)' = Data(s)
    <3>1. Data("client")' = Data("client")
      BY <1>c DEF Data
    <3> QED  BY <2>4, <2>11, <3>1, SidesAre
  <2> QED  BY <1>0, <2>1, <2>8, <2>10, <2>12, <2>13, OrderKept, SidesAre
<1>3. SessionInv'
  <2>1. pc["server"] # "start" /\ ~session["client"]
    BY <1>0, <1>b, SidesAre DEF Core, SessionInv
  <2> QED  BY <1>0, <2>1, SidesAre DEF Core, SessionInv, Quiet
<1>4. ModeInv'
  <2> SUFFICES ASSUME NEW side \in Sides PROVE ModeOf(side)'
    BY DEF ModeInv
  <2>1. CASE side = "server"
    BY <1>0, <1>a, <1>d, <2>1, ModeOfKept DEF Core, ModeInv
  <2>2. CASE side # "server"
    <3>1. side = "client" /\ ModeOf(side) /\ ~session[side] /\ Quiet(side)
      BY <1>0, <2>2, SidesAre DEF Core, ModeInv, SessionInv
    <3>2. asked[side] = {sock[side]}
      BY <1>0, <3>1 DEF ModeOf
    <3>3. asked'[side] = {sock[side], FALSE}
      BY <1>d, <3>1, <3>2
    <3>4. ModeIs(side, FALSE)'
      <4>1. asked'[side] = BOOLEAN \/ asked'[side] = {FALSE}
        <5>1. sock[side] = TRUE \/ sock[side] = FALSE
          BY Zenon DEF Core, TypeOK
        <5> QED  BY <3>3, <5>1, Zenon
      <4>2. sock'[side] = FALSE
        BY <1>a, <3>1, Zenon
      <4>3. ~session'[side] /\ \A p \in Processes : setter'[<<side, p>>].at = "no"
        BY <1>0, <3>1 DEF Quiet
      <4> QED  BY <4>1, <4>2, <4>3, Zenon DEF ModeIs
    <3>5. pc'[side] \in {"synchronize", "failed"} /\ ~sock'[side]
      BY <1>0, <1>a, <3>1
    <3> QED  BY <2>2, <3>4, <3>5, Zenon DEF ModeOf
  <2> QED  BY <2>1, <2>2
<1>5. AbortsOnlyTorn'
  BY <1>0 DEF AbortsOnlyTorn, Quiet
<1> QED  BY <1>0, <1>1, <1>2, <1>3, <1>4, <1>5, StaticKept DEF Core, AgreeInv

(***************************************************************************)
(* The theorems.                                                           *)
(***************************************************************************)

LEMMA StutterKeeps ==
  ASSUME Core, AbortsOnlyTorn, UNCHANGED vars PROVE Core' /\ AbortsOnlyTorn'
<1>1. UNCHANGED <<static, pc, session, stream, mode>>
  BY DEF vars
<1>2. TypeOK'
  BY <1>1 DEF Core, TypeOK, stream, mode
<1>3. SessionInv'
  BY <1>1, SessionKept DEF Core, stream, mode
<1> QED  BY <1>1, <1>2, <1>3, StreamKept, ModeKept, TornKept DEF Core

LEMMA NextKeeps == Core /\ AbortsOnlyTorn /\ [Next]_vars => Core' /\ AbortsOnlyTorn'
<1> SUFFICES ASSUME Core, AbortsOnlyTorn, [Next]_vars PROVE Core' /\ AbortsOnlyTorn'
  OBVIOUS
<1>1. CASE Handshake
  BY <1>1, ConnectKeeps, AcceptKeeps, ReadSegmentIdKeeps,
     SynchronizeWithServerKeeps,
     SynchronizeWithClientKeeps DEF Handshake
<1>2. CASE ClientPrepares
  BY <1>2, ClientPreparesKeeps
<1>3. ASSUME NEW side \in Sides, NEW r \in Requests, Send(side, r) \/ Receive(side, r)
      PROVE  Core' /\ AbortsOnlyTorn'
  BY <1>3, SendKeeps, ReceiveKeeps
<1>4. ASSUME NEW side \in Sides, NEW p \in Processes,
             \/ \E command \in {"F_SETFL", "F_SETFD"}, m \in BOOLEAN :
                   (command = "F_SETFD" => m = FALSE) /\ fcntl_set(side, p, command, m)
             \/ SetFirst(side, p) \/ SetSecond(side, p) \/ fcntl_get(side, p)
      PROVE  Core' /\ AbortsOnlyTorn'
  BY <1>4, FcntlSetKeeps, SetFirstKeeps, SetSecondKeeps, FcntlGetKeeps
<1>5. CASE UNCHANGED vars
  BY <1>5, StutterKeeps
<1> QED  BY <1>1, <1>2, <1>3, <1>4, <1>5 DEF Next, Application

(* The invariant holds in every behaviour: the handshake's bytes are where *)
(* they are read, and each side's mode is the one it asked for.            *)
THEOREM SetupInvariant == Spec => []IInv
<1>1. Init => Core /\ AbortsOnlyTorn
  BY InitInv, CoreSuffices
<1>2. Spec => [](Core /\ AbortsOnlyTorn)
  BY <1>1, NextKeeps, PTL DEF Spec
<1> QED  BY <1>2, CoreSuffices, PTL

(* With one USE_TSSX both sides move to shared memory or neither does, and *)
(* no connect fails; the three copies of a side's mode agree.              *)
THEOREM SetupSidesAgree == Spec => [](SidesAgree /\ FlagsInSync)
<1>1. IInv => SidesAgree /\ FlagsInSync
  BY DEF IInv, SidesInv
<1> QED  BY <1>1, SetupInvariant, PTL

(* The application reads none of the handshake's bytes, and the handshake  *)
(* none of the application's.                                              *)
THEOREM SetupHandshakeIsPrivate == Spec => []HandshakeIsPrivate
<1>1. IInv => HandshakeIsPrivate
  BY DEF IInv
<1> QED  BY <1>1, SetupInvariant, PTL

(* What a plain stream carries arrives in order, by buffer or by socket.   *)
THEOREM SetupStreamInOrder == Spec => []StreamInOrder
<1>1. IInv => StreamInOrder
  BY DEF IInv, Core, AgreeInv, StreamInOrder
<1> QED  BY <1>1, SetupInvariant, PTL

(* The assertion of is_non_blocking stops a process only beside an fcntl   *)
(* of another process of its own side, or after two of these at once.      *)
THEOREM SetupAbortsOnlyTorn == Spec => []AbortsOnlyTorn
<1>1. IInv => AbortsOnlyTorn
  BY DEF IInv
<1> QED  BY <1>1, SetupInvariant, PTL
=============================================================================
