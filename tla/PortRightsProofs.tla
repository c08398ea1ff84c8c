-------------------------- MODULE PortRightsProofs --------------------------
(***************************************************************************)
(* The counts, names, requests and notifications of a port are right in    *)
(* every reachable state, for any finite sets of spaces and names.         *)
(*                                                                         *)
(* The properties are inductive together.  All but two kinds of steps put  *)
(* one entry, e in place of f at x, and a new port, p: Good(x, f, e, p)    *)
(* says, of these alone, what keeps the invariant (PutsInv), so that each  *)
(* action owes no more than arithmetic on records.                         *)
(***************************************************************************)
EXTENDS PortRights, FiniteSetTheorems, TLAPS

Places == Spaces \X Names

EntryType == [type : Types, urefs : Nat, req : Slots \cup {None}]

Table == [Slots -> Names \cup {None}]

PortType ==
  [active : BOOLEAN, receiver : Places \cup {None}, refs : Int,
   mscount : Nat, srights : Int, sorights : Int,
   nsrequest : Nat \cup {None}, pdrequest : BOOLEAN,
   requests : Table, saved : Table, dying : BOOLEAN,
   sends : Nat, sonces : Nat, limbo : BOOLEAN,
   told : Nat \cup {None}, left : Nat, forced : BOOLEAN]

TypeOK ==
  /\ port \in PortType
  /\ entry \in [Places -> EntryType]
  /\ alive \subseteq Spaces

\* UrefsInRange of one entry, and no request where none is registered.
EntryOK(e) ==
  /\ HasSend(e) => e.urefs >= 1 /\ e.urefs < UrefsMax
  /\ e.type = "sonce" => e.urefs = 1
  /\ e.type = "dead" => e.urefs >= 1 /\ e.urefs <= UrefsMax /\ e.req = None
  /\ e.type \in {"none", "receive"} => e.urefs = 0
  /\ e.type = "none" => e.req = None

\* A port is in limbo alive and dies dead.
StateOK(p) == (p.limbo => p.active) /\ (p.dying => ~p.active)

\* NoSendersTrue and NoSendersNotLost; no count told is of the future.
NoSendersOK(p) ==
  p.active =>
    /\ p.told # None => p.told <= p.mscount
    /\ p.told # None /\ p.told = p.mscount => p.srights = 0
    /\ p.nsrequest # None /\ ~p.forced /\ p.srights = 0
         => p.nsrequest > p.mscount

Receivers == {x \in Places : HasReceive(entry[x])}
Names1(e) == HasSend(e) \/ HasReceive(e)

OneName ==
  \A x, y \in Places :
    x[1] = y[1] /\ Names1(entry[x]) /\ Names1(entry[y]) => x = y

MatchOK ==
  port.active /\ port.left = 0 =>
    /\ \A x \in Places :
         entry[x].req # None => port.requests[entry[x].req] = x[2]
    /\ \A i \in Slots : port.requests[i] # None =>
         \E x \in Places : /\ entry[x].req = i
                           /\ \A y \in Places : entry[y].req = i => y = x

ReceiverOK ==
  Receivers = IF port.active /\ ~port.limbo THEN {port.receiver} ELSE {}

Inv ==
  /\ TypeOK
  /\ \A x \in Places : EntryOK(entry[x])
  /\ StateOK(port) /\ NoSendersOK(port)
  /\ RightsCounted /\ RefsCounted
  /\ ReceiverOK /\ OneName /\ MatchOK

(***************************************************************************)
(* What a step that puts e in place of f owes                              *)
(***************************************************************************)
One(P) == IF P THEN 1 ELSE 0
IsRef(e) == e.type \in {"send", "both", "receive", "sonce"}
Hanging(p) == p.sends + p.sonces + One(p.limbo) + One(p.dying)

RefsKept(f, e, p) ==
  p.refs - Hanging(p) - One(IsRef(e))
    = port.refs - Hanging(port) - One(IsRef(f))

RightsKept(f, e, p) ==
  /\ p.srights - p.sends - p.left - One(HasSend(e))
       = port.srights - port.sends - port.left - One(HasSend(f))
  /\ p.sorights - p.sonces - One(e.type = "sonce")
       = port.sorights - port.sonces - One(f.type = "sonce")

\* The receive right stays where it is, moves within x, or between x and a
\* message.
ReceiverKept(x, f, e, p) ==
  /\ HasReceive(e) => /\ p.active /\ ~p.limbo /\ p.receiver = x
                      /\ HasReceive(f) \/ port.limbo
  /\ ~HasReceive(e) /\ p.active /\ ~p.limbo =>
       /\ port.active /\ ~port.limbo /\ ~HasReceive(f)
       /\ p.receiver = port.receiver
  /\ ~HasReceive(e) /\ ~(p.active /\ ~p.limbo) =>
       HasReceive(f) \/ ~port.active \/ port.limbo

NameKept(x, f, e) == Names1(e) => Names1(f) \/ Known(x[1]) = {}

\* The request of the entry is kept, cancelled or registered.
RequestKept(x, f, e, p) ==
  \/ e.req = f.req /\ p.requests = port.requests
  \/ /\ f.req # None /\ e.req = None
     /\ p.requests = [port.requests EXCEPT ![f.req] = None]
  \/ /\ f.req = None /\ e.req \in Slots /\ port.requests[e.req] = None
     /\ p.requests = [port.requests EXCEPT ![e.req] = x[2]]

Good(x, f, e, p) ==
  /\ p \in PortType /\ e \in EntryType /\ EntryOK(e)
  /\ StateOK(p) /\ NoSendersOK(p)
  /\ p.active => port.active
  /\ RefsKept(f, e, p)
  /\ p.active => RightsKept(f, e, p)
  /\ ReceiverKept(x, f, e, p)
  /\ NameKept(x, f, e)
  /\ p.active /\ p.left = 0 => port.left = 0 /\ RequestKept(x, f, e, p)

-----------------------------------------------------------------------------
LEMMA PlacesFinite == IsFiniteSet(Places)
BY FS_Product, PortRightsAssumption DEF Places

LEMMA HoldingFinite ==
  ASSUME NEW types
  PROVE  IsFiniteSet(Holding(types)) /\ Cardinality(Holding(types)) \in Nat
<1>1. Holding(types) \in SUBSET Places
  BY DEF Holding, Places
<1>2. QED
  BY <1>1, PlacesFinite, FS_Subset, FS_CardinalityType

\* A new entry joins or leaves the holders of its types.
LEMMA HoldingPut ==
  ASSUME NEW types, NEW x \in Places, NEW e, TypeOK,
         entry' = [entry EXCEPT ![x] = e]
  PROVE  Cardinality(Holding(types))'
           = Cardinality(Holding(types))
             + One(e.type \in types) - One(entry[x].type \in types)
<1> DEFINE H == Holding(types)
           N == {y \in Places : entry'[y].type \in types}
<1>1. IsFiniteSet(H) /\ Cardinality(H) \in Nat
  BY HoldingFinite
<1>2. Holding(types)' = N
  BY DEF Holding, Places
<1>3. N = IF e.type \in types THEN H \cup {x} ELSE H \ {x}
  BY DEF Holding, Places, TypeOK
<1>4. x \in H <=> entry[x].type \in types
  BY DEF Holding, Places
<1>5. Cardinality(N) = Cardinality(H) + One(e.type \in types)
                         - One(entry[x].type \in types)
  <2>1. CASE e.type \in types
    <3>1. Cardinality(N) = IF x \in H THEN Cardinality(H) ELSE Cardinality(H) + 1
      BY <1>1, <1>3, <2>1, FS_AddElement
    <3>2. QED  BY <3>1, <1>1, <1>4, <2>1 DEF One
  <2>2. CASE e.type \notin types
    <3>1. Cardinality(N) = IF x \in H THEN Cardinality(H) - 1 ELSE Cardinality(H)
      BY <1>1, <1>3, <2>2, FS_RemoveElement
    <3>2. QED  BY <3>1, <1>1, <1>4, <2>2 DEF One
  <2>3. QED  BY <2>1, <2>2
<1>6. QED
  BY <1>2, <1>5

LEMMA SendsBalance ==
  ASSUME NEW f, NEW e, NEW p \in PortType, port \in PortType,
         RightsKept(f, e, p), NEW c \in Int, port.srights = c + port.sends + port.left
  PROVE  p.srights = c + One(HasSend(e)) - One(HasSend(f)) + p.sends + p.left
<1>1. /\ p.srights \in Int /\ p.sends \in Int /\ p.left \in Int
      /\ port.srights \in Int /\ port.sends \in Int /\ port.left \in Int
  BY DEF PortType
<1>2. p.srights - p.sends - p.left - One(HasSend(e))
        = port.srights - port.sends - port.left - One(HasSend(f))
  BY DEF RightsKept
<1>3. One(HasSend(e)) \in {0, 1} /\ One(HasSend(f)) \in {0, 1}
  BY DEF One
<1>4. QED
  BY <1>1, <1>2, <1>3

LEMMA SoncesBalance ==
  ASSUME NEW f, NEW e, NEW p \in PortType, port \in PortType,
         RightsKept(f, e, p), NEW c \in Int, port.sorights = c + port.sonces
  PROVE  p.sorights = c + One(e.type = "sonce") - One(f.type = "sonce") + p.sonces
<1>1. /\ p.sorights \in Int /\ p.sonces \in Int
      /\ port.sorights \in Int /\ port.sonces \in Int
  BY DEF PortType
<1>2. p.sorights - p.sonces - One(e.type = "sonce")
        = port.sorights - port.sonces - One(f.type = "sonce")
  BY DEF RightsKept
<1>3. One(e.type = "sonce") \in {0, 1} /\ One(f.type = "sonce") \in {0, 1}
  BY DEF One
<1>4. QED
  BY <1>1, <1>2, <1>3

\* e has taken the place of f among the holders, and the port is now p.
Replaced(f, e, p) ==
  /\ port' = p /\ p \in PortType /\ port \in PortType
  /\ e \in EntryType /\ f \in EntryType
  /\ \A types : "none" \notin types =>
       Cardinality(Holding(types))'
         = Cardinality(Holding(types))
           + One(e.type \in types) - One(f.type \in types)

LiveKept(f, e, p) == p.active => port.active /\ RightsKept(f, e, p)

\* The counts stay right.
LEMMA Counted ==
  ASSUME NEW f, NEW e, NEW p, Replaced(f, e, p),
         RefsCounted, RightsCounted, RefsKept(f, e, p), LiveKept(f, e, p)
  PROVE  RefsCounted' /\ RightsCounted'
<1> DEFINE R == {"send", "both", "receive", "sonce"}
           S == {"send", "both"}
           O == {"sonce"}
<1>0. /\ port' = p
      /\ p \in PortType /\ port \in PortType
      /\ e \in EntryType /\ f \in EntryType
  BY DEF Replaced
<1>1. /\ Cardinality(Holding(R)) \in Nat
      /\ Cardinality(Holding(S)) \in Nat
      /\ Cardinality(Holding(O)) \in Nat
  BY HoldingFinite
<1>2. /\ Cardinality(Holding(R))' = Cardinality(Holding(R)) + One(IsRef(e)) - One(IsRef(f))
      /\ Cardinality(Holding(S))' = Cardinality(Holding(S)) + One(HasSend(e)) - One(HasSend(f))
      /\ Cardinality(Holding(O))' = Cardinality(Holding(O)) + One(e.type = "sonce")
                                      - One(f.type = "sonce")
  <2>1. /\ IsRef(e) <=> e.type \in R
        /\ IsRef(f) <=> f.type \in R
        /\ HasSend(e) <=> e.type \in S
        /\ HasSend(f) <=> f.type \in S
        /\ e.type = "sonce" <=> e.type \in O
        /\ f.type = "sonce" <=> f.type \in O
    BY DEF IsRef, HasSend
  <2>2. /\ Cardinality(Holding(R))'
             = Cardinality(Holding(R)) + One(e.type \in R) - One(f.type \in R)
        /\ Cardinality(Holding(S))'
             = Cardinality(Holding(S)) + One(e.type \in S) - One(f.type \in S)
        /\ Cardinality(Holding(O))'
             = Cardinality(Holding(O)) + One(e.type \in O) - One(f.type \in O)
    <3>1. "none" \notin R /\ "none" \notin S /\ "none" \notin O
      OBVIOUS
    <3> HIDE DEF R, S, O
    <3>2. QED  BY <3>1 DEF Replaced
  <2>3. QED
    BY <2>1, <2>2 DEF One
<1>3. /\ One(IsRef(e)) \in Int /\ One(IsRef(f)) \in Int
      /\ One(HasSend(e)) \in Int /\ One(HasSend(f)) \in Int
      /\ One(e.type = "sonce") \in Int /\ One(f.type = "sonce") \in Int
  BY DEF One
<1>4. RefsCounted'
  <2>1. port.refs = Cardinality(Holding(R)) + Hanging(port)
    BY <1>0, <1>1 DEF RefsCounted, Hanging, One, PortType
  <2>2. p.refs - Hanging(p) - One(IsRef(e))
          = port.refs - Hanging(port) - One(IsRef(f))
    BY DEF RefsKept
  <2>3. /\ Hanging(p) \in Int /\ Hanging(port) \in Int
        /\ p.refs \in Int /\ port.refs \in Int
    BY <1>0 DEF Hanging, One, PortType
  <2>4. p.refs = Cardinality(Holding(R))' + Hanging(p)
    BY <1>1, <1>2, <1>3, <2>1, <2>2, <2>3
  <2>5. Cardinality(Holding(R))' \in Int
    BY <1>1, <1>2, <1>3
  <2>6. QED
    BY <1>0, <2>4, <2>5 DEF RefsCounted, Hanging, One, PortType
<1>5. RightsCounted'
  <2>1. CASE ~p.active
    BY <1>0, <2>1 DEF RightsCounted
  <2>2. CASE p.active
    <3>1. port.active /\ RightsKept(f, e, p)
      BY <2>2 DEF LiveKept
    <3>2. /\ port.srights = Cardinality(Holding(S)) + port.sends + port.left
          /\ port.sorights = Cardinality(Holding(O)) + port.sonces
          /\ Cardinality(Holding(S)) \in Int /\ Cardinality(Holding(O)) \in Int
      BY <1>1, <3>1 DEF RightsCounted
    <3>3. p.srights = Cardinality(Holding(S)) + One(HasSend(e))
                        - One(HasSend(f)) + p.sends + p.left
      BY <1>0, <3>1, <3>2, SendsBalance
    <3>4. p.sorights = Cardinality(Holding(O)) + One(e.type = "sonce")
                         - One(f.type = "sonce") + p.sonces
      BY <1>0, <3>1, <3>2, SoncesBalance
    <3>5. p.srights = Cardinality(Holding(S))' + p.sends + p.left
      BY <1>2, <3>3
    <3>6. p.sorights = Cardinality(Holding(O))' + p.sonces
      BY <1>2, <3>4
    <3>7. QED
      BY <1>0, <3>5, <3>6 DEF RightsCounted
  <2>3. QED  BY <2>1, <2>2
<1>6. QED  BY <1>4, <1>5

LEMMA PutsCounts ==
  ASSUME NEW x \in Places, NEW e, NEW p, Puts(x, e, p), TypeOK,
         RefsCounted, RightsCounted, Good(x, entry[x], e, p)
  PROVE  RefsCounted' /\ RightsCounted'
<1>1. /\ port' = p /\ entry' = [entry EXCEPT ![x] = e]
      /\ p \in PortType /\ port \in PortType
      /\ e \in EntryType /\ entry[x] \in EntryType
  BY DEF Puts, Good, TypeOK
<1>2. Replaced(entry[x], e, p)
  BY <1>1, HoldingPut DEF Replaced
<1>3. RefsKept(entry[x], e, p) /\ LiveKept(entry[x], e, p)
  BY DEF Good, LiveKept
<1>4. QED
  BY <1>1, <1>2, <1>3, Counted

\* The receive right, the names of a space and the requests.
LEMMA PutsReceiver ==
  ASSUME NEW x \in Places, NEW e, NEW p, Puts(x, e, p), TypeOK, ReceiverOK,
         Good(x, entry[x], e, p)
  PROVE  ReceiverOK'
<1>1. /\ port' = p /\ entry' = [entry EXCEPT ![x] = e]
      /\ ReceiverKept(x, entry[x], e, p) /\ p \in PortType
  BY DEF Puts, Good
<1>2. Receivers' = IF HasReceive(e) THEN Receivers \cup {x} ELSE Receivers \ {x}
  BY <1>1 DEF Receivers, TypeOK, HasReceive
<1>3. x \in Receivers <=> HasReceive(entry[x])
  BY DEF Receivers
<1>4. CASE HasReceive(e)
  BY <1>1, <1>2, <1>3, <1>4 DEF ReceiverOK, ReceiverKept
<1>5. CASE ~HasReceive(e)
  BY <1>1, <1>2, <1>3, <1>5 DEF ReceiverOK, ReceiverKept
<1>6. QED  BY <1>4, <1>5

LEMMA PutsName ==
  ASSUME NEW x \in Places, NEW e, NEW p, Puts(x, e, p), TypeOK, OneName,
         Good(x, entry[x], e, p)
  PROVE  OneName'
<1>1. entry' = [entry EXCEPT ![x] = e] /\ NameKept(x, entry[x], e)
  BY DEF Puts, Good
<1>2. \A y \in Places : entry'[y] = IF y = x THEN e ELSE entry[y]
  BY <1>1 DEF TypeOK
<1>3. ASSUME NEW y \in Places, y[1] = x[1], Names1(entry[y])
      PROVE  Known(x[1]) # {}
  <2>1. y = <<x[1], y[2]>> /\ y[2] \in Names
    BY <1>3 DEF Places
  <2>2. QED
    BY <1>3, <2>1 DEF Known, Names1
<1>4. ASSUME NEW y \in Places, NEW z \in Places, y[1] = z[1],
             Names1(entry'[y]), Names1(entry'[z])
      PROVE  y = z
  BY <1>1, <1>2, <1>3, <1>4 DEF OneName, NameKept
<1>5. QED
  BY <1>4 DEF OneName, Names1, HasSend, HasReceive

LEMMA PutsMatch ==
  ASSUME NEW x \in Places, NEW e, NEW p, Puts(x, e, p), TypeOK, MatchOK,
         Good(x, entry[x], e, p)
  PROVE  MatchOK'
<1>1. /\ port' = p /\ entry' = [entry EXCEPT ![x] = e]
      /\ p \in PortType /\ port \in PortType
      /\ e \in EntryType /\ entry[x] \in EntryType
  BY DEF Puts, Good, TypeOK
<1>2. SUFFICES ASSUME p.active, p.left = 0
               PROVE  MatchOK'
  BY <1>1 DEF MatchOK
<1>3. /\ port.active /\ port.left = 0 /\ RequestKept(x, entry[x], e, p)
  BY <1>2 DEF Good
<1>4. /\ \A y \in Places : entry'[y] = IF y = x THEN e ELSE entry[y]
      /\ \A y \in Places : entry[y].req \in Slots \cup {None}
      /\ p.requests \in Table /\ port.requests \in Table
  BY <1>1 DEF TypeOK, EntryType, PortType
<1>5. /\ x[2] \in Names /\ None \notin Names /\ None \notin Slots
  BY PortRightsAssumption DEF Places
<1> DEFINE Named == \A y \in Places :
                      entry'[y].req # None => p.requests[entry'[y].req] = y[2]
           Owner(z, j) == /\ entry'[z].req = j
                          /\ \A y \in Places : entry'[y].req = j => y = z
           Owned(j) == \E z \in Places : Owner(z, j)
<1>6. Named /\ \A j \in Slots : p.requests[j] # None => Owned(j)
  <2>0. /\ \A y \in Places :
             entry[y].req # None => port.requests[entry[y].req] = y[2]
        /\ \A i \in Slots : port.requests[i] # None =>
             \E z \in Places : /\ entry[z].req = i
                               /\ \A y \in Places : entry[y].req = i => y = z
        /\ \A y \in Places : y[2] # None
    BY <1>3, <1>5 DEF MatchOK, Places
  <2>1. CASE e.req = entry[x].req /\ p.requests = port.requests
    <3>1. \A y \in Places : entry'[y].req = entry[y].req
      BY <1>4, <2>1
    <3>2. QED  BY <2>0, <2>1, <3>1
  <2>2. CASE /\ entry[x].req # None /\ e.req = None
             /\ p.requests = [port.requests EXCEPT ![entry[x].req] = None]
    <3> DEFINE i == entry[x].req
    <3>1. i \in Slots /\ port.requests[i] # None
      BY <1>4, <2>0, <2>2
    <3>2. \A j \in Slots : p.requests[j] = IF j = i THEN None ELSE port.requests[j]
      BY <1>4, <2>2 DEF Table
    <3>3. \A y \in Places : entry'[y].req = IF y = x THEN None ELSE entry[y].req
      BY <1>4, <2>2
    <3>4. \A y \in Places : entry[y].req = i => y = x
      BY <2>0, <3>1
    <3>5. Named
      BY <1>4, <2>0, <3>2, <3>3, <3>4
    <3>6. ASSUME NEW j \in Slots, p.requests[j] # None
          PROVE  Owned(j)
      <4>1. j # i /\ port.requests[j] # None
        BY <3>2, <3>6
      <4>2. PICK z \in Places : /\ entry[z].req = j
                               /\ \A y \in Places : entry[y].req = j => y = z
        BY <2>0, <4>1
      <4>3. z # x
        BY <4>1, <4>2
      <4>4. Owner(z, j)
        BY <1>5, <3>3, <4>2, <4>3
      <4>5. QED  BY <4>4
    <3> HIDE DEF Named, Owned
    <3>7. QED
      BY <3>5, <3>6
  <2>3. CASE /\ entry[x].req = None /\ e.req \in Slots
             /\ port.requests[e.req] = None
             /\ p.requests = [port.requests EXCEPT ![e.req] = x[2]]
    <3>1. \A j \in Slots : p.requests[j] = IF j = e.req THEN x[2] ELSE port.requests[j]
      BY <1>4, <2>3 DEF Table
    <3>2. \A y \in Places : entry'[y].req = IF y = x THEN e.req ELSE entry[y].req
      BY <1>4
    <3>3. \A y \in Places : entry[y].req # e.req
      BY <1>5, <2>0, <2>3
    <3>4. Named
      BY <1>4, <2>0, <2>3, <3>1, <3>2
    <3>5. ASSUME NEW j \in Slots, p.requests[j] # None
          PROVE  Owned(j)
      <4>1. CASE j = e.req
        BY <3>2, <3>3, <4>1
      <4>2. CASE j # e.req
        <5>1. PICK z \in Places : /\ entry[z].req = j
                                 /\ \A y \in Places : entry[y].req = j => y = z
          BY <2>0, <3>1, <3>5, <4>2
        <5>2. z # x
          BY <1>5, <2>3, <5>1
        <5>3. Owner(z, j)
          BY <3>2, <4>2, <5>1, <5>2
        <5>4. QED  BY <5>3
      <4>3. QED  BY <4>1, <4>2
    <3> HIDE DEF Named, Owned
    <3>6. QED
      BY <3>4, <3>5
  <2>4. QED
    BY <1>3, <2>1, <2>2, <2>3 DEF RequestKept
<1>7. QED
  BY <1>1, <1>6 DEF MatchOK

LEMMA PutsInv ==
  ASSUME NEW x \in Places, NEW e, NEW p, Puts(x, e, p), Inv,
         Good(x, entry[x], e, p)
  PROVE  Inv'
<1>1. /\ port' = p /\ entry' = [entry EXCEPT ![x] = e] /\ alive' = alive
      /\ p \in PortType /\ e \in EntryType /\ EntryOK(e)
      /\ StateOK(p) /\ NoSendersOK(p) /\ TypeOK
      /\ \A y \in Places : EntryOK(entry[y])
  BY DEF Puts, Good, Inv
<1>2. TypeOK'
  BY <1>1 DEF TypeOK
<1>3. \A y \in Places : EntryOK(entry'[y])
  BY <1>1 DEF TypeOK
<1>4. StateOK(port') /\ NoSendersOK(port')
  BY <1>1
<1>5. RefsCounted' /\ RightsCounted'
  BY PutsCounts DEF Inv
<1>6. ReceiverOK' /\ OneName' /\ MatchOK'
  BY PutsReceiver, PutsName, PutsMatch DEF Inv
<1>7. QED
  BY <1>2, <1>3, <1>4, <1>5, <1>6
     DEF Inv, EntryOK, StateOK, NoSendersOK, HasSend

-----------------------------------------------------------------------------
(***************************************************************************)
(* The actions                                                             *)
(***************************************************************************)
\* What the invariant says of the port and the entry an action is about.
LEMMA AtPlace ==
  ASSUME Inv, NEW x \in Places
  PROVE  /\ port \in PortType /\ StateOK(port) /\ NoSendersOK(port)
         /\ entry[x] \in EntryType /\ EntryOK(entry[x])
         /\ HasReceive(entry[x]) =>
              port.active /\ ~port.limbo /\ port.receiver = x
         /\ port.active => port.srights >= 0
         /\ port.active /\ (HasSend(entry[x]) \/ port.sends > 0) =>
              port.srights >= 1
         /\ port.active /\ HasSend(entry[x]) /\ port.sends > 0 =>
              port.srights >= 2
<1>1. /\ port \in PortType /\ StateOK(port) /\ NoSendersOK(port)
      /\ entry[x] \in EntryType /\ EntryOK(entry[x])
  BY DEF Inv, TypeOK
<1>2. HasReceive(entry[x]) => port.active /\ ~port.limbo /\ port.receiver = x
  BY DEF Inv, ReceiverOK, Receivers
<1>3. ASSUME port.active
      PROVE  /\ port.srights >= 0
             /\ HasSend(entry[x]) \/ port.sends > 0 => port.srights >= 1
             /\ HasSend(entry[x]) /\ port.sends > 0 => port.srights >= 2
  <2> DEFINE H == Holding({"send", "both"})
  <2>1. port.srights = Cardinality(H) + port.sends + port.left
    BY <1>3 DEF Inv, RightsCounted
  <2>2. IsFiniteSet(H) /\ Cardinality(H) \in Nat
    BY HoldingFinite
  <2>3. HasSend(entry[x]) => Cardinality(H) # 0
    <3>1. HasSend(entry[x]) => x \in H
      BY DEF HasSend, Holding, Places
    <3>2. QED  BY <2>2, <3>1, FS_EmptySet
  <2>4. port.sends \in Nat /\ port.left \in Nat
    BY <1>1 DEF PortType
  <2>5. QED
    BY <2>1, <2>2, <2>3, <2>4
<1>4. QED  BY <1>1, <1>2, <1>3


LEMMA PortFields ==
  ASSUME NEW q \in PortType
  PROVE  /\ q.refs \in Int /\ q.refs + 1 \in Int /\ q.refs - 1 \in Int
         /\ q.srights \in Int /\ q.srights + 1 \in Int /\ q.srights - 1 \in Int
         /\ q.sorights \in Int /\ q.sorights + 1 \in Int /\ q.sorights - 1 \in Int
         /\ q.mscount \in Nat /\ q.mscount + 1 \in Nat
         /\ q.sends \in Nat /\ q.sends + 1 \in Nat
         /\ q.sonces \in Nat /\ q.sonces + 1 \in Nat
         /\ q.left \in Nat /\ q.left + 1 \in Nat
BY DEF PortType

\* The operators on the port, by what they do to its fields.
LEMMA LoseSendFields ==
  ASSUME NEW q \in PortType
  PROVE  /\ LoseSend(q) \in PortType
         /\ LoseSend(q).srights = q.srights - 1
         /\ LoseSend(q).active = q.active
         /\ LoseSend(q).receiver = q.receiver
         /\ LoseSend(q).refs = q.refs
         /\ LoseSend(q).mscount = q.mscount
         /\ LoseSend(q).sorights = q.sorights
         /\ LoseSend(q).requests = q.requests
         /\ LoseSend(q).dying = q.dying
         /\ LoseSend(q).sends = q.sends
         /\ LoseSend(q).sonces = q.sonces
         /\ LoseSend(q).limbo = q.limbo
         /\ LoseSend(q).left = q.left
         /\ LoseSend(q).forced = q.forced
         /\ q.srights = 1 => LoseSend(q).nsrequest = None
         /\ q.srights # 1 => LoseSend(q).nsrequest = q.nsrequest
         /\ LoseSend(q).told = q.told
              \/ (q.srights = 1 /\ LoseSend(q).told = q.mscount)
<1> DEFINE last == q.srights = 1
           n == IF last THEN None ELSE q.nsrequest
           t == IF last /\ q.nsrequest # None THEN q.mscount ELSE q.told
           m == q.srights - 1
<1>1. /\ m \in Int /\ n \in Nat \cup {None} /\ t \in Nat \cup {None}
  BY DEF PortType
<1>2. LoseSend(q) = [q EXCEPT !.srights = m, !.nsrequest = n, !.told = t]
  BY DEF LoseSend, PortType
<1>3. /\ last => n = None
      /\ ~last => n = q.nsrequest
      /\ t = q.told \/ (last /\ t = q.mscount)
  OBVIOUS
<1> HIDE DEF m, n, t
<1>4. /\ LoseSend(q) \in PortType
      /\ LoseSend(q).srights = m
      /\ LoseSend(q).nsrequest = n
      /\ LoseSend(q).told = t
  BY <1>1, <1>2 DEF PortType
<1>5. /\ LoseSend(q).active = q.active
      /\ LoseSend(q).receiver = q.receiver
      /\ LoseSend(q).refs = q.refs
      /\ LoseSend(q).mscount = q.mscount
      /\ LoseSend(q).sorights = q.sorights
      /\ LoseSend(q).requests = q.requests
      /\ LoseSend(q).dying = q.dying
      /\ LoseSend(q).sends = q.sends
      /\ LoseSend(q).sonces = q.sonces
      /\ LoseSend(q).limbo = q.limbo
      /\ LoseSend(q).left = q.left
      /\ LoseSend(q).forced = q.forced
  BY <1>2 DEF PortType
<1>6. QED
  BY <1>3, <1>4, <1>5 DEF m

LEMMA LoseSendNoSenders ==
  ASSUME NEW q \in PortType, NoSendersOK(q), q.active => q.srights >= 1
  PROVE  NoSendersOK(LoseSend(q))
<1>1. /\ q.srights \in Int /\ q.mscount \in Nat
      /\ q.told \in Nat \cup {None} /\ q.nsrequest \in Nat \cup {None}
  BY DEF PortType
<1>2. QED
  BY <1>1, LoseSendFields DEF NoSendersOK

LEMMA CancelledFields ==
  ASSUME NEW q \in PortType, NEW e \in EntryType
  PROVE  /\ Cancelled(q, e) \in PortType
         /\ Cancelled(q, e).requests
              = IF e.req = None THEN q.requests
                                ELSE [q.requests EXCEPT ![e.req] = None]
         /\ Cancelled(q, e) = [q EXCEPT !.requests = Cancelled(q, e).requests]
<1> DEFINE r == IF e.req = None THEN q.requests
                                ELSE [q.requests EXCEPT ![e.req] = None]
<1>1. r \in Table
  BY DEF PortType, EntryType, Table
<1>2. Cancelled(q, e) = [q EXCEPT !.requests = r]
  BY DEF Cancelled, PortType
<1> HIDE DEF r
<1>3. Cancelled(q, e).requests = r /\ Cancelled(q, e) \in PortType
  BY <1>1, <1>2 DEF PortType
<1>4. QED
  BY <1>2, <1>3 DEF r

LEMMA ClearedFields ==
  ASSUME NEW q \in PortType
  PROVE  /\ ClearReceiver(q) \in PortType
         /\ ClearReceiver(q) = [q EXCEPT !.mscount = 0, !.told = None,
                                         !.receiver = None]
         /\ q.active /\ NoSendersOK(q) => NoSendersOK(ClearReceiver(q))
<1>1. /\ ClearReceiver(q) \in PortType
      /\ ClearReceiver(q) = [q EXCEPT !.mscount = 0, !.told = None,
                                      !.receiver = None]
  BY DEF ClearReceiver, PortType
<1>2. ASSUME q.active, NoSendersOK(q)
      PROVE  NoSendersOK(ClearReceiver(q))
  <2>1. q.mscount \in Nat /\ q.nsrequest \in Nat \cup {None}
    BY DEF PortType
  <2>2. /\ ClearReceiver(q).mscount = 0
        /\ ClearReceiver(q).told = None
        /\ ClearReceiver(q).nsrequest = q.nsrequest
        /\ ClearReceiver(q).srights = q.srights
        /\ ClearReceiver(q).forced = q.forced
    BY <1>1 DEF PortType
  <2>3. QED
    BY <1>2, <2>1, <2>2 DEF NoSendersOK
<1>3. QED  BY <1>1, <1>2

\* A cancelled request changes the table and nothing else of the port.
LEMMA CancelledKeeps ==
  ASSUME NEW q \in PortType, NEW e \in EntryType
  PROVE  LET c == Cancelled(q, e) IN
         /\ c.active = q.active /\ c.receiver = q.receiver /\ c.refs = q.refs
         /\ c.mscount = q.mscount /\ c.srights = q.srights
         /\ c.sorights = q.sorights /\ c.nsrequest = q.nsrequest
         /\ c.dying = q.dying /\ c.sends = q.sends /\ c.sonces = q.sonces
         /\ c.limbo = q.limbo /\ c.told = q.told /\ c.left = q.left
         /\ c.forced = q.forced
         /\ NoSendersOK(q) => NoSendersOK(c)
<1> DEFINE c == Cancelled(q, e)
<1>1. c = [q EXCEPT !.requests = c.requests]
  BY CancelledFields
<1> HIDE DEF c
<1>2. /\ c.active = q.active /\ c.receiver = q.receiver /\ c.refs = q.refs
      /\ c.mscount = q.mscount /\ c.srights = q.srights
      /\ c.sorights = q.sorights /\ c.nsrequest = q.nsrequest
  BY <1>1 DEF PortType
<1>3. /\ c.dying = q.dying /\ c.sends = q.sends /\ c.sonces = q.sonces
      /\ c.limbo = q.limbo /\ c.told = q.told /\ c.left = q.left
      /\ c.forced = q.forced
  BY <1>1 DEF PortType
<1>4. NoSendersOK(q) => NoSendersOK(c)
  BY <1>2, <1>3 DEF NoSendersOK
<1>5. QED
  BY <1>2, <1>3, <1>4 DEF c

\* What clearing the receiver leaves alone.
LEMMA ClearedKeeps ==
  ASSUME NEW q \in PortType
  PROVE  LET c == ClearReceiver(q) IN
         /\ c.refs = q.refs /\ c.active = q.active /\ c.srights = q.srights
         /\ c.sorights = q.sorights /\ c.dying = q.dying /\ c.sends = q.sends
         /\ c.sonces = q.sonces /\ c.limbo = q.limbo /\ c.left = q.left
         /\ c.requests = q.requests
<1> DEFINE c == ClearReceiver(q)
<1>1. c = [q EXCEPT !.mscount = 0, !.told = None, !.receiver = None]
  BY ClearedFields
<1> HIDE DEF c
<1>2. /\ c.refs = q.refs /\ c.active = q.active /\ c.srights = q.srights
      /\ c.sorights = q.sorights /\ c.dying = q.dying
  BY <1>1 DEF PortType
<1>3. /\ c.sends = q.sends /\ c.sonces = q.sonces /\ c.limbo = q.limbo
      /\ c.left = q.left /\ c.requests = q.requests
  BY <1>1 DEF PortType
<1>4. QED
  BY <1>2, <1>3 DEF c

LEMMA DestroyedFields ==
  ASSUME NEW q \in PortType
  PROVE  /\ Destroyed(q) \in PortType
         /\ Destroyed(q).refs = q.refs
         /\ Destroyed(q).srights = q.srights
         /\ Destroyed(q).sorights = q.sorights
         /\ Destroyed(q).sends = q.sends
         /\ Destroyed(q).sonces = q.sonces
         /\ Destroyed(q).mscount = q.mscount
         /\ q.pdrequest => /\ Destroyed(q).limbo
                           /\ Destroyed(q).active = q.active
                           /\ Destroyed(q).dying = q.dying
                           /\ Destroyed(q).requests = q.requests
                           /\ Destroyed(q).left = q.left
                           /\ Destroyed(q).told = q.told
                           /\ Destroyed(q).nsrequest = q.nsrequest
                           /\ Destroyed(q).forced = q.forced
         /\ ~q.pdrequest => /\ ~Destroyed(q).active
                            /\ Destroyed(q).dying
                            /\ Destroyed(q).limbo = q.limbo
<1>1. NoRequests \in Table
  BY DEF NoRequests, Table
<1>2. CASE q.pdrequest
  BY <1>2 DEF Destroyed, PortType
<1>3. CASE ~q.pdrequest
  BY <1>1, <1>3 DEF Destroyed, PortType
<1>4. QED  BY <1>2, <1>3

\* Entries after the check, and with references less.
LEMMA CheckedOK ==
  ASSUME NEW f \in EntryType, EntryOK(f)
  PROVE  Checked(f) \in EntryType /\ EntryOK(Checked(f))
BY PortRightsAssumption
   DEF Checked, Stale, Entry, EntryType, EntryOK, Types, HasSend

LEMMA DeadEntryOK ==
  ASSUME NEW e \in EntryType, EntryOK(e), e.type = "dead",
         NEW k \in Int, k <= e.urefs, e.urefs - k <= UrefsMax
  PROVE  /\ DeadEntry(e, k) \in EntryType /\ EntryOK(DeadEntry(e, k))
         /\ DeadEntry(e, k).type \in {"dead", "none"}
         /\ DeadEntry(e, k).req = None
<1>1. CASE e.urefs = k
  BY <1>1 DEF DeadEntry, Unused, Entry, EntryType, EntryOK, Types, HasSend
<1>2. CASE e.urefs # k
  <2>1. e.urefs - k \in Nat /\ e.urefs - k >= 1
    BY <1>2 DEF EntryType
  <2>2. DeadEntry(e, k) = [e EXCEPT !.urefs = e.urefs - k]
    BY <1>2 DEF DeadEntry, EntryType
  <2>3. QED
    BY <2>1, <2>2 DEF EntryType, EntryOK, HasSend
<1>3. QED  BY <1>1, <1>2

\* A dead name, or a right found dead, is changed or goes.
LEMMA DeadGood ==
  ASSUME Inv, NEW x \in Places, NEW e \in EntryType, EntryOK(e),
         e.type \in {"dead", "none"}, e.req = None,
         Checked(entry[x]).type = "dead"
  PROVE  Good(x, entry[x], e, CheckedPort(entry[x]))
<1> DEFINE f == entry[x]
           p == CheckedPort(f)
<1>1. /\ port \in PortType /\ StateOK(port) /\ NoSendersOK(port)
      /\ f \in EntryType /\ EntryOK(f)
      /\ HasReceive(f) => port.active /\ ~port.limbo /\ port.receiver = x
  BY AtPlace
<1>2. ~HasSend(e) /\ ~HasReceive(e) /\ ~IsRef(e) /\ e.type # "sonce"
  BY DEF HasSend, HasReceive, IsRef
<1>3. CASE Stale(f)
  <2>1. p = [port EXCEPT !.refs = @ - 1]
    BY <1>3 DEF CheckedPort
  <2>2. /\ ~port.active /\ IsRef(f) /\ ~HasReceive(f)
    BY <1>3 DEF Stale, IsRef, HasReceive
  <2>3. p \in PortType
    BY <1>1, <2>1, PortFields DEF PortType
  <2>4. /\ p.active = port.active /\ p.limbo = port.limbo
        /\ p.dying = port.dying /\ p.sends = port.sends
        /\ p.sonces = port.sonces /\ p.refs = port.refs - 1
    BY <1>1, <2>1 DEF PortType
  <2>5. RefsKept(f, e, p)
    BY <1>1, <1>2, <2>2, <2>4 DEF RefsKept, Hanging, One, PortType
  <2>6. QED
    BY <1>1, <1>2, <2>2, <2>3, <2>4, <2>5
       DEF Good, StateOK, NoSendersOK, ReceiverKept, NameKept, Names1
<1>4. CASE ~Stale(f)
  <2>1. p = port /\ f.type = "dead" /\ f.req = None
    BY <1>1, <1>4 DEF CheckedPort, Checked, EntryOK
  <2>2. ~HasSend(f) /\ ~HasReceive(f) /\ ~IsRef(f) /\ f.type # "sonce"
    BY <2>1 DEF HasSend, HasReceive, IsRef
  <2>3. RefsKept(f, e, p) /\ RightsKept(f, e, p)
    BY <1>1, <1>2, <2>1, <2>2 DEF RefsKept, RightsKept, Hanging, One, PortType
  <2>4. QED
    BY <1>1, <1>2, <2>1, <2>2, <2>3
       DEF Good, ReceiverKept, NameKept, Names1, RequestKept
<1>5. QED  BY <1>3, <1>4

\* A send-once right leaves for a message.
LEMMA SonceGood ==
  ASSUME Inv, NEW x \in Places, entry[x].type = "sonce", port.active
  PROVE  Good(x, entry[x], Unused, SonceLeaves(port, entry[x]))
<1> DEFINE f == entry[x]
           c == Cancelled(port, f)
           p == SonceLeaves(port, f)
<1>1. /\ port \in PortType /\ StateOK(port) /\ NoSendersOK(port)
      /\ f \in EntryType /\ EntryOK(f)
  BY AtPlace
<1>2. /\ c \in PortType /\ c = [port EXCEPT !.requests = c.requests]
      /\ c.requests = IF f.req = None THEN port.requests
                      ELSE [port.requests EXCEPT ![f.req] = None]
  BY <1>1, CancelledFields
<1>3. p = [c EXCEPT !.sonces = @ + 1]
  BY DEF SonceLeaves
<1>4. p \in PortType
  BY <1>2, <1>3, PortFields DEF PortType
<1>5. /\ p.active = port.active /\ p.receiver = port.receiver
      /\ p.refs = port.refs /\ p.mscount = port.mscount
      /\ p.srights = port.srights /\ p.sorights = port.sorights
      /\ p.nsrequest = port.nsrequest /\ p.requests = c.requests
      /\ p.dying = port.dying /\ p.sends = port.sends
      /\ p.sonces = port.sonces + 1 /\ p.limbo = port.limbo
      /\ p.told = port.told /\ p.left = port.left /\ p.forced = port.forced
  <2>1. /\ c.active = port.active /\ c.receiver = port.receiver
        /\ c.refs = port.refs /\ c.mscount = port.mscount
        /\ c.srights = port.srights /\ c.sorights = port.sorights
        /\ c.nsrequest = port.nsrequest
        /\ c.dying = port.dying /\ c.sends = port.sends
        /\ c.sonces = port.sonces /\ c.limbo = port.limbo
        /\ c.told = port.told /\ c.left = port.left /\ c.forced = port.forced
    BY <1>1, CancelledKeeps
  <2> HIDE DEF c, p
  <2>2. QED
    BY <1>2, <1>3, <2>1 DEF PortType
<1>6. /\ ~HasSend(f) /\ ~HasReceive(f) /\ IsRef(f)
      /\ ~HasSend(Unused) /\ ~HasReceive(Unused) /\ ~IsRef(Unused)
      /\ Unused.type # "sonce" /\ Unused.req = None
      /\ Unused \in EntryType /\ EntryOK(Unused)
  BY DEF HasSend, HasReceive, IsRef, Unused, Entry, EntryType, EntryOK, Types
<1>7. RefsKept(f, Unused, p) /\ RightsKept(f, Unused, p)
  BY <1>1, <1>5, <1>6 DEF RefsKept, RightsKept, Hanging, One, PortType
<1>8. RequestKept(x, f, Unused, p)
  BY <1>2, <1>5, <1>6 DEF RequestKept
<1>9. QED
  BY <1>1, <1>4, <1>5, <1>6, <1>7, <1>8
     DEF Good, StateOK, NoSendersOK, ReceiverKept, NameKept, Names1

UnusedType == Unused \in EntryType /\ EntryOK(Unused)

LEMMA UnusedOK ==
  /\ UnusedType /\ Unused.req = None
  /\ ~HasSend(Unused) /\ ~HasReceive(Unused) /\ ~IsRef(Unused)
  /\ Unused.type # "sonce"
BY DEF UnusedType, HasSend, HasReceive, IsRef, Unused, Entry, EntryType, EntryOK, Types

\* User references of a send right go, and the right with the last one.
LEMMA SendGood ==
  ASSUME Inv, NEW x \in Places, NEW k \in Int, port.active,
         HasSend(entry[x]), entry[x].urefs >= k, entry[x].urefs - k < UrefsMax
  PROVE  Good(x, entry[x], SendEntry(entry[x], k), SendPort(port, entry[x], k))
<1> DEFINE f == entry[x]
           e == SendEntry(f, k)
           p == SendPort(port, f, k)
           l == LoseSend(port)
           c == Cancelled(l, f)
<1>1. /\ port \in PortType /\ StateOK(port) /\ NoSendersOK(port)
      /\ f \in EntryType /\ EntryOK(f) /\ port.srights >= 1
      /\ HasReceive(f) => ~port.limbo /\ port.receiver = x
  BY AtPlace
<1>2. f.urefs \in Nat /\ f.type \in {"send", "both"} /\ IsRef(f) /\ f.type # "sonce"
  BY <1>1 DEF EntryType, HasSend, IsRef
<1>3. /\ l \in PortType /\ NoSendersOK(l) /\ l.srights = port.srights - 1
      /\ l.active /\ l.receiver = port.receiver /\ l.refs = port.refs
      /\ l.sorights = port.sorights /\ l.requests = port.requests
      /\ l.dying = port.dying /\ l.sends = port.sends
      /\ l.sonces = port.sonces /\ l.limbo = port.limbo /\ l.left = port.left
  BY <1>1, LoseSendFields, LoseSendNoSenders
<1>4. CASE f.urefs > k
  <2>1. e = [f EXCEPT !.urefs = f.urefs - k] /\ p = port
    BY <1>4 DEF SendEntry, SendPort
  <2>2. f.urefs - k \in Nat /\ f.urefs - k >= 1
    BY <1>2, <1>4
  <2>3. e \in EntryType /\ e.type = f.type /\ e.req = f.req /\ EntryOK(e)
    BY <1>1, <1>2, <2>1, <2>2 DEF EntryType, EntryOK, HasSend
  <2>4. /\ HasSend(e) <=> HasSend(f)
        /\ HasReceive(e) <=> HasReceive(f)
        /\ IsRef(e) <=> IsRef(f)
        /\ e.type # "sonce"
    BY <1>2, <2>3 DEF HasSend, HasReceive, IsRef
  <2>5. RefsKept(f, e, p) /\ RightsKept(f, e, p)
    BY <1>1, <1>2, <2>1, <2>4 DEF RefsKept, RightsKept, Hanging, One, PortType
  <2>6. QED
    BY <1>1, <2>1, <2>3, <2>4, <2>5
       DEF Good, ReceiverKept, NameKept, Names1, RequestKept
<1>5. CASE f.urefs = k /\ f.type = "both"
  <2>1. e = Entry("receive", 0, f.req) /\ p = l
    BY <1>2, <1>5 DEF SendEntry, SendPort
  <2>2. /\ e \in EntryType /\ EntryOK(e) /\ e.req = f.req
        /\ ~HasSend(e) /\ HasReceive(e) /\ HasReceive(f) /\ IsRef(e)
        /\ e.type # "sonce"
    BY <1>1, <1>5, <2>1
       DEF Entry, EntryType, EntryOK, HasSend, HasReceive, IsRef, Types
  <2>3. RefsKept(f, e, p) /\ RightsKept(f, e, p)
    BY <1>1, <1>2, <1>3, <2>1, <2>2
       DEF RefsKept, RightsKept, Hanging, One, PortType
  <2>4. QED
    BY <1>1, <1>3, <2>1, <2>2, <2>3
       DEF Good, StateOK, ReceiverKept, NameKept, Names1, RequestKept
<1>6. CASE f.urefs = k /\ f.type = "send"
  <2>1. e = Unused /\ p = [c EXCEPT !.refs = @ - 1]
    BY <1>2, <1>6 DEF SendEntry, SendPort
  <2>2. /\ c \in PortType /\ c = [l EXCEPT !.requests = c.requests]
        /\ c.requests = IF f.req = None THEN port.requests
                        ELSE [port.requests EXCEPT ![f.req] = None]
    BY <1>1, <1>3, CancelledFields
  <2>0. c \in PortType
    BY <2>2
  <2>3. /\ c.refs = port.refs /\ c.active /\ c.receiver = port.receiver
        /\ c.srights = port.srights - 1 /\ c.sorights = port.sorights
        /\ c.dying = port.dying /\ c.sends = port.sends
        /\ c.sonces = port.sonces /\ c.limbo = port.limbo /\ c.left = port.left
        /\ NoSendersOK(c)
    BY <1>1, <1>3, CancelledKeeps
  <2>4. p \in PortType
    BY <2>1, <2>2, PortFields DEF PortType
  <2>5. /\ p.refs = port.refs - 1 /\ p.active /\ p.receiver = port.receiver
        /\ p.srights = port.srights - 1 /\ p.sorights = port.sorights
        /\ p.dying = port.dying /\ p.sends = port.sends
        /\ p.sonces = port.sonces /\ p.limbo = port.limbo /\ p.left = port.left
        /\ p.requests = c.requests /\ NoSendersOK(p)
    <3>1. /\ p.refs = c.refs - 1 /\ p.active = c.active
          /\ p.receiver = c.receiver /\ p.srights = c.srights
          /\ p.sorights = c.sorights /\ p.dying = c.dying /\ p.sends = c.sends
          /\ p.sonces = c.sonces /\ p.limbo = c.limbo /\ p.left = c.left
          /\ p.requests = c.requests /\ p.mscount = c.mscount
          /\ p.told = c.told /\ p.nsrequest = c.nsrequest
          /\ p.forced = c.forced
      BY <2>0, <2>1 DEF PortType
    <3>2. QED
      BY <2>3, <3>1 DEF NoSendersOK
  <2>6. ~HasReceive(f)
    BY <1>6 DEF HasReceive
  <2>7. RefsKept(f, e, p) /\ RightsKept(f, e, p)
    BY <1>1, <1>2, <2>1, <2>5, UnusedOK
       DEF RefsKept, RightsKept, Hanging, One, PortType
  <2>8. RequestKept(x, f, e, p)
    BY <2>1, <2>2, <2>5, UnusedOK DEF RequestKept
  <2>9. QED
    BY <1>1, <2>1, <2>4, <2>5, <2>6, <2>7, <2>8, UnusedOK
       DEF Good, StateOK, ReceiverKept, NameKept, Names1, UnusedType
<1>7. QED
  BY <1>2, <1>4, <1>5, <1>6

\* The receive right goes, with what is beside it, and its port is destroyed
\* or sent to its backup.  q is the port when ipc_port_destroy is called.
LEMMA DestroyedGood ==
  ASSUME Inv, NEW x \in Places, HasReceive(entry[x]),
         NEW e \in EntryType, EntryOK(e), ~Names1(e), e.type # "sonce",
         NEW q \in PortType, q.active, ~q.limbo, ~q.dying, NoSendersOK(q),
         q.refs = port.refs, q.sends = port.sends, q.sonces = port.sonces,
         RightsKept(entry[x], e, q),
         q.left = 0 => port.left = 0 /\ RequestKept(x, entry[x], e, q)
  PROVE  Good(x, entry[x], e, Destroyed(q))
<1> DEFINE f == entry[x]
           p == Destroyed(q)
<1>1. /\ port \in PortType /\ StateOK(port) /\ NoSendersOK(port)
      /\ f \in EntryType /\ EntryOK(f)
      /\ port.active /\ ~port.limbo /\ ~port.dying
  BY AtPlace DEF StateOK
<1>2. IsRef(f) /\ ~IsRef(e)
  BY DEF HasReceive, IsRef, Names1, HasSend
<1>3. ~HasReceive(e)
  BY DEF Names1
<1>4. /\ p \in PortType /\ p.refs = q.refs /\ p.srights = q.srights
      /\ p.sorights = q.sorights /\ p.sends = q.sends /\ p.sonces = q.sonces
      /\ p.mscount = q.mscount
  BY DestroyedFields
<1>5. CASE q.pdrequest
  <2>1. /\ p.limbo /\ p.active /\ ~p.dying /\ p.requests = q.requests
        /\ p.left = q.left /\ p.told = q.told /\ p.nsrequest = q.nsrequest
        /\ p.forced = q.forced
    BY <1>5, DestroyedFields
  <2>2. RefsKept(f, e, p)
    BY <1>1, <1>2, <1>4, <2>1 DEF RefsKept, Hanging, One, PortType
  <2>3. RightsKept(f, e, p) /\ NoSendersOK(p) /\ StateOK(p)
    BY <1>4, <2>1 DEF RightsKept, NoSendersOK, StateOK
  <2>4. p.left = 0 => port.left = 0 /\ RequestKept(x, f, e, p)
    BY <2>1 DEF RequestKept
  <2>5. QED
    BY <1>1, <1>3, <1>4, <2>1, <2>2, <2>3, <2>4
       DEF Good, ReceiverKept, NameKept
<1>6. CASE ~q.pdrequest
  <2>1. ~p.active /\ p.dying /\ ~p.limbo
    BY <1>6, DestroyedFields
  <2>2. RefsKept(f, e, p)
    BY <1>1, <1>2, <1>4, <2>1 DEF RefsKept, Hanging, One, PortType
  <2>3. QED
    BY <1>1, <1>3, <1>4, <2>1, <2>2
       DEF Good, StateOK, NoSendersOK, ReceiverKept, NameKept
<1>7. QED  BY <1>5, <1>6

LEMMA ReceiveGone ==
  ASSUME Inv, NEW x \in Places, HasReceive(entry[x]), NEW l,
         l = IF HasSend(entry[x]) THEN LoseSend(port) ELSE port
  PROVE  Good(x, entry[x], Unused,
              Destroyed(ClearReceiver(Cancelled(l, entry[x]))))
<1> DEFINE f == entry[x]
           c == Cancelled(l, f)
           q == ClearReceiver(c)
<1>1. /\ port \in PortType /\ StateOK(port) /\ NoSendersOK(port)
      /\ f \in EntryType /\ EntryOK(f)
      /\ port.active /\ ~port.limbo /\ ~port.dying
      /\ HasSend(f) => port.srights >= 1
  BY AtPlace DEF StateOK
<1>2. /\ l \in PortType /\ NoSendersOK(l)
      /\ HasSend(f) => l.srights = port.srights - 1
      /\ ~HasSend(f) => l.srights = port.srights
      /\ l.active /\ l.refs = port.refs
      /\ l.sorights = port.sorights /\ l.requests = port.requests
      /\ ~l.dying /\ l.sends = port.sends
      /\ l.sonces = port.sonces /\ ~l.limbo /\ l.left = port.left
  <2>1. CASE HasSend(f)
    BY <1>1, <2>1, LoseSendFields, LoseSendNoSenders
  <2>2. CASE ~HasSend(f)
    BY <1>1, <2>2
  <2>3. QED  BY <2>1, <2>2
<1>3. /\ c \in PortType /\ c = [l EXCEPT !.requests = c.requests]
      /\ c.requests = IF f.req = None THEN port.requests
                      ELSE [port.requests EXCEPT ![f.req] = None]
  BY <1>1, <1>2, CancelledFields
<1>4. /\ c.refs = port.refs /\ c.active /\ c.srights = l.srights
      /\ c.sorights = port.sorights /\ ~c.dying /\ c.sends = port.sends
      /\ c.sonces = port.sonces /\ ~c.limbo /\ c.left = port.left
      /\ NoSendersOK(c)
  BY <1>2, <1>3 DEF PortType, NoSendersOK
<1>5. /\ q \in PortType /\ NoSendersOK(q)
      /\ q = [c EXCEPT !.mscount = 0, !.told = None, !.receiver = None]
  BY <1>3, <1>4, ClearedFields
<1>6. c \in PortType
  BY <1>3
<1>7. /\ q.refs = c.refs /\ q.active = c.active /\ q.srights = c.srights
      /\ q.sorights = c.sorights /\ q.dying = c.dying /\ q.sends = c.sends
      /\ q.sonces = c.sonces /\ q.limbo = c.limbo /\ q.left = c.left
      /\ q.requests = c.requests
  BY <1>6, ClearedKeeps
<1>8. f.type # "sonce"
  BY DEF HasReceive
<1>9. RightsKept(f, Unused, q)
  BY <1>1, <1>2, <1>4, <1>7, <1>8, UnusedOK DEF RightsKept, One, PortType
<1>10. RequestKept(x, f, Unused, q)
  BY <1>3, <1>7, UnusedOK DEF RequestKept
<1>11. q.left = 0 => port.left = 0
  BY <1>4, <1>7
<1>12. ~Names1(Unused)
  BY UnusedOK DEF Names1
<1>13. QED
  BY <1>4, <1>5, <1>7, <1>9, <1>10, <1>11, <1>12, UnusedOK, DestroyedGood
     DEF UnusedType

LEMMA GoneGood ==
  ASSUME Inv, NEW x \in Places, entry[x].type # "none"
  PROVE  Good(x, entry[x], Unused, RightGone(entry[x]))
<1> DEFINE f == entry[x]
           p == RightGone(f)
<1>1. /\ port \in PortType /\ StateOK(port) /\ NoSendersOK(port)
      /\ f \in EntryType /\ EntryOK(f)
      /\ HasReceive(f) => port.active
  BY AtPlace
<1>2. f.type \in Types /\ f.urefs \in Nat
  BY <1>1 DEF EntryType
<1>3. CASE f.type = "dead"
  <2>1. p = port
    BY <1>3 DEF RightGone, HasReceive
  <2>2. f.req = None /\ ~IsRef(f) /\ ~HasSend(f) /\ ~HasReceive(f)
    BY <1>1, <1>3 DEF EntryOK, IsRef, HasSend, HasReceive
  <2>3. RefsKept(f, Unused, p) /\ RightsKept(f, Unused, p)
    BY <1>1, <1>3, <2>1, <2>2, UnusedOK
       DEF RefsKept, RightsKept, Hanging, One, PortType
  <2>4. QED
    BY <1>1, <2>1, <2>2, <2>3, UnusedOK
       DEF Good, ReceiverKept, NameKept, Names1, RequestKept, UnusedType
<1>4. CASE f.type # "dead" /\ ~port.active
  <2>1. p = [port EXCEPT !.refs = @ - 1] /\ IsRef(f) /\ ~HasReceive(f)
    BY <1>1, <1>2, <1>4 DEF RightGone, HasReceive, IsRef, Types
  <2>2. p \in PortType
    BY <1>1, <2>1, PortFields DEF PortType
  <2>3. /\ p.active = port.active /\ p.limbo = port.limbo
        /\ p.dying = port.dying /\ p.sends = port.sends
        /\ p.sonces = port.sonces /\ p.refs = port.refs - 1
    BY <1>1, <2>1 DEF PortType
  <2>4. RefsKept(f, Unused, p)
    BY <1>1, <2>1, <2>3, UnusedOK DEF RefsKept, Hanging, One, PortType
  <2>5. QED
    BY <1>1, <1>4, <2>1, <2>2, <2>3, <2>4, UnusedOK
       DEF Good, StateOK, NoSendersOK, ReceiverKept, NameKept, Names1, UnusedType
<1>5. CASE HasReceive(f)
  <2> DEFINE l == IF HasSend(f) THEN LoseSend(port) ELSE port
  <2>1. p = Destroyed(ClearReceiver(Cancelled(l, f)))
    BY <1>1, <1>5 DEF RightGone, HasReceive
  <2>2. QED
    BY <1>5, <2>1, ReceiveGone
<1>6. CASE f.type = "sonce" /\ port.active
  <2>1. p = SonceLeaves(port, f)
    BY <1>6 DEF RightGone, HasReceive
  <2>2. QED
    BY <1>6, <2>1, SonceGood
<1>7. CASE f.type = "send" /\ port.active
  <2>1. HasSend(f) /\ ~HasReceive(f)
    BY <1>7 DEF HasSend, HasReceive
  <2>2. p = SendPort(port, f, f.urefs) /\ SendEntry(f, f.urefs) = Unused
    BY <1>2, <1>7, <2>1 DEF RightGone, SendPort, SendEntry
  <2>3. f.urefs \in Int /\ f.urefs >= f.urefs /\ f.urefs - f.urefs < UrefsMax
    BY <1>2, PortRightsAssumption
  <2>4. QED
    BY <1>7, <2>1, <2>2, <2>3, SendGood
<1>8. QED
  BY <1>2, <1>3, <1>4, <1>5, <1>6, <1>7 DEF Types, HasReceive

LEMMA DropsInv ==
  ASSUME Inv, NEW x \in Places, Drops(x)
  PROVE  Inv'
<1> DEFINE f == entry[x]
           g == Checked(f)
<1>1. /\ port \in PortType /\ StateOK(port) /\ NoSendersOK(port)
      /\ f \in EntryType /\ EntryOK(f) /\ g \in EntryType /\ EntryOK(g)
      /\ f.urefs \in Nat /\ g.urefs \in Nat
      /\ UrefsMax \in Nat /\ UrefsMax > 2
  BY AtPlace, CheckedOK, PortRightsAssumption DEF EntryType
<1>2. CASE Info(x)
  <2>1. Puts(x, g, CheckedPort(f)) /\ g.type = "dead" /\ g.req = None
    BY <1>2 DEF Info, Checked, Entry
  <2>2. QED
    BY <1>1, <2>1, DeadGood, PutsInv
<1>3. CASE Destroy(x) \/ Clean(x)
  <2>1. f.type # "none" /\ Puts(x, Unused, RightGone(f))
    BY <1>3 DEF Destroy, Clean, Denotes
  <2>2. QED
    BY <2>1, GoneGood, PutsInv
<1>4. CASE Dealloc(x)
  <2>1. CASE g.type = "dead" /\ Puts(x, DeadEntry(g, 1), CheckedPort(f))
    <3>1. /\ DeadEntry(g, 1) \in EntryType /\ EntryOK(DeadEntry(g, 1))
          /\ DeadEntry(g, 1).type \in {"dead", "none"}
          /\ DeadEntry(g, 1).req = None
      <4>1. 1 \in Int /\ 1 <= g.urefs /\ g.urefs - 1 <= UrefsMax
        BY <1>1, <2>1 DEF EntryOK
      <4>2. QED  BY <1>1, <2>1, <4>1, DeadEntryOK
    <3>2. QED
      BY <2>1, <3>1, DeadGood, PutsInv
  <2>2. CASE /\ g.type = "sonce"
             /\ Puts(x, Unused, SonceLeaves(CheckedPort(f), g))
    <3>1. g = f /\ CheckedPort(f) = port /\ port.active
      BY <1>1, <2>2 DEF Checked, CheckedPort, Stale, Entry, PortType
    <3>2. QED
      BY <2>2, <3>1, SonceGood, PutsInv
  <2>3. CASE /\ HasSend(g)
             /\ Puts(x, SendEntry(g, 1), SendPort(CheckedPort(f), g, 1))
    <3>1. g = f /\ CheckedPort(f) = port
      BY <2>3 DEF Checked, CheckedPort, Entry, HasSend
    <3>2. port.active
      BY <2>3, <1>1, <3>1, AtPlace
         DEF Checked, Stale, Entry, HasSend, HasReceive, PortType
    <3>3. 1 \in Int /\ f.urefs >= 1 /\ f.urefs - 1 < UrefsMax
      BY <1>1, <2>3, <3>1 DEF EntryOK
    <3>4. QED
      BY <2>3, <3>1, <3>2, <3>3, SendGood, PutsInv
  <2>4. QED
    BY <1>4, <2>1, <2>2, <2>3 DEF Dealloc
<1>5. ASSUME NEW d \in Deltas, DeltaDead(x, d)
      PROVE  Inv'
  <2>1. /\ g.type = "dead" /\ Puts(x, DeadEntry(g, -d), CheckedPort(f))
        /\ ~Underflows(g.urefs, d) /\ ~Overflows(g.urefs, d)
    BY <1>5 DEF DeltaDead
  <2>2. -d \in Int /\ -d <= g.urefs /\ g.urefs - (-d) <= UrefsMax
    BY <1>1, <2>1, PortRightsAssumption DEF Underflows, Overflows
  <2>3. /\ DeadEntry(g, -d) \in EntryType /\ EntryOK(DeadEntry(g, -d))
        /\ DeadEntry(g, -d).type \in {"dead", "none"}
        /\ DeadEntry(g, -d).req = None
    BY <1>1, <2>1, <2>2, DeadEntryOK
  <2>4. QED
    BY <2>1, <2>3, DeadGood, PutsInv
<1>6. ASSUME NEW d \in Deltas, DeltaSend(x, d)
      PROVE  Inv'
  <2>1. /\ HasSend(f) /\ port.active
        /\ Puts(x, SendEntry(f, -d), SendPort(port, f, -d))
        /\ ~Underflows(f.urefs, d) /\ ~Overflows(f.urefs + 1, d)
    BY <1>6 DEF DeltaSend
  <2>2. -d \in Int /\ f.urefs >= -d /\ f.urefs - (-d) < UrefsMax
    BY <1>1, <2>1, PortRightsAssumption DEF Underflows, Overflows
  <2>3. QED
    BY <2>1, <2>2, SendGood, PutsInv
<1>7. CASE DeltaSendOnce(x)
  BY <1>7, SonceGood, PutsInv DEF DeltaSendOnce
<1>8. CASE DeltaReceive(x)
  <2>1. CASE /\ f.type = "receive"
             /\ Puts(x, Unused, Destroyed(ClearReceiver(Cancelled(port, f))))
    <3>1. HasReceive(f) /\ ~HasSend(f)
      BY <2>1 DEF HasReceive, HasSend
    <3>2. QED
      BY <2>1, <3>1, ReceiveGone, PutsInv
  <2>2. ASSUME NEW e, NEW c, NEW q, f.type = "both",
               e = Entry("dead", f.urefs + (IF f.req = None THEN 0 ELSE 1), None),
               c = ClearReceiver(port),
               q = [c EXCEPT !.left = @ + 1],
               Puts(x, e, Destroyed(q))
        PROVE  Inv'
    <3>1. /\ HasReceive(f) /\ HasSend(f) /\ f.type # "sonce"
          /\ port.active /\ ~port.limbo /\ ~port.dying
      BY <2>2, AtPlace DEF HasReceive, HasSend, StateOK
    <3>2. /\ e \in EntryType /\ EntryOK(e) /\ ~Names1(e) /\ e.type # "sonce"
          /\ ~HasSend(e)
      BY <1>1, <2>2, <3>1
         DEF Entry, EntryType, EntryOK, Names1, HasSend, HasReceive, Types
    <3>3. /\ c \in PortType /\ NoSendersOK(c)
          /\ c = [port EXCEPT !.mscount = 0, !.told = None, !.receiver = None]
      BY <1>1, <2>2, <3>1, ClearedFields
    <3>4. c.left + 1 \in Nat
      BY <3>3, PortFields
    <3>5. /\ q \in PortType /\ q.left = c.left + 1 /\ q.refs = c.refs
          /\ q.active = c.active /\ q.srights = c.srights
          /\ q.sorights = c.sorights /\ q.dying = c.dying
          /\ q.sends = c.sends /\ q.sonces = c.sonces /\ q.limbo = c.limbo
          /\ q.told = c.told /\ q.mscount = c.mscount
          /\ q.nsrequest = c.nsrequest /\ q.forced = c.forced
      BY <2>2, <3>3, <3>4 DEF PortType
    <3>6. /\ c.left = port.left /\ c.refs = port.refs
          /\ c.active = port.active /\ c.srights = port.srights
          /\ c.sorights = port.sorights /\ c.dying = port.dying
          /\ c.sends = port.sends /\ c.sonces = port.sonces
          /\ c.limbo = port.limbo
      BY <1>1, <3>3 DEF PortType
    <3>7. NoSendersOK(q)
      BY <3>3, <3>5 DEF NoSendersOK
    <3>8. RightsKept(f, e, q)
      BY <1>1, <3>1, <3>2, <3>5, <3>6 DEF RightsKept, One, PortType
    <3>9. q.left # 0
      BY <1>1, <3>5, <3>6 DEF PortType
    <3>10. Good(x, f, e, Destroyed(q))
      BY <3>1, <3>2, <3>5, <3>6, <3>7, <3>8, <3>9, DestroyedGood
    <3>11. QED
      BY <2>2, <3>10, PutsInv
  <2>3. QED
    BY <1>8, <2>1, <2>2 DEF DeltaReceive
<1>9. QED
  BY <1>2, <1>3, <1>4, <1>5, <1>6, <1>7, <1>8 DEF Drops

LEMMA MakeSendInv ==
  ASSUME Inv, NEW x \in Places, MakeSend(x)
  PROVE  Inv'
<1> DEFINE f == entry[x]
           p == [port EXCEPT !.mscount = @ + 1, !.srights = @ + 1,
                             !.refs = @ + 1, !.sends = @ + 1]
<1>1. Puts(x, f, p) /\ HasReceive(f)
  BY DEF MakeSend
<1>2. /\ port \in PortType /\ StateOK(port) /\ NoSendersOK(port)
      /\ f \in EntryType /\ EntryOK(f) /\ port.receiver = x
      /\ port.active /\ ~port.limbo /\ port.srights >= 0
  BY <1>1, AtPlace
<1>3. p \in PortType
  BY <1>2, PortFields DEF PortType
<1>4. NoSendersOK(p) /\ StateOK(p)
  BY <1>2 DEF PortType, NoSendersOK, StateOK
<1>5. RefsKept(f, f, p) /\ RightsKept(f, f, p)
  BY <1>2 DEF PortType, RefsKept, RightsKept, Hanging, One
<1>6. ReceiverKept(x, f, f, p) /\ NameKept(x, f, f) /\ RequestKept(x, f, f, p)
  BY <1>1, <1>2 DEF PortType, RequestKept, ReceiverKept, NameKept
<1>7. Good(x, f, f, p)
  BY <1>2, <1>3, <1>4, <1>5, <1>6 DEF Good, PortType
<1>8. QED
  BY <1>1, <1>7, PutsInv

\* A step that leaves the receiver where it is and the port alive.
LEMMA LiveGood ==
  ASSUME Inv, NEW x \in Places, NEW e \in EntryType, EntryOK(e),
         NEW p \in PortType, port.active, p.active,
         p.receiver = port.receiver, p.limbo = port.limbo,
         p.dying = port.dying, p.left = port.left, NoSendersOK(p),
         RefsKept(entry[x], e, p), RightsKept(entry[x], e, p),
         HasReceive(e) <=> HasReceive(entry[x]),
         NameKept(x, entry[x], e), RequestKept(x, entry[x], e, p)
  PROVE  Good(x, entry[x], e, p)
<1>1. /\ StateOK(port)
      /\ HasReceive(entry[x]) => ~port.limbo /\ port.receiver = x
  BY AtPlace
<1>2. QED
  BY <1>1 DEF Good, StateOK, ReceiverKept

LEMMA MakeSendOnceInv ==
  ASSUME Inv, NEW x \in Places, MakeSendOnce(x)
  PROVE  Inv'
<1> DEFINE f == entry[x]
           p == [port EXCEPT !.sorights = @ + 1, !.refs = @ + 1, !.sonces = @ + 1]
<1>1. Puts(x, f, p) /\ HasReceive(f)
  BY DEF MakeSendOnce
<1>2. /\ port \in PortType /\ NoSendersOK(port) /\ port.active
      /\ f \in EntryType /\ EntryOK(f)
  BY <1>1, AtPlace
<1>3. p \in PortType
  BY <1>2, PortFields DEF PortType
<1>4. /\ p.active /\ p.receiver = port.receiver /\ p.limbo = port.limbo
      /\ p.dying = port.dying /\ p.left = port.left /\ NoSendersOK(p)
  BY <1>2 DEF PortType, NoSendersOK
<1>5. RefsKept(f, f, p) /\ RightsKept(f, f, p)
  BY <1>2 DEF PortType, RefsKept, RightsKept, Hanging, One
<1>6. NameKept(x, f, f) /\ RequestKept(x, f, f, p)
  BY <1>2 DEF PortType, RequestKept, NameKept
<1>7. QED
  BY <1>1, <1>2, <1>3, <1>4, <1>5, <1>6, LiveGood, PutsInv

LEMMA CopySendInv ==
  ASSUME Inv, NEW x \in Places, CopySend(x)
  PROVE  Inv'
<1> DEFINE f == entry[x]
           p == [port EXCEPT !.srights = @ + 1, !.refs = @ + 1, !.sends = @ + 1]
<1>1. Puts(x, f, p) /\ HasSend(f) /\ port.active
  BY DEF CopySend
<1>2. /\ port \in PortType /\ NoSendersOK(port) /\ port.srights >= 1
      /\ f \in EntryType /\ EntryOK(f)
  BY <1>1, AtPlace
<1>3. p \in PortType
  BY <1>2, PortFields DEF PortType
<1>4. /\ p.active /\ p.receiver = port.receiver /\ p.limbo = port.limbo
      /\ p.dying = port.dying /\ p.left = port.left /\ NoSendersOK(p)
  BY <1>1, <1>2 DEF PortType, NoSendersOK
<1>5. RefsKept(f, f, p) /\ RightsKept(f, f, p)
  BY <1>2 DEF PortType, RefsKept, RightsKept, Hanging, One
<1>6. NameKept(x, f, f) /\ RequestKept(x, f, f, p)
  BY <1>2 DEF PortType, RequestKept, NameKept
<1>7. QED
  BY <1>1, <1>2, <1>3, <1>4, <1>5, <1>6, LiveGood, PutsInv

\* The receive right goes to a message: its port is in limbo.
LEMMA MoveReceiveInv ==
  ASSUME Inv, NEW x \in Places, MoveReceive(x)
  PROVE  Inv'
<1> DEFINE f == entry[x]
           c == ClearReceiver(port)
           p == [c EXCEPT !.limbo = TRUE]
<1>1. HasReceive(f)
  BY DEF MoveReceive, HasReceive
<1>2. /\ port \in PortType /\ StateOK(port) /\ NoSendersOK(port)
      /\ port.active /\ ~port.limbo /\ ~port.dying
      /\ f \in EntryType /\ EntryOK(f)
  BY <1>1, AtPlace DEF StateOK
<1>3. /\ c \in PortType /\ NoSendersOK(c)
      /\ c = [port EXCEPT !.mscount = 0, !.told = None, !.receiver = None]
  BY <1>2, ClearedFields
<1>4. /\ c.active /\ c.refs = port.refs /\ c.srights = port.srights
      /\ c.sorights = port.sorights /\ c.requests = port.requests
      /\ ~c.dying /\ c.sends = port.sends /\ c.sonces = port.sonces
      /\ c.left = port.left
  BY <1>2, <1>3 DEF PortType
<1>5. /\ p \in PortType /\ p.active /\ p.refs = port.refs
      /\ p.srights = port.srights /\ p.sorights = port.sorights
      /\ p.requests = port.requests /\ ~p.dying /\ p.sends = port.sends
      /\ p.sonces = port.sonces /\ p.left = port.left /\ p.limbo
      /\ NoSendersOK(p)
  <2>1. c \in PortType  BY <1>3
  <2>2. QED  BY <2>1, <1>3, <1>4 DEF PortType, NoSendersOK
<1>6. CASE f.type = "both"
  <2> DEFINE e == [f EXCEPT !.type = "send"]
             q == [p EXCEPT !.refs = @ + 1]
  <2>1. Puts(x, e, q)
    BY <1>6 DEF MoveReceive
  <2>2. /\ e \in EntryType /\ EntryOK(e) /\ e.req = f.req
        /\ HasSend(e) /\ HasSend(f) /\ ~HasReceive(e) /\ IsRef(e) /\ IsRef(f)
        /\ e.type # "sonce" /\ f.type # "sonce"
    BY <1>2, <1>6
       DEF EntryType, EntryOK, HasSend, HasReceive, IsRef, Types
  <2>3. p \in PortType
    BY <1>5
  <2>4. /\ q \in PortType /\ q.active /\ q.refs = port.refs + 1
        /\ q.srights = port.srights /\ q.sorights = port.sorights
        /\ q.requests = port.requests /\ ~q.dying /\ q.sends = port.sends
        /\ q.sonces = port.sonces /\ q.left = port.left /\ q.limbo
        /\ NoSendersOK(q)
    <3>1. p.refs + 1 \in Int
      BY <2>3, PortFields
    <3>2. QED
      BY <3>1, <2>3, <1>5 DEF PortType, NoSendersOK
  <2>5. RefsKept(f, e, q) /\ RightsKept(f, e, q)
    BY <1>2, <2>2, <2>4 DEF PortType, RefsKept, RightsKept, Hanging, One
  <2>6. Good(x, f, e, q)
    BY <1>1, <1>2, <2>2, <2>4, <2>5
       DEF Good, StateOK, ReceiverKept, NameKept, Names1, RequestKept
  <2>7. QED  BY <2>1, <2>6, PutsInv
<1>7. CASE f.type = "receive"
  <2> DEFINE q == Cancelled(p, f)
  <2>1. Puts(x, Unused, q)
    BY <1>7 DEF MoveReceive
  <2>2. ~HasSend(f) /\ IsRef(f) /\ f.type # "sonce"
    BY <1>7 DEF HasSend, IsRef
  <2>0. p \in PortType /\ p.requests = port.requests /\ f \in EntryType
    BY <1>2, <1>5
  <2> HIDE DEF p, f
  <2>3. /\ q \in PortType /\ q = [p EXCEPT !.requests = q.requests]
        /\ q.requests = IF f.req = None THEN port.requests
                        ELSE [port.requests EXCEPT ![f.req] = None]
    BY <2>0, CancelledFields
  <2> USE DEF f
  <2>4. /\ q.active /\ q.refs = port.refs
        /\ q.srights = port.srights /\ q.sorights = port.sorights
        /\ ~q.dying /\ q.sends = port.sends
        /\ q.sonces = port.sonces /\ q.left = port.left /\ q.limbo
        /\ NoSendersOK(q)
    BY <1>5, <2>3 DEF PortType, NoSendersOK
  <2>5. RefsKept(f, Unused, q) /\ RightsKept(f, Unused, q)
    <3> HIDE DEF q
    <3>1. RefsKept(f, Unused, q)
      BY <1>2, <2>2, <2>4, UnusedOK DEF PortType, RefsKept, Hanging, One
    <3>2. RightsKept(f, Unused, q)
      BY <1>2, <2>2, <2>4, UnusedOK DEF PortType, RightsKept, One
    <3>3. QED  BY <3>1, <3>2
  <2>6. q \in PortType /\ RequestKept(x, f, Unused, q)
    BY <2>3, UnusedOK DEF RequestKept
  <2>7. Good(x, f, Unused, q)
    BY <1>1, <1>2, <2>4, <2>5, <2>6, UnusedOK
       DEF Good, StateOK, ReceiverKept, NameKept, Names1, UnusedType
  <2>8. QED  BY <2>1, <2>7, PutsInv
<1>8. QED
  BY <1>6, <1>7 DEF MoveReceive

LEMMA MoveSendInv ==
  ASSUME Inv, NEW x \in Places, NEW k \in 1 .. 2, MoveSend(x, k)
  PROVE  Inv'
<1> DEFINE f == entry[x]
           e == SendEntry(f, k)
           own == IF f.urefs = k THEN 1 ELSE 0
           q == [port EXCEPT !.sends = @ + k, !.srights = @ + k - own]
           p == IF own = 1 /\ f.type = "send"
                THEN [Cancelled(q, f) EXCEPT !.refs = @ + k - 1]
                ELSE [q EXCEPT !.refs = @ + k]
<1>1. Puts(x, e, p) /\ HasSend(f) /\ port.active /\ f.urefs >= k
  BY DEF MoveSend
<1>2. /\ port \in PortType /\ NoSendersOK(port) /\ port.srights >= 1
      /\ f \in EntryType /\ EntryOK(f)
  BY <1>1, AtPlace
<1>3. /\ f.urefs \in Nat /\ f.type \in {"send", "both"} /\ IsRef(f)
      /\ f.type # "sonce" /\ k \in Nat /\ k >= 1 /\ own \in {0, 1}
  BY <1>1, <1>2 DEF EntryType, HasSend, IsRef
<1> HIDE DEF own
<1>4. /\ q \in PortType /\ q.sends = port.sends + k
      /\ q.srights = port.srights + k - own /\ q.refs = port.refs
      /\ q.active /\ q.receiver = port.receiver /\ q.limbo = port.limbo
      /\ q.dying = port.dying /\ q.left = port.left
      /\ q.sorights = port.sorights /\ q.sonces = port.sonces
      /\ q.requests = port.requests /\ NoSendersOK(q)
  <2>1. port.sends + k \in Nat /\ port.srights + k - own \in Int
    BY <1>2, <1>3, PortFields
  <2>2. /\ q \in PortType /\ q.sends = port.sends + k
        /\ q.srights = port.srights + k - own /\ q.refs = port.refs
        /\ q.active /\ q.receiver = port.receiver /\ q.limbo = port.limbo
        /\ q.dying = port.dying /\ q.left = port.left
        /\ q.sorights = port.sorights /\ q.sonces = port.sonces
        /\ q.requests = port.requests /\ q.told = port.told
        /\ q.mscount = port.mscount /\ q.nsrequest = port.nsrequest
        /\ q.forced = port.forced
    BY <1>1, <1>2, <2>1 DEF PortType
  <2>3. port.srights \in Int /\ port.srights + k - own >= 1
    BY <1>2, <1>3, PortFields
  <2>4. NoSendersOK(q)
    BY <1>1, <1>2, <2>2, <2>3 DEF NoSendersOK
  <2>5. QED  BY <2>2, <2>4
<1> HIDE DEF q
<1>5. CASE own = 1 /\ f.type = "send"
  <2> DEFINE c == Cancelled(q, f)
  <2>1. f.urefs = k
    BY <1>5 DEF own
  <2>2. e = Unused /\ p = [c EXCEPT !.refs = @ + k - 1]
    BY <1>3, <1>5, <2>1 DEF SendEntry
  <2>3. /\ c \in PortType /\ c = [q EXCEPT !.requests = c.requests]
        /\ c.requests = IF f.req = None THEN port.requests
                        ELSE [port.requests EXCEPT ![f.req] = None]
    BY <1>2, <1>4, CancelledFields
  <2>4. /\ c.sends = port.sends + k
        /\ c.srights = port.srights + k - 1 /\ c.refs = port.refs
        /\ c.active /\ c.receiver = port.receiver /\ c.limbo = port.limbo
        /\ c.dying = port.dying /\ c.left = port.left
        /\ c.sorights = port.sorights /\ c.sonces = port.sonces
        /\ NoSendersOK(c)
    BY <1>4, <1>5, <2>3 DEF PortType, NoSendersOK
  <2>5. c \in PortType /\ c.refs \in Int /\ c.refs + k - 1 \in Int
    BY <1>3, <2>3, PortFields
  <2> HIDE DEF c
  <2>6. /\ p \in PortType /\ p.sends = port.sends + k
        /\ p.srights = port.srights + k - 1 /\ p.refs = port.refs + k - 1
        /\ p.active /\ p.receiver = port.receiver /\ p.limbo = port.limbo
        /\ p.dying = port.dying /\ p.left = port.left
        /\ p.sorights = port.sorights /\ p.sonces = port.sonces
        /\ p.requests = c.requests /\ NoSendersOK(p)
    BY <2>2, <2>4, <2>5 DEF PortType, NoSendersOK
  <2> HIDE DEF p
  <2>7. ~HasReceive(f)
    BY <1>5 DEF HasReceive
  <2>8. RefsKept(f, e, p) /\ RightsKept(f, e, p)
    <3>1. RefsKept(f, e, p)
      BY <1>2, <1>3, <2>2, <2>6, UnusedOK DEF RefsKept, Hanging, One, PortType
    <3>2. RightsKept(f, e, p)
      BY <1>1, <1>2, <1>3, <2>2, <2>6, UnusedOK DEF RightsKept, One, PortType
    <3>3. QED  BY <3>1, <3>2
  <2>9. RequestKept(x, f, e, p) /\ NameKept(x, f, e)
    BY <2>2, <2>3, <2>6, UnusedOK DEF RequestKept, NameKept, Names1
  <2>10. QED
    BY <1>1, <2>2, <2>6, <2>7, <2>8, <2>9, UnusedOK, LiveGood, PutsInv
       DEF UnusedType
<1>6. CASE ~(own = 1 /\ f.type = "send")
  <2>1. p = [q EXCEPT !.refs = @ + k]
    BY <1>6
  <2>2. q.refs \in Int /\ q.refs + k \in Int
    BY <1>3, <1>4, PortFields
  <2>3. /\ p \in PortType /\ p.sends = port.sends + k
        /\ p.srights = port.srights + k - own /\ p.refs = port.refs + k
        /\ p.active /\ p.receiver = port.receiver /\ p.limbo = port.limbo
        /\ p.dying = port.dying /\ p.left = port.left
        /\ p.sorights = port.sorights /\ p.sonces = port.sonces
        /\ p.requests = port.requests /\ NoSendersOK(p)
    BY <1>4, <2>1, <2>2 DEF PortType, NoSendersOK
  <2> HIDE DEF p
  <2>4. /\ e \in EntryType /\ EntryOK(e) /\ IsRef(e) /\ e.type # "sonce"
        /\ e.req = f.req /\ (HasReceive(e) <=> HasReceive(f))
        /\ HasSend(e) <=> own = 0
    <3>1. CASE f.urefs = k
      <4>1. own = 1 /\ f.type = "both" /\ e = Entry("receive", 0, f.req)
        BY <1>3, <1>6, <3>1 DEF own, SendEntry
      <4>2. QED
        BY <1>2, <4>1
           DEF Entry, EntryType, EntryOK, Types, HasSend, HasReceive, IsRef
    <3>2. CASE f.urefs # k
      <4>1. own = 0 /\ e = [f EXCEPT !.urefs = f.urefs - k]
        BY <1>1, <1>3, <3>2 DEF own, SendEntry
      <4>2. f.urefs - k \in Nat /\ f.urefs - k >= 1
        BY <1>1, <1>3, <3>2
      <4>3. /\ e \in EntryType /\ e.type = f.type /\ e.req = f.req
            /\ e.urefs = f.urefs - k
        BY <1>2, <4>1, <4>2 DEF EntryType
      <4>4. e.urefs >= 1 /\ e.urefs < UrefsMax
        BY <1>1, <1>2, <1>3, <4>2, <4>3, PortRightsAssumption DEF EntryOK
      <4> HIDE DEF e
      <4>5. QED
        BY <1>1, <1>3, <4>1, <4>3, <4>4
           DEF EntryOK, HasSend, HasReceive, IsRef
    <3>3. QED  BY <3>1, <3>2
  <2>5. RefsKept(f, e, p) /\ RightsKept(f, e, p)
    <3>1. RefsKept(f, e, p)
      BY <1>2, <1>3, <2>3, <2>4 DEF RefsKept, Hanging, One, PortType
    <3>2. RightsKept(f, e, p)
      BY <1>1, <1>2, <1>3, <2>3, <2>4 DEF RightsKept, One, PortType
    <3>3. QED  BY <3>1, <3>2
  <2>6. RequestKept(x, f, e, p) /\ NameKept(x, f, e)
    BY <1>1, <2>3, <2>4 DEF RequestKept, NameKept, Names1
  <2>7. QED
    BY <1>1, <2>3, <2>4, <2>5, <2>6, LiveGood, PutsInv
<1>7. QED  BY <1>5, <1>6

LEMMA CopyDeadInv ==
  ASSUME Inv, NEW x \in Places, CopyDead(x)
  PROVE  Inv'
<1> DEFINE f == entry[x]
           g == Checked(f)
<1>1. g \in EntryType /\ EntryOK(g) /\ g.type = "dead"
  BY AtPlace, CheckedOK DEF CopyDead
<1>2. 1 \in Int /\ 1 <= g.urefs /\ g.urefs - 1 <= UrefsMax /\ g.req = None
  BY <1>1, PortRightsAssumption DEF EntryOK, EntryType
<1>3. PICK e \in {g, DeadEntry(g, 1)} : Puts(x, e, CheckedPort(f))
  BY DEF CopyDead
<1>4. /\ e \in EntryType /\ EntryOK(e)
      /\ e.type \in {"dead", "none"} /\ e.req = None
  BY <1>1, <1>2, <1>3, DeadEntryOK
<1>5. QED
  BY <1>1, <1>3, <1>4, DeadGood, PutsInv

\* A name that copyout finds is the space's only one, or unused and the space
\* has no other.
LEMMA FindsOK ==
  ASSUME NEW x \in Places, Finds(x), NEW e
  PROVE  /\ NameKept(x, entry[x], e) /\ port.active
         /\ HasSend(entry[x]) \/ HasReceive(entry[x]) \/ entry[x] = Unused
<1>1. x = <<x[1], x[2]>>
  BY DEF Places
<1>2. QED
  BY <1>1 DEF Finds, Known, NameKept, Names1

LEMMA CopyoutSendOnceInv ==
  ASSUME Inv, NEW x \in Places, CopyoutSendOnce(x)
  PROVE  Inv'
<1> DEFINE f == entry[x]
           e == Entry("sonce", 1, None)
           p == [port EXCEPT !.sonces = @ - 1]
<1>1. /\ Puts(x, e, p) /\ f = Unused /\ port.sonces > 0 /\ port.active
  BY DEF CopyoutSendOnce
<1>2. /\ port \in PortType /\ NoSendersOK(port)
  BY AtPlace
<1>3. /\ p \in PortType /\ p.sonces = port.sonces - 1 /\ p.refs = port.refs
      /\ p.srights = port.srights /\ p.sorights = port.sorights
      /\ p.sends = port.sends /\ p.active /\ p.receiver = port.receiver
      /\ p.limbo = port.limbo /\ p.dying = port.dying /\ p.left = port.left
      /\ p.requests = port.requests /\ NoSendersOK(p)
  <2>1. port.sonces - 1 \in Nat
    BY <1>1, <1>2 DEF PortType
  <2>2. QED
    BY <1>1, <1>2, <2>1 DEF PortType, NoSendersOK
<1>4. /\ e \in EntryType /\ EntryOK(e) /\ IsRef(e) /\ ~HasSend(e)
      /\ ~HasReceive(e) /\ e.type = "sonce" /\ e.req = None
  BY DEF Entry, EntryType, EntryOK, Types, IsRef, HasSend, HasReceive
<1> HIDE DEF p, e
<1>5. RefsKept(f, e, p)
  BY <1>1, <1>2, <1>3, <1>4, UnusedOK DEF RefsKept, Hanging, One, PortType
<1>6. RightsKept(f, e, p)
  BY <1>1, <1>2, <1>3, <1>4, UnusedOK DEF RightsKept, One, PortType
<1>7. RequestKept(x, f, e, p) /\ NameKept(x, f, e)
  BY <1>1, <1>3, <1>4, UnusedOK DEF RequestKept, NameKept, Names1
<1>8. QED
  BY <1>1, <1>3, <1>4, <1>5, <1>6, <1>7, UnusedOK, LiveGood, PutsInv

LEMMA CopyoutSendInv ==
  ASSUME Inv, NEW x \in Places, CopyoutSend(x)
  PROVE  Inv'
<1> DEFINE f == entry[x]
           p == [port EXCEPT !.sends = @ - 1]
           m == [p EXCEPT !.srights = @ - 1, !.refs = @ - 1]
           r == [p EXCEPT !.refs = @ - 1]
<1>1. Finds(x) /\ port.sends > 0 /\ port.active
  BY FindsOK DEF CopyoutSend
<1>2. /\ port \in PortType /\ NoSendersOK(port)
      /\ f \in EntryType /\ EntryOK(f) /\ f.urefs \in Nat
      /\ HasSend(f) => port.srights >= 2
      /\ UrefsMax \in Nat /\ UrefsMax > 2
  BY <1>1, AtPlace, PortRightsAssumption DEF EntryType
<1>3. \A e : NameKept(x, f, e)
  BY <1>1, FindsOK
<1>4. /\ p \in PortType /\ p.sends = port.sends - 1 /\ p.refs = port.refs
      /\ p.srights = port.srights /\ p.sorights = port.sorights
      /\ p.sonces = port.sonces /\ p.active /\ p.receiver = port.receiver
      /\ p.limbo = port.limbo /\ p.dying = port.dying /\ p.left = port.left
      /\ p.requests = port.requests /\ NoSendersOK(p) /\ p.told = port.told
      /\ p.mscount = port.mscount /\ p.nsrequest = port.nsrequest
      /\ p.forced = port.forced
  <2>1. port.sends - 1 \in Nat
    BY <1>1, <1>2 DEF PortType
  <2>2. QED
    BY <1>1, <1>2, <2>1 DEF PortType, NoSendersOK
<1>5. p.refs - 1 \in Int /\ p.srights - 1 \in Int
  BY <1>4, PortFields
<1> HIDE DEF p
<1>6. ASSUME NEW e, HasSend(f), Puts(x, e, m),
             e = f \/ (f.urefs + 1 # UrefsMax /\ e = [f EXCEPT !.urefs = @ + 1])
      PROVE  Inv'
  <2>1. /\ e \in EntryType /\ EntryOK(e) /\ e.type = f.type /\ e.req = f.req
    <3>1. CASE e = f
      BY <1>2, <3>1
    <3>2. CASE f.urefs + 1 # UrefsMax /\ e = [f EXCEPT !.urefs = @ + 1]
      <4>1. /\ e \in EntryType /\ e.type = f.type /\ e.req = f.req
            /\ e.urefs = f.urefs + 1
        BY <1>2, <3>2 DEF EntryType
      <4>2. e.urefs >= 1 /\ e.urefs < UrefsMax
        BY <1>2, <1>6, <3>2, <4>1 DEF EntryOK
      <4>3. QED
        BY <1>6, <4>1, <4>2 DEF EntryOK, HasSend
    <3>3. QED  BY <1>6, <3>1, <3>2
  <2>2. /\ m \in PortType /\ m.sends = port.sends - 1
        /\ m.refs = port.refs - 1 /\ m.srights = port.srights - 1
        /\ m.sorights = port.sorights
        /\ m.sonces = port.sonces /\ m.active /\ m.receiver = port.receiver
        /\ m.limbo = port.limbo /\ m.dying = port.dying /\ m.left = port.left
        /\ m.requests = port.requests /\ m.told = port.told
        /\ m.mscount = port.mscount /\ m.nsrequest = port.nsrequest
        /\ m.forced = port.forced
    BY <1>4, <1>5 DEF PortType
  <2>3. port.srights \in Int /\ port.srights >= 2
    BY <1>2, <1>6, PortFields
  <2> HIDE DEF m
  <2>4. NoSendersOK(m)
    BY <1>1, <1>2, <2>2, <2>3 DEF NoSendersOK
  <2>5. /\ HasSend(e) <=> HasSend(f)
        /\ HasReceive(e) <=> HasReceive(f)
        /\ IsRef(e) <=> IsRef(f)
    BY <2>1 DEF HasSend, HasReceive, IsRef
  <2>6. RefsKept(f, e, m)
    BY <1>2, <2>2, <2>5 DEF RefsKept, Hanging, One, PortType
  <2>7. RightsKept(f, e, m)
    BY <1>2, <2>1, <2>2, <2>5 DEF RightsKept, One, PortType
  <2>8. RequestKept(x, f, e, m)
    BY <2>1, <2>2 DEF RequestKept
  <2>9. QED
    BY <1>1, <1>3, <1>6, <2>1, <2>2, <2>4, <2>5, <2>6, <2>7, <2>8,
       LiveGood, PutsInv
<1>7. ASSUME f.type = "receive", Puts(x, Entry("both", 1, f.req), r)
      PROVE  Inv'
  <2> DEFINE e == Entry("both", 1, f.req)
  <2>1. /\ e \in EntryType /\ EntryOK(e) /\ e.req = f.req
        /\ HasSend(e) /\ HasReceive(e) /\ IsRef(e) /\ e.type # "sonce"
        /\ ~HasSend(f) /\ HasReceive(f) /\ IsRef(f) /\ f.type # "sonce"
    BY <1>2, <1>7
       DEF Entry, EntryType, EntryOK, Types, HasSend, HasReceive, IsRef
  <2>2. /\ r \in PortType /\ r.sends = port.sends - 1
        /\ r.refs = port.refs - 1 /\ r.srights = port.srights
        /\ r.sorights = port.sorights
        /\ r.sonces = port.sonces /\ r.active /\ r.receiver = port.receiver
        /\ r.limbo = port.limbo /\ r.dying = port.dying /\ r.left = port.left
        /\ r.requests = port.requests /\ NoSendersOK(r)
    BY <1>4, <1>5 DEF PortType, NoSendersOK
  <2> HIDE DEF r, e
  <2>3. RefsKept(f, e, r)
    BY <1>2, <2>1, <2>2 DEF RefsKept, Hanging, One, PortType
  <2>4. RightsKept(f, e, r)
    BY <1>2, <2>1, <2>2 DEF RightsKept, One, PortType
  <2>5. RequestKept(x, f, e, r)
    BY <2>1, <2>2 DEF RequestKept
  <2>6. Puts(x, e, r)
    BY <1>7 DEF e
  <2>7. QED
    BY <1>1, <1>3, <2>1, <2>2, <2>3, <2>4, <2>5, <2>6, LiveGood, PutsInv
<1>8. ASSUME f.type = "none", Puts(x, Entry("send", 1, None), p)
      PROVE  Inv'
  <2> DEFINE e == Entry("send", 1, None)
  <2>1. /\ e \in EntryType /\ EntryOK(e) /\ e.req = None /\ f.req = None
        /\ HasSend(e) /\ ~HasReceive(e) /\ IsRef(e) /\ e.type # "sonce"
        /\ ~HasSend(f) /\ ~HasReceive(f) /\ ~IsRef(f) /\ f.type # "sonce"
    BY <1>2, <1>8
       DEF Entry, EntryType, EntryOK, Types, HasSend, HasReceive, IsRef
  <2> HIDE DEF e
  <2>2. RefsKept(f, e, p)
    BY <1>2, <1>4, <2>1 DEF RefsKept, Hanging, One, PortType
  <2>3. RightsKept(f, e, p)
    BY <1>2, <1>4, <2>1 DEF RightsKept, One, PortType
  <2>4. RequestKept(x, f, e, p)
    BY <1>4, <2>1 DEF RequestKept
  <2>5. Puts(x, e, p)
    BY <1>8 DEF e
  <2>6. QED
    BY <1>1, <1>3, <1>4, <2>1, <2>2, <2>3, <2>4, <2>5, LiveGood, PutsInv
<1>9. QED
  BY <1>6, <1>7, <1>8 DEF CopyoutSend, p

LEMMA CopyoutReceiveInv ==
  ASSUME Inv, NEW x \in Places, CopyoutReceive(x)
  PROVE  Inv'
<1> DEFINE f == entry[x]
           p == [port EXCEPT !.limbo = FALSE, !.receiver = x]
           r == [p EXCEPT !.refs = @ - 1]
<1>1. Finds(x) /\ port.limbo /\ port.active
  BY FindsOK DEF CopyoutReceive
<1>2. /\ port \in PortType /\ NoSendersOK(port) /\ StateOK(port)
      /\ f \in EntryType /\ EntryOK(f)
  BY AtPlace
<1>3. \A e : NameKept(x, f, e)
  BY <1>1, FindsOK
<1>4. /\ p \in PortType /\ p.sends = port.sends /\ p.refs = port.refs
      /\ p.srights = port.srights /\ p.sorights = port.sorights
      /\ p.sonces = port.sonces /\ p.active /\ p.receiver = x
      /\ ~p.limbo /\ ~p.dying /\ ~port.dying /\ p.left = port.left
      /\ p.requests = port.requests /\ NoSendersOK(p)
  BY <1>1, <1>2 DEF PortType, NoSendersOK, StateOK
<1>5. p.refs - 1 \in Int
  BY <1>4, PortFields
<1> HIDE DEF p
<1>6. ASSUME f.type = "send", Puts(x, [f EXCEPT !.type = "both"], r)
      PROVE  Inv'
  <2> DEFINE e == [f EXCEPT !.type = "both"]
  <2>1. /\ e \in EntryType /\ EntryOK(e) /\ e.req = f.req
        /\ HasSend(e) /\ HasReceive(e) /\ IsRef(e) /\ e.type # "sonce"
        /\ HasSend(f) /\ IsRef(f) /\ f.type # "sonce"
    BY <1>2, <1>6
       DEF EntryType, EntryOK, Types, HasSend, HasReceive, IsRef
  <2>2. /\ r \in PortType /\ r.sends = port.sends
        /\ r.refs = port.refs - 1 /\ r.srights = port.srights
        /\ r.sorights = port.sorights
        /\ r.sonces = port.sonces /\ r.active /\ r.receiver = x
        /\ ~r.limbo /\ ~r.dying /\ r.left = port.left
        /\ r.requests = port.requests /\ NoSendersOK(r)
    BY <1>4, <1>5 DEF PortType, NoSendersOK
  <2> HIDE DEF r, e
  <2>3. RefsKept(f, e, r)
    BY <1>1, <1>2, <1>4, <2>1, <2>2 DEF RefsKept, Hanging, One, PortType
  <2>4. RightsKept(f, e, r)
    BY <1>2, <2>1, <2>2 DEF RightsKept, One, PortType
  <2>5. RequestKept(x, f, e, r)
    BY <2>1, <2>2 DEF RequestKept
  <2>6. Puts(x, e, r)
    BY <1>6 DEF e
  <2>7. Good(x, f, e, r)
    BY <1>1, <1>3, <2>1, <2>2, <2>3, <2>4, <2>5 DEF Good, StateOK, ReceiverKept
  <2>8. QED
    BY <2>6, <2>7, PutsInv
<1>7. ASSUME f.type = "none", Puts(x, Entry("receive", 0, None), p)
      PROVE  Inv'
  <2> DEFINE e == Entry("receive", 0, None)
  <2>1. /\ e \in EntryType /\ EntryOK(e) /\ e.req = None /\ f.req = None
        /\ ~HasSend(e) /\ HasReceive(e) /\ IsRef(e) /\ e.type # "sonce"
        /\ ~HasSend(f) /\ ~HasReceive(f) /\ ~IsRef(f) /\ f.type # "sonce"
    BY <1>2, <1>7
       DEF Entry, EntryType, EntryOK, Types, HasSend, HasReceive, IsRef
  <2> HIDE DEF e
  <2>2. RefsKept(f, e, p)
    BY <1>1, <1>2, <1>4, <2>1 DEF RefsKept, Hanging, One, PortType
  <2>3. RightsKept(f, e, p)
    BY <1>2, <1>4, <2>1 DEF RightsKept, One, PortType
  <2>4. RequestKept(x, f, e, p)
    BY <1>4, <2>1 DEF RequestKept
  <2>5. Puts(x, e, p)
    BY <1>7 DEF e
  <2>6. Good(x, f, e, p)
    BY <1>1, <1>3, <1>4, <2>1, <2>2, <2>3, <2>4 DEF Good, StateOK, ReceiverKept
  <2>7. QED
    BY <2>5, <2>6, PutsInv
<1>8. QED
  BY <1>6, <1>7 DEF CopyoutReceive, p

\* A request changes nothing that is counted.
LEMMA SameGood ==
  ASSUME Inv, NEW x \in Places, HasReceive(entry[x]),
         NEW p \in PortType, NoSendersOK(p), p.active = port.active,
         p.receiver = port.receiver, p.refs = port.refs,
         p.srights = port.srights, p.sorights = port.sorights,
         p.sends = port.sends, p.sonces = port.sonces, p.limbo = port.limbo,
         p.dying = port.dying, p.left = port.left, p.requests = port.requests
  PROVE  Good(x, entry[x], entry[x], p)
<1>1. /\ port \in PortType /\ port.active
      /\ entry[x] \in EntryType /\ EntryOK(entry[x])
  BY AtPlace
<1>2. RefsKept(entry[x], entry[x], p) /\ RightsKept(entry[x], entry[x], p)
  BY <1>1 DEF RefsKept, RightsKept, Hanging
<1>3. NameKept(x, entry[x], entry[x]) /\ RequestKept(x, entry[x], entry[x], p)
  BY DEF NameKept, RequestKept
<1>4. QED
  BY <1>1, <1>2, <1>3, LiveGood

LEMMA RequestsInv ==
  ASSUME Inv, NEW x \in Places, Requests(x)
  PROVE  Inv'
<1> DEFINE f == entry[x]
           g == Checked(f)
           q == CheckedPort(f)
<1>1. /\ port \in PortType /\ NoSendersOK(port)
      /\ f \in EntryType /\ EntryOK(f) /\ g \in EntryType /\ EntryOK(g)
      /\ HasReceive(f) => port.active
  BY AtPlace, CheckedOK
<1>2. CASE DeadNameRequest(x)
  <2>1. CASE /\ g.type = "dead" /\ ~Overflows(g.urefs, 1)
             /\ Puts(x, [g EXCEPT !.urefs = @ + 1], q)
    <3> DEFINE e == [g EXCEPT !.urefs = @ + 1]
    <3>1. /\ e \in EntryType /\ EntryOK(e) /\ e.type = "dead" /\ e.req = None
      <4>1. /\ g.urefs \in Nat /\ g.urefs + 1 <= UrefsMax /\ g.req = None
            /\ g.urefs >= 1
        BY <1>1, <2>1, PortRightsAssumption DEF EntryType, EntryOK, Overflows
      <4>2. QED
        BY <1>1, <2>1, <4>1 DEF EntryType, EntryOK, HasSend
    <3>2. QED
      BY <2>1, <3>1, DeadGood, PutsInv
  <2>2. CASE g.type # "dead" /\ Denotes(x)
    <3>1. g = f /\ q = port /\ ~Stale(f)
      BY <2>2 DEF Checked, CheckedPort, Entry
    <3>2. port.active
      BY <1>1, <2>2, <3>1
         DEF Stale, Denotes, HasReceive, EntryType, Types, PortType
    <3>3. ASSUME NEW i \in Slots, port.requests[i] = None, f.req = None,
                 Puts(x, [f EXCEPT !.req = i],
                      [port EXCEPT !.requests[i] = x[2]])
          PROVE  Inv'
      <4> DEFINE e == [f EXCEPT !.req = i]
                 t == [port.requests EXCEPT ![i] = x[2]]
                 p == [port EXCEPT !.requests = t]
      <4>1. t \in Table
        BY <1>1 DEF PortType, Table, Places
      <4>2. p = [port EXCEPT !.requests[i] = x[2]]
        BY <1>1 DEF PortType
      <4>3. /\ e \in EntryType /\ EntryOK(e) /\ e.type = f.type /\ e.req = i
        BY <1>1, <2>2, <3>1 DEF EntryType, EntryOK, HasSend, Denotes
      <4> HIDE DEF t
      <4>4. /\ p \in PortType /\ NoSendersOK(p) /\ p.active = port.active
            /\ p.receiver = port.receiver /\ p.refs = port.refs
            /\ p.srights = port.srights /\ p.sorights = port.sorights
            /\ p.sends = port.sends /\ p.sonces = port.sonces
            /\ p.limbo = port.limbo /\ p.dying = port.dying
            /\ p.left = port.left /\ p.requests = t
        BY <1>1, <4>1 DEF PortType, NoSendersOK
      <4>5. RefsKept(f, e, p) /\ RightsKept(f, e, p) /\ NameKept(x, f, e)
        BY <1>1, <4>3, <4>4
           DEF RefsKept, RightsKept, NameKept, Hanging, One, IsRef, HasSend,
               HasReceive, Names1, PortType
      <4>6. RequestKept(x, f, e, p)
        BY <3>3, <4>3, <4>4 DEF RequestKept, t
      <4>7. HasReceive(e) <=> HasReceive(f)
        BY <4>3 DEF HasReceive
      <4>8. Good(x, f, e, p)
        BY <3>2, <4>3, <4>4, <4>5, <4>6, <4>7, LiveGood
      <4>9. QED
        BY <3>3, <4>2, <4>8, PutsInv
    <3>4. ASSUME f.req # None,
                 Puts(x, [f EXCEPT !.req = None], Cancelled(port, f))
          PROVE  Inv'
      <4> DEFINE e == [f EXCEPT !.req = None]
                 p == Cancelled(port, f)
      <4>1. /\ e \in EntryType /\ EntryOK(e) /\ e.type = f.type
            /\ e.req = None
        BY <1>1 DEF EntryType, EntryOK, HasSend
      <4>2. /\ p \in PortType /\ p = [port EXCEPT !.requests = p.requests]
            /\ p.requests = [port.requests EXCEPT ![f.req] = None]
        BY <1>1, <3>4, CancelledFields
      <4>3. p \in PortType
        BY <4>2
      <4> HIDE DEF p
      <4>4. /\ NoSendersOK(p) /\ p.active = port.active
            /\ p.receiver = port.receiver /\ p.refs = port.refs
            /\ p.srights = port.srights /\ p.sorights = port.sorights
            /\ p.sends = port.sends /\ p.sonces = port.sonces
            /\ p.limbo = port.limbo /\ p.dying = port.dying
            /\ p.left = port.left
        BY <1>1, <4>2 DEF PortType, NoSendersOK
      <4>5. RefsKept(f, e, p) /\ RightsKept(f, e, p) /\ NameKept(x, f, e)
        BY <1>1, <4>1, <4>4
           DEF RefsKept, RightsKept, NameKept, Hanging, One, IsRef, HasSend,
               HasReceive, Names1, PortType
      <4>6. RequestKept(x, f, e, p)
        BY <3>4, <4>1, <4>2 DEF RequestKept
      <4>7. HasReceive(e) <=> HasReceive(f)
        BY <4>1 DEF HasReceive
      <4>8. Good(x, f, e, p)
        BY <3>2, <4>1, <4>3, <4>4, <4>5, <4>6, <4>7, LiveGood
      <4>9. QED
        BY <3>4, <4>8, PutsInv DEF p
    <3>5. QED
      BY <1>2, <2>2, <3>1, <3>3, <3>4 DEF DeadNameRequest
  <2>3. QED
    BY <1>2, <2>1, <2>2 DEF DeadNameRequest
<1>3. CASE NoSendersRequest(x)
  <2>1. HasReceive(f)
    BY <1>3 DEF NoSendersRequest
  <2>2. ASSUME NEW n \in Nat \cup {None}, NEW t \in Nat \cup {None},
               NEW b \in BOOLEAN,
               Puts(x, f, [port EXCEPT !.nsrequest = n, !.told = t,
                                       !.forced = b]),
               \/ n = None /\ t = port.told
               \/ n = None /\ t = port.mscount /\ port.srights = 0
               \/ t = port.told /\ n # None
                  /\ (port.srights = 0 => n > port.mscount)
        PROVE  Inv'
    <3> DEFINE p == [port EXCEPT !.nsrequest = n, !.told = t, !.forced = b]
    <3>1. /\ p \in PortType /\ p.active = port.active
          /\ p.receiver = port.receiver /\ p.refs = port.refs
          /\ p.srights = port.srights /\ p.sorights = port.sorights
          /\ p.sends = port.sends /\ p.sonces = port.sonces
          /\ p.limbo = port.limbo /\ p.dying = port.dying
          /\ p.left = port.left /\ p.requests = port.requests
          /\ p.nsrequest = n /\ p.told = t /\ p.forced = b
          /\ p.mscount = port.mscount
      BY <1>1 DEF PortType
    <3>2. port.mscount \in Nat
      BY <1>1, PortFields
    <3> HIDE DEF p
    <3>3. NoSendersOK(p)
      BY <1>1, <2>2, <3>1, <3>2 DEF NoSendersOK
    <3>4. QED
      BY <2>1, <2>2, <3>1, <3>3, SameGood, PutsInv DEF p
  <2>3. /\ port.nsrequest \in Nat \cup {None} /\ port.told \in Nat \cup {None}
        /\ port.forced \in BOOLEAN /\ port.mscount \in Nat
        /\ None \notin Nat /\ Counts \subseteq Nat
    BY <1>1, PortRightsAssumption DEF PortType
  <2>4. ASSUME NEW c \in Counts,
               Puts(x, f,
               IF port.srights = 0 /\ c <= port.mscount
               THEN [port EXCEPT !.nsrequest = None, !.told = port.mscount]
               ELSE [port EXCEPT !.nsrequest = c, !.forced = FALSE])
        PROVE  Inv'
    <3>1. CASE port.srights = 0 /\ c <= port.mscount
      <4>1. [port EXCEPT !.nsrequest = None, !.told = port.mscount]
              = [port EXCEPT !.nsrequest = None, !.told = port.mscount,
                             !.forced = port.forced]
        BY <1>1 DEF PortType
      <4>2. QED  BY <2>2, <2>3, <2>4, <3>1, <4>1
    <3>2. CASE ~(port.srights = 0 /\ c <= port.mscount)
      <4>1. [port EXCEPT !.nsrequest = c, !.forced = FALSE]
              = [port EXCEPT !.nsrequest = c, !.told = port.told,
                             !.forced = FALSE]
        BY <1>1 DEF PortType
      <4>2. c \in Nat /\ c # None /\ (port.srights = 0 => c > port.mscount)
        BY <2>3, <3>2
      <4>3. QED  BY <2>2, <2>3, <2>4, <3>2, <4>1, <4>2
    <3>3. QED  BY <3>1, <3>2
  <2>5. CASE Puts(x, f, [port EXCEPT !.nsrequest = None])
    <3>1. [port EXCEPT !.nsrequest = None]
            = [port EXCEPT !.nsrequest = None, !.told = port.told,
                           !.forced = port.forced]
      BY <1>1 DEF PortType
    <3>2. QED  BY <2>2, <2>3, <2>5, <3>1
  <2>6. QED
    BY <1>3, <2>4, <2>5 DEF NoSendersRequest
<1>4. CASE PortDestroyedRequest(x)
  <2>1. PICK b \in BOOLEAN : Puts(x, f, [port EXCEPT !.pdrequest = b])
    BY <1>4 DEF PortDestroyedRequest
  <2> DEFINE p == [port EXCEPT !.pdrequest = b]
  <2>2. /\ p \in PortType /\ NoSendersOK(p) /\ p.active = port.active
        /\ p.receiver = port.receiver /\ p.refs = port.refs
        /\ p.srights = port.srights /\ p.sorights = port.sorights
        /\ p.sends = port.sends /\ p.sonces = port.sonces
        /\ p.limbo = port.limbo /\ p.dying = port.dying
        /\ p.left = port.left /\ p.requests = port.requests
    BY <1>1 DEF PortType, NoSendersOK
  <2>3. HasReceive(f)
    BY <1>4 DEF PortDestroyedRequest
  <2>4. QED
    BY <2>1, <2>2, <2>3, SameGood, PutsInv
<1>5. CASE SetMscount(x)
  <2>1. PICK c \in Counts :
          Puts(x, f, [port EXCEPT !.mscount = c, !.told = None,
                                  !.forced = port.nsrequest # None])
    BY <1>5 DEF SetMscount
  <2> DEFINE b == port.nsrequest # None
             p == [port EXCEPT !.mscount = c, !.told = None, !.forced = b]
  <2>2. c \in Nat /\ b \in BOOLEAN
    BY PortRightsAssumption
  <2>3. /\ p.nsrequest # None => b
    BY <1>1 DEF PortType
  <2> HIDE DEF b
  <2>4. /\ p \in PortType /\ NoSendersOK(p) /\ p.active = port.active
        /\ p.receiver = port.receiver /\ p.refs = port.refs
        /\ p.srights = port.srights /\ p.sorights = port.sorights
        /\ p.sends = port.sends /\ p.sonces = port.sonces
        /\ p.limbo = port.limbo /\ p.dying = port.dying
        /\ p.left = port.left /\ p.requests = port.requests
    BY <1>1, <2>2, <2>3 DEF PortType, NoSendersOK
  <2>5. HasReceive(f) /\ Puts(x, f, p)
    BY <1>5, <2>1 DEF SetMscount, b
  <2>6. QED
    BY <2>4, <2>5, SameGood, PutsInv
<1>6. QED
  BY <1>2, <1>3, <1>4, <1>5 DEF Requests

\* A step on the port alone.
LEMMA BecomesInv ==
  ASSUME Inv, NEW p \in PortType, Becomes(p), StateOK(p), NoSendersOK(p),
         p.active => port.active,
         p.refs - Hanging(p) = port.refs - Hanging(port),
         p.active =>
           /\ p.srights - p.sends - p.left = port.srights - port.sends - port.left
           /\ p.sorights - p.sonces = port.sorights - port.sonces
           /\ p.left = 0 => port.left = 0 /\ p.requests = port.requests,
         p.active /\ ~p.limbo =>
           port.active /\ ~port.limbo /\ p.receiver = port.receiver,
         ~(p.active /\ ~p.limbo) => ~(port.active /\ ~port.limbo)
  PROVE  Inv'
<1>1. /\ port' = p /\ entry' = entry /\ alive' = alive
      /\ TypeOK /\ port \in PortType
      /\ \A y \in Places : EntryOK(entry[y])
  BY DEF Becomes, Inv, TypeOK
<1>2. TypeOK'
  BY <1>1 DEF TypeOK
<1>3. RefsCounted' /\ RightsCounted'
  <2> DEFINE f == Unused
  <2>1. RefsKept(f, f, p) /\ LiveKept(f, f, p)
    BY <1>1 DEF RefsKept, LiveKept, RightsKept, Hanging, One, PortType
  <2>2. Replaced(f, f, p)
    <3>1. ASSUME NEW types
          PROVE  /\ Holding(types)' = Holding(types)
                 /\ Cardinality(Holding(types)) \in Nat
      BY <1>1, HoldingFinite DEF Holding
    <3>2. \A types : Cardinality(Holding(types))' = Cardinality(Holding(types))
                     /\ Cardinality(Holding(types)) \in Nat
      BY <3>1
    <3>3. \A types : One(f.type \in types) \in Int
      BY DEF One
    <3>5. f \in EntryType
      BY UnusedOK DEF UnusedType
    <3> HIDE DEF f
    <3>4. QED  BY <1>1, <3>2, <3>3, <3>5 DEF Replaced
  <2>4. QED
    BY <2>1, <2>2, Counted DEF Inv
<1>4. ReceiverOK' /\ OneName' /\ MatchOK'
  BY <1>1 DEF Inv, ReceiverOK, Receivers, OneName, MatchOK
<1>5. QED
  BY <1>1, <1>2, <1>3, <1>4 DEF Inv, EntryOK, StateOK, NoSendersOK, HasSend

\* A send right that exists is counted.
LEMMA SendsCounted ==
  ASSUME Inv, port.active, port.sends > 0
  PROVE  port.srights >= 1
<1>1. port.srights = Cardinality(Holding({"send", "both"})) + port.sends + port.left
  BY DEF Inv, RightsCounted
<1>2. Cardinality(Holding({"send", "both"})) \in Nat
  BY HoldingFinite
<1>3. port.sends \in Nat /\ port.left \in Nat
  BY DEF Inv, TypeOK, PortType
<1>4. QED
  BY <1>1, <1>2, <1>3

LEMMA ReleaseSendInv ==
  ASSUME Inv, ReleaseSend
  PROVE  Inv'
<1> DEFINE q == [port EXCEPT !.sends = @ - 1, !.refs = @ - 1]
<1>1. /\ port \in PortType /\ StateOK(port) /\ NoSendersOK(port)
      /\ port.sends > 0
      /\ Becomes(IF port.active THEN LoseSend(q) ELSE q)
  BY DEF Inv, TypeOK, ReleaseSend
<1>2. port.active => port.srights >= 1
  BY <1>1, SendsCounted
<1>3. port.sends - 1 \in Nat /\ port.refs - 1 \in Int
  BY <1>1 DEF PortType
<1>4. /\ q \in PortType /\ q.active = port.active
      /\ q.receiver = port.receiver /\ q.refs = port.refs - 1
      /\ q.srights = port.srights /\ q.sorights = port.sorights
      /\ q.sends = port.sends - 1 /\ q.sonces = port.sonces
      /\ q.limbo = port.limbo /\ q.dying = port.dying
      /\ q.left = port.left /\ q.requests = port.requests
      /\ NoSendersOK(q)
  BY <1>1, <1>3 DEF PortType, NoSendersOK
<1> HIDE DEF q
<1>5. CASE port.active
  <2> DEFINE l == LoseSend(q)
  <2>1. /\ l \in PortType /\ l.active = port.active
        /\ l.receiver = port.receiver /\ l.refs = port.refs - 1
        /\ l.srights = port.srights - 1 /\ l.sorights = port.sorights
        /\ l.sends = port.sends - 1 /\ l.sonces = port.sonces
        /\ l.limbo = port.limbo /\ l.dying = port.dying
        /\ l.left = port.left /\ l.requests = port.requests
    BY <1>4, LoseSendFields
  <2>2. NoSendersOK(l)
    BY <1>2, <1>4, <1>5, LoseSendNoSenders
  <2> HIDE DEF l
  <2>3. Becomes(l)
    BY <1>1, <1>5 DEF l
  <2>4. StateOK(l)
    BY <1>1, <2>1 DEF StateOK
  <2>5. l.refs - Hanging(l) = port.refs - Hanging(port)
    BY <1>1, <2>1 DEF Hanging, One, PortType
  <2>6. /\ l.srights - l.sends - l.left = port.srights - port.sends - port.left
        /\ l.sorights - l.sonces = port.sorights - port.sonces
    BY <1>1, <2>1 DEF PortType
  <2>7. QED
    BY <1>5, <2>1, <2>2, <2>3, <2>4, <2>5, <2>6, BecomesInv
<1>6. CASE ~port.active
  <2>1. Becomes(q) /\ StateOK(q)
    BY <1>1, <1>4, <1>6 DEF StateOK
  <2>2. q.refs - Hanging(q) = port.refs - Hanging(port)
    BY <1>1, <1>4 DEF Hanging, One, PortType
  <2>3. QED
    BY <1>4, <1>6, <2>1, <2>2, BecomesInv
<1>7. QED  BY <1>5, <1>6

LEMMA ReleaseSendOnceInv ==
  ASSUME Inv, ReleaseSendOnce
  PROVE  Inv'
<1> DEFINE q == [port EXCEPT !.sonces = @ - 1, !.refs = @ - 1]
           r == [q EXCEPT !.sorights = @ - 1]
<1>1. /\ port \in PortType /\ StateOK(port) /\ NoSendersOK(port)
      /\ port.sonces > 0
      /\ Becomes(IF port.active THEN r ELSE q)
  BY DEF Inv, TypeOK, ReleaseSendOnce
<1>2. port.sonces - 1 \in Nat /\ port.refs - 1 \in Int
  BY <1>1 DEF PortType
<1>3. /\ q \in PortType /\ q.active = port.active
      /\ q.receiver = port.receiver /\ q.refs = port.refs - 1
      /\ q.srights = port.srights /\ q.sorights = port.sorights
      /\ q.sends = port.sends /\ q.sonces = port.sonces - 1
      /\ q.limbo = port.limbo /\ q.dying = port.dying
      /\ q.left = port.left /\ q.requests = port.requests
      /\ NoSendersOK(q)
  BY <1>1, <1>2 DEF PortType, NoSendersOK
<1>4. q.sorights - 1 \in Int
  BY <1>3, PortFields
<1> HIDE DEF q
<1>5. /\ r \in PortType /\ r.active = port.active
      /\ r.receiver = port.receiver /\ r.refs = port.refs - 1
      /\ r.srights = port.srights /\ r.sorights = port.sorights - 1
      /\ r.sends = port.sends /\ r.sonces = port.sonces - 1
      /\ r.limbo = port.limbo /\ r.dying = port.dying
      /\ r.left = port.left /\ r.requests = port.requests
      /\ NoSendersOK(r)
  BY <1>3, <1>4 DEF PortType, NoSendersOK
<1> HIDE DEF r
<1>6. CASE port.active
  <2>1. Becomes(r) /\ StateOK(r)
    BY <1>1, <1>5, <1>6 DEF StateOK
  <2>2. r.refs - Hanging(r) = port.refs - Hanging(port)
    BY <1>1, <1>5 DEF Hanging, One, PortType
  <2>3. /\ r.srights - r.sends - r.left = port.srights - port.sends - port.left
        /\ r.sorights - r.sonces = port.sorights - port.sonces
    BY <1>1, <1>5 DEF PortType
  <2>4. QED
    BY <1>5, <1>6, <2>1, <2>2, <2>3, BecomesInv
<1>7. CASE ~port.active
  <2>1. Becomes(q) /\ StateOK(q)
    BY <1>1, <1>3, <1>7 DEF StateOK
  <2>2. q.refs - Hanging(q) = port.refs - Hanging(port)
    BY <1>1, <1>3 DEF Hanging, One, PortType
  <2>3. QED
    BY <1>3, <1>7, <2>1, <2>2, BecomesInv
<1>8. QED  BY <1>6, <1>7

LEMMA ReleaseReceiveInv ==
  ASSUME Inv, ReleaseReceive
  PROVE  Inv'
<1> DEFINE q == [port EXCEPT !.limbo = FALSE]
           p == Destroyed(q)
<1>1. /\ port \in PortType /\ StateOK(port) /\ NoSendersOK(port)
      /\ port.limbo /\ Becomes(p)
  BY DEF Inv, TypeOK, ReleaseReceive
<1>2. port.active /\ ~port.dying
  BY <1>1 DEF StateOK
<1>3. /\ q \in PortType /\ q.active /\ q.refs = port.refs
      /\ q.srights = port.srights /\ q.sorights = port.sorights
      /\ q.sends = port.sends /\ q.sonces = port.sonces
      /\ ~q.limbo /\ ~q.dying /\ q.left = port.left
      /\ q.requests = port.requests /\ NoSendersOK(q)
  BY <1>1, <1>2 DEF PortType, NoSendersOK
<1> HIDE DEF q
<1>4. /\ p \in PortType /\ p.refs = port.refs /\ p.srights = port.srights
      /\ p.sorights = port.sorights /\ p.sends = port.sends
      /\ p.sonces = port.sonces /\ p.mscount = q.mscount
  BY <1>3, DestroyedFields
<1>5. CASE q.pdrequest
  <2>1. /\ p.limbo /\ p.active /\ ~p.dying /\ p.requests = port.requests
        /\ p.left = port.left /\ p.told = q.told
        /\ p.nsrequest = q.nsrequest /\ p.forced = q.forced
    BY <1>3, <1>5, DestroyedFields
  <2>2. StateOK(p) /\ NoSendersOK(p)
    BY <1>3, <1>4, <2>1 DEF StateOK, NoSendersOK
  <2>3. p.refs - Hanging(p) = port.refs - Hanging(port)
    BY <1>1, <1>2, <1>4, <2>1 DEF Hanging, One, PortType
  <2>4. QED
    BY <1>1, <1>2, <1>4, <2>1, <2>2, <2>3, BecomesInv
<1>6. CASE ~q.pdrequest
  <2>1. ~p.active /\ p.dying /\ ~p.limbo
    BY <1>3, <1>6, DestroyedFields
  <2>2. StateOK(p) /\ NoSendersOK(p)
    BY <2>1 DEF StateOK, NoSendersOK
  <2>3. p.refs - Hanging(p) = port.refs - Hanging(port)
    BY <1>1, <1>2, <1>4, <2>1 DEF Hanging, One, PortType
  <2>4. QED
    BY <1>1, <1>4, <2>1, <2>2, <2>3, BecomesInv
<1>7. QED  BY <1>5, <1>6

LEMMA DyingInv ==
  ASSUME Inv, NotifyDeadName \/ EndDestroy
  PROVE  Inv'
<1>1. port \in PortType /\ StateOK(port) /\ port.dying
  BY DEF Inv, TypeOK, NotifyDeadName, EndDestroy
<1>2. ~port.active /\ ~port.limbo
  BY <1>1 DEF StateOK
<1>3. ASSUME NEW i \in Slots, Becomes([port EXCEPT !.saved[i] = None])
      PROVE  Inv'
  <2> DEFINE t == [port.saved EXCEPT ![i] = None]
             p == [port EXCEPT !.saved = t]
  <2>1. t \in Table
    BY <1>1 DEF PortType, Table
  <2>2. Becomes(p)
    BY <1>1, <1>3 DEF PortType
  <2> HIDE DEF t
  <2>3. /\ p \in PortType /\ ~p.active /\ ~p.limbo /\ p.dying
        /\ p.refs = port.refs /\ p.sends = port.sends
        /\ p.sonces = port.sonces
    BY <1>1, <1>2, <2>1 DEF PortType
  <2> HIDE DEF p
  <2>4. StateOK(p) /\ NoSendersOK(p)
    BY <2>3 DEF StateOK, NoSendersOK
  <2>5. p.refs - Hanging(p) = port.refs - Hanging(port)
    BY <1>1, <1>2, <2>3 DEF Hanging, One, PortType
  <2>6. QED
    BY <1>2, <2>2, <2>3, <2>4, <2>5, BecomesInv
<1>4. CASE EndDestroy
  <2> DEFINE p == [port EXCEPT !.dying = FALSE, !.refs = @ - 1]
  <2>1. Becomes(p)
    BY <1>4 DEF EndDestroy
  <2>2. port.refs - 1 \in Int
    BY <1>1, PortFields
  <2>3. /\ p \in PortType /\ ~p.active /\ ~p.limbo /\ ~p.dying
        /\ p.refs = port.refs - 1 /\ p.sends = port.sends
        /\ p.sonces = port.sonces
    BY <1>1, <1>2, <2>2 DEF PortType
  <2> HIDE DEF p
  <2>4. StateOK(p) /\ NoSendersOK(p)
    BY <2>3 DEF StateOK, NoSendersOK
  <2>5. p.refs - Hanging(p) = port.refs - Hanging(port)
    BY <1>1, <1>2, <2>3 DEF Hanging, One, PortType
  <2>6. QED
    BY <1>2, <2>1, <2>3, <2>4, <2>5, BecomesInv
<1>5. QED
  BY <1>3, <1>4 DEF NotifyDeadName

LEMMA SpaceDiesInv ==
  ASSUME Inv, NEW s \in Spaces, SpaceDies(s)
  PROVE  Inv'
<1>1. port' = port /\ entry' = entry /\ alive' \subseteq Spaces
  BY DEF SpaceDies, Inv, TypeOK
<1>2. QED
  BY <1>1
     DEF Inv, TypeOK, EntryOK, StateOK, NoSendersOK, HasSend, RightsCounted,
         RefsCounted, Holding, ReceiverOK, Receivers, OneName, MatchOK

\* An entry, changed to e, moves from x to an unused y.
LEMMA HoldingMove ==
  ASSUME NEW types, NEW x \in Places, NEW y \in Places, NEW e, TypeOK,
         "none" \notin types, x # y, entry[y] = Unused,
         entry' = [entry EXCEPT ![x] = Unused, ![y] = e]
  PROVE  Cardinality(Holding(types))'
           = Cardinality(Holding(types))
             + One(e.type \in types) - One(entry[x].type \in types)
<1> DEFINE H == Holding(types)
           M == H \ {x}
           N == {z \in Places : entry'[z].type \in types}
<1>1. IsFiniteSet(H) /\ Cardinality(H) \in Nat
  BY HoldingFinite
<1>2. Holding(types)' = N
  BY DEF Holding, Places
<1>3. Unused.type \notin types
  BY DEF Unused, Entry
<1>4. N = IF e.type \in types THEN M \cup {y} ELSE M
  <2>1. \A z \in Places : entry'[z] = IF z = y THEN e
                                      ELSE IF z = x THEN Unused ELSE entry[z]
    BY DEF TypeOK
  <2>2. y \notin M
    BY <1>3 DEF Holding, Places
  <2>3. \A z \in Places : z \in M <=> z # x /\ entry[z].type \in types
    BY DEF Holding, Places
  <2>4. M \subseteq Places /\ N \subseteq Places
    BY DEF Holding, Places
  <2>5. \A z \in Places : z \in N <=> (z \in M \/ (z = y /\ e.type \in types))
    BY <1>3, <2>1, <2>2, <2>3
  <2> HIDE DEF M, N
  <2>6. QED
    BY <2>4, <2>5
<1>5. x \in H <=> entry[x].type \in types
  BY DEF Holding, Places
<1>6. /\ IsFiniteSet(M) /\ Cardinality(M) \in Nat
      /\ Cardinality(M) = Cardinality(H) - One(entry[x].type \in types)
  <2>1. IsFiniteSet(M)
        /\ Cardinality(M) = IF x \in H THEN Cardinality(H) - 1 ELSE Cardinality(H)
    BY <1>1, FS_RemoveElement
  <2>2. Cardinality(M) \in Nat
    BY <2>1, FS_CardinalityType
  <2>3. QED  BY <1>5, <2>1, <2>2, <1>1 DEF One
<1>7. y \notin M
  BY <1>3 DEF Holding, Places
<1>8. Cardinality(N) = Cardinality(M) + One(e.type \in types)
  <2>1. CASE e.type \in types
    <3>1. Cardinality(M \cup {y}) = Cardinality(M) + 1
      BY <1>6, <1>7, FS_AddElement
    <3>2. QED  BY <1>4, <2>1, <3>1 DEF One
  <2>2. CASE e.type \notin types
    <3>1. N = M /\ One(e.type \in types) = 0
      BY <1>4, <2>2 DEF One
    <3> HIDE DEF M, N
    <3>2. QED  BY <3>1, <1>6
  <2>3. QED  BY <2>1, <2>2
<1> HIDE DEF H, M, N
<1>9. Cardinality(N) = Cardinality(H) + One(e.type \in types)
                         - One(entry[x].type \in types)
  <2>1. One(e.type \in types) \in Int /\ One(entry[x].type \in types) \in Int
    BY DEF One
  <2>2. QED  BY <1>1, <1>6, <1>8, <2>1
<1>10. QED
  BY <1>2, <1>9 DEF H

LEMMA RenameInv ==
  ASSUME Inv, NEW x \in Places, NEW n \in Names, Rename(x, n)
  PROVE  Inv'
<1> DEFINE f == entry[x]
           y == <<x[1], n>>
           checks == f.req # None
           e == IF checks THEN Checked(f) ELSE f
           p == IF checks THEN CheckedPort(f) ELSE port
           q == IF e.req = None THEN p ELSE [p EXCEPT !.requests[e.req] = n]
           r == IF HasReceive(e) THEN [q EXCEPT !.receiver = y] ELSE q
<1>1. /\ y \in Places /\ y # x /\ y[1] = x[1] /\ y[2] = n
      /\ entry[y] = Unused /\ f.type # "none" /\ port' = r /\ alive' = alive
      /\ entry' = [entry EXCEPT ![x] = Unused, ![y] = e]
  BY DEF Rename, Denotes, Places, Unused, Entry
<1>2. /\ port \in PortType /\ StateOK(port) /\ NoSendersOK(port)
      /\ f \in EntryType /\ EntryOK(f)
      /\ HasReceive(f) => port.active /\ ~port.limbo /\ port.receiver = x
      /\ TypeOK /\ \A z \in Places : EntryOK(entry[z])
      /\ None \notin Names
  BY AtPlace, PortRightsAssumption DEF Inv
<1>3. e \in EntryType /\ EntryOK(e)
  BY <1>2, CheckedOK
<1> HIDE DEF y
<1>4. \A z \in Places : entry'[z] = IF z = y THEN e
                                    ELSE IF z = x THEN Unused ELSE entry[z]
  BY <1>1, <1>2 DEF TypeOK
<1>5. TypeOK' /\ \A z \in Places : EntryOK(entry'[z])
  <2>1. r \in PortType
    <3>1. p \in PortType
      <4>1. [port EXCEPT !.refs = @ - 1] \in PortType
        BY <1>2, PortFields DEF PortType
      <4>2. QED  BY <1>2, <4>1 DEF CheckedPort
    <3> HIDE DEF p, e
    <3>2. q \in PortType
      <4>1. CASE e.req = None
        BY <3>1, <4>1
      <4>2. CASE e.req # None
        <5>1. e.req \in Slots
          BY <1>3, <4>2 DEF EntryType
        <5>2. [p.requests EXCEPT ![e.req] = n] \in Table
          BY <3>1, <5>1 DEF PortType, Table
        <5>3. q = [p EXCEPT !.requests = [p.requests EXCEPT ![e.req] = n]]
          BY <3>1, <4>2 DEF PortType
        <5>4. QED
          BY <3>1, <5>2, <5>3 DEF PortType
      <4>3. QED  BY <4>1, <4>2
    <3> HIDE DEF q
    <3>3. QED
      BY <1>1, <3>2 DEF PortType
  <2>2. alive' \subseteq Spaces
    BY <1>1, <1>2 DEF TypeOK
  <2>3. entry' \in [Places -> EntryType]
    BY <1>1, <1>2, <1>3, UnusedOK DEF TypeOK, UnusedType
  <2>4. \A z \in Places : EntryOK(entry'[z])
    BY <1>2, <1>3, <1>4, UnusedOK DEF UnusedType
  <2>5. QED
    BY <1>1, <2>1, <2>2, <2>3, <2>4 DEF TypeOK
<1>6. r \in PortType
  BY <1>1, <1>5 DEF TypeOK
<1>7. \A types : "none" \notin types =>
        Cardinality(Holding(types))' = Cardinality(Holding(types))
          + One(e.type \in types) - One(f.type \in types)
  BY <1>1, <1>2, HoldingMove
<1>8. CASE checks /\ Stale(f)
  <2>1. /\ e = Entry("dead", f.urefs + 1, None) /\ ~port.active
        /\ p = [port EXCEPT !.refs = @ - 1] /\ IsRef(f) /\ ~HasReceive(f)
    BY <1>8 DEF Checked, CheckedPort, Stale, IsRef, HasReceive
  <2>2. /\ e.req = None /\ ~HasReceive(e) /\ ~HasSend(e) /\ ~IsRef(e)
    BY <2>1 DEF Entry, HasReceive, HasSend, IsRef
  <2>3. r = p
    BY <2>2
  <2>4. /\ ~r.active /\ r.limbo = port.limbo /\ r.dying = port.dying
        /\ r.sends = port.sends /\ r.sonces = port.sonces
        /\ r.refs = port.refs - 1
    BY <1>2, <2>1, <2>3 DEF PortType
  <2> HIDE DEF r, p, e
  <2>5. RefsKept(f, e, r) /\ LiveKept(f, e, r)
    <3>1. Hanging(r) = Hanging(port) /\ Hanging(port) \in Int /\ port.refs \in Int
      BY <1>2, <2>4 DEF Hanging, One, PortType
    <3>2. One(IsRef(e)) = 0 /\ One(IsRef(f)) = 1
      BY <2>1, <2>2 DEF One
    <3>3. QED  BY <2>4, <3>1, <3>2 DEF RefsKept, LiveKept
  <2>6. Replaced(f, e, r)
    BY <1>1, <1>2, <1>3, <1>6, <1>7 DEF Replaced, r
  <2>7. RefsCounted' /\ RightsCounted'
    BY <2>5, <2>6, Counted DEF Inv
  <2>8. port' = r
    BY <1>1 DEF r
  <2>9. StateOK(port)' /\ NoSendersOK(port)' /\ MatchOK'
    <3>1. StateOK(r) /\ NoSendersOK(r)
      BY <1>2, <2>1, <2>4 DEF StateOK, NoSendersOK
    <3>2. ~port'.active /\ StateOK(port') /\ NoSendersOK(port')
      BY <2>4, <2>8, <3>1
    <3>3. QED  BY <3>2 DEF StateOK, NoSendersOK, MatchOK
  <2>10. OneName'
    BY <1>1, <1>4, <2>1, <2>2, UnusedOK
       DEF Inv, OneName, Names1, HasSend, HasReceive
  <2>11. ReceiverOK'
    <3>1. Receivers = {}
      BY <2>1 DEF Inv, ReceiverOK
    <3>2. Receivers' = {}
      BY <1>4, <2>2, <3>1, UnusedOK DEF Receivers, HasReceive
    <3>3. QED
      BY <2>4, <2>8, <3>2 DEF ReceiverOK
  <2>12. QED
    BY <1>5, <2>7, <2>9, <2>10, <2>11 DEF Inv, EntryOK, HasSend
<1>9. CASE ~(checks /\ Stale(f))
  <2>1. e = f /\ p = port
    BY <1>9 DEF Checked, CheckedPort
  <2> DEFINE t == IF f.req = None THEN port.requests
                  ELSE [port.requests EXCEPT ![f.req] = n]
             v == IF HasReceive(f) THEN y ELSE port.receiver
  <2>2. r = [port EXCEPT !.requests = t, !.receiver = v]
    <3>1. q = [port EXCEPT !.requests = t]
      <4>1. CASE f.req = None
        BY <1>2, <2>1, <4>1 DEF PortType
      <4>2. CASE f.req # None
        BY <1>2, <2>1, <4>2 DEF PortType
      <4>3. QED  BY <4>1, <4>2
    <3> HIDE DEF q, t
    <3>2. CASE HasReceive(f)
      BY <1>2, <2>1, <3>1, <3>2 DEF PortType
    <3>3. CASE ~HasReceive(f)
      BY <1>2, <2>1, <3>1, <3>3 DEF PortType
    <3>4. QED  BY <3>2, <3>3
  <2> HIDE DEF r, p, e, t, v
  <2>3. /\ r.active = port.active /\ r.limbo = port.limbo
        /\ r.dying = port.dying /\ r.refs = port.refs
        /\ r.sends = port.sends /\ r.sonces = port.sonces
        /\ r.srights = port.srights /\ r.sorights = port.sorights
        /\ r.left = port.left /\ r.requests = t /\ r.receiver = v
        /\ r.told = port.told /\ r.nsrequest = port.nsrequest
        /\ r.forced = port.forced /\ r.mscount = port.mscount
    BY <1>2, <2>2 DEF PortType
  <2>4. port' = r
    BY <1>1 DEF r
  <2>5. RefsKept(f, e, r) /\ LiveKept(f, e, r)
    BY <2>1, <2>3 DEF RefsKept, LiveKept, RightsKept, Hanging
  <2>6. Replaced(f, e, r)
    BY <1>1, <1>2, <1>3, <1>6, <1>7, <2>4 DEF Replaced
  <2>7. RefsCounted' /\ RightsCounted'
    BY <2>5, <2>6, Counted DEF Inv
  <2>8. StateOK(port)' /\ NoSendersOK(port)'
    BY <1>2, <2>3, <2>4 DEF StateOK, NoSendersOK
  <2>9. OneName'
    BY <1>1, <1>4, <2>1, UnusedOK
       DEF Inv, OneName, Names1, HasSend, HasReceive
  <2>10. ReceiverOK'
    <3>1. CASE HasReceive(f)
      <4>1. Receivers = {x} /\ port.active /\ ~port.limbo
        BY <1>2, <3>1 DEF Inv, ReceiverOK
      <4>0. \A z \in Places : HasReceive(entry[z]) => z = x
        BY <4>1 DEF Receivers
      <4>2. Receivers' = {y}
        <5>1. \A z \in Places : HasReceive(entry'[z]) <=> z = y
          BY <1>4, <2>1, <3>1, <4>0, UnusedOK
        <5>2. Receivers' = {z \in Places : HasReceive(entry'[z])}
          BY DEF Receivers, HasReceive
        <5>3. QED  BY <1>1, <5>1, <5>2
      <4>3. QED
        BY <2>3, <2>4, <3>1, <4>1, <4>2 DEF ReceiverOK, v
    <3>2. CASE ~HasReceive(f)
      <4>1. Receivers' = Receivers
        BY <1>1, <1>4, <2>1, <3>2, UnusedOK DEF Receivers, HasReceive
      <4>2. QED
        BY <2>3, <2>4, <3>2, <4>1 DEF Inv, ReceiverOK, v
    <3>3. QED  BY <3>1, <3>2
  <2>11. MatchOK'
    <3>1. SUFFICES ASSUME port.active, port.left = 0
                   PROVE  MatchOK'
      BY <2>3, <2>4 DEF MatchOK
    <3>2. /\ \A z \in Places :
               entry[z].req # None => port.requests[entry[z].req] = z[2]
          /\ \A i \in Slots : port.requests[i] # None =>
               \E z \in Places : /\ entry[z].req = i
                                 /\ \A w \in Places : entry[w].req = i => w = z
          /\ \A z \in Places : z[2] # None
      BY <1>2, <3>1 DEF Inv, MatchOK, Places
    <3>3. \A z \in Places : entry'[z].req = IF z = y THEN f.req
                                            ELSE IF z = x THEN None ELSE entry[z].req
      BY <1>4, <2>1, UnusedOK
    <3>4. entry[y].req = None
      BY <1>1, UnusedOK
    <3>5. port.requests \in Table /\ f.req \in Slots \cup {None}
      BY <1>2 DEF PortType, EntryType
    <3> DEFINE Owner(z, j) == /\ entry'[z].req = j
                              /\ \A w \in Places : entry'[w].req = j => w = z
    <3>6. CASE f.req = None
      <4>1. \A z \in Places : entry'[z].req = entry[z].req
        BY <3>3, <3>4, <3>6
      <4>2. t = port.requests
        BY <3>6 DEF t
      <4>3. QED
        BY <2>3, <2>4, <3>2, <4>1, <4>2 DEF MatchOK
    <3>7. CASE f.req # None
      <4> DEFINE i == f.req
      <4>1. i \in Slots /\ port.requests[i] # None
        BY <3>2, <3>5, <3>7
      <4>2. \A j \in Slots : t[j] = IF j = i THEN n ELSE port.requests[j]
        BY <3>5, <3>7 DEF t, Table
      <4>3. \A z \in Places : entry[z].req = i => z = x
        BY <3>2, <4>1
      <4>4. ASSUME NEW z \in Places, entry'[z].req # None
            PROVE  t[entry'[z].req] = z[2]
        <5>1. CASE z = y
          <6>1. entry'[z].req = i /\ z[2] = n
            BY <1>1, <3>3, <5>1
          <6> HIDE DEF i, t
          <6>2. QED
            BY <4>1, <4>2, <6>1
        <5>2. CASE z # y
          <6>1. z # x /\ entry'[z].req = entry[z].req
            BY <3>3, <4>4, <5>2
          <6>2. entry[z].req # i /\ entry[z].req \in Slots
            BY <1>2, <4>3, <4>4, <6>1 DEF TypeOK, EntryType
          <6>3. QED
            BY <3>2, <4>2, <4>4, <6>1, <6>2
        <5>3. QED  BY <5>1, <5>2
      <4>5. ASSUME NEW j \in Slots, t[j] # None
            PROVE  \E z \in Places : Owner(z, j)
        <5>1. CASE j = i
          <6>1. Owner(y, j)
            BY <1>1, <1>2, <3>3, <4>1, <4>3, <5>1, PortRightsAssumption
          <6>2. QED  BY <1>1, <6>1
        <5>2. CASE j # i
          <6>1. PICK z \in Places : /\ entry[z].req = j
                                    /\ \A w \in Places : entry[w].req = j => w = z
            BY <3>2, <4>2, <4>5, <5>2
          <6>2. j # None
            BY PortRightsAssumption
          <6>3. z # x /\ z # y
            BY <3>4, <5>2, <6>1, <6>2
          <6>4. Owner(z, j)
            BY <3>3, <5>2, <6>1, <6>2, <6>3
          <6>5. QED  BY <6>4
        <5>3. QED  BY <5>1, <5>2
      <4>6. QED
        BY <2>3, <2>4, <4>4, <4>5 DEF MatchOK
    <3>8. QED  BY <3>6, <3>7
  <2>12. QED
    BY <1>5, <2>7, <2>8, <2>9, <2>10, <2>11
       DEF Inv, EntryOK, StateOK, NoSendersOK, HasSend
<1>10. QED  BY <1>8, <1>9

-----------------------------------------------------------------------------
(***************************************************************************)
(* The invariant, and what follows from it                                 *)
(***************************************************************************)
LEMMA InitInv == Init => Inv
<1> SUFFICES ASSUME Init
             PROVE  Inv
  OBVIOUS
<1>1. PICK s \in Spaces, n \in Names :
        /\ entry = [e \in Spaces \X Names |->
                      IF e = <<s, n>> THEN Entry("receive", 0, None) ELSE Unused]
        /\ port = [active |-> TRUE, receiver |-> <<s, n>>, refs |-> 1,
                   mscount |-> 0, srights |-> 0, sorights |-> 0,
                   nsrequest |-> None, pdrequest |-> FALSE,
                   requests |-> NoRequests, saved |-> NoRequests, dying |-> FALSE,
                   sends |-> 0, sonces |-> 0, limbo |-> FALSE,
                   told |-> None, left |-> 0, forced |-> FALSE]
  BY DEF Init
<1> DEFINE x == <<s, n>>
           g == Entry("receive", 0, None)
<1>2. x \in Places
  BY DEF Places
<1>3. \A y \in Places : entry[y] = IF y = x THEN g ELSE Unused
  BY <1>1 DEF Places
<1>4. /\ g \in EntryType /\ EntryOK(g) /\ g.req = None /\ g.type = "receive"
      /\ HasReceive(g) /\ ~HasSend(g)
  BY DEF Entry, EntryType, EntryOK, Types, HasSend, HasReceive
<1>5. NoRequests \in Table /\ \A i \in Slots : NoRequests[i] = None
  BY DEF NoRequests, Table
<1>6. /\ port.active /\ port.receiver = x /\ port.refs = 1 /\ port.srights = 0
      /\ port.sorights = 0 /\ port.requests = NoRequests /\ ~port.dying
      /\ port.sends = 0 /\ port.sonces = 0 /\ ~port.limbo /\ port.left = 0
      /\ port.told = None /\ port.nsrequest = None
  BY <1>1
<1>7. port \in PortType
  BY <1>1, <1>2, <1>5 DEF PortType
<1> HIDE DEF x, g
<1>8. TypeOK /\ \A y \in Places : EntryOK(entry[y])
  <2>1. entry \in [Places -> EntryType]
    BY <1>1, <1>3, <1>4, UnusedOK DEF Places, UnusedType
  <2>2. \A y \in Places : EntryOK(entry[y])
    BY <1>3, <1>4, UnusedOK DEF UnusedType
  <2>3. QED
    BY <1>7, <2>1, <2>2 DEF Init, TypeOK
<1>9. StateOK(port) /\ NoSendersOK(port)
  BY <1>6 DEF StateOK, NoSendersOK
<1>10. RightsCounted /\ RefsCounted
  <2>1. /\ Holding({"send", "both"}) = {} /\ Holding({"sonce"}) = {}
        /\ Holding({"send", "both", "receive", "sonce"}) = {x}
    BY <1>2, <1>3, <1>4 DEF Holding, Places, Unused, Entry
  <2>2. Cardinality({}) = 0 /\ Cardinality({x}) = 1
    BY FS_EmptySet, FS_Singleton
  <2>3. QED
    BY <1>6, <2>1, <2>2 DEF RightsCounted, RefsCounted
<1>11. ReceiverOK
  <2>1. Receivers = {x}
    BY <1>2, <1>3, <1>4, UnusedOK DEF Receivers
  <2>2. QED  BY <1>6, <2>1 DEF ReceiverOK
<1>12. OneName /\ MatchOK
  <2>1. OneName
    BY <1>3, UnusedOK DEF OneName, Names1
  <2>2. MatchOK
    BY <1>3, <1>4, <1>5, <1>6, UnusedOK DEF MatchOK
  <2>3. QED  BY <2>1, <2>2
<1>13. QED
  BY <1>8, <1>9, <1>10, <1>11, <1>12 DEF Inv

LEMMA MovesInv ==
  ASSUME Inv, NEW x \in Places, Moves(x)
  PROVE  Inv'
<1>1. CASE MoveSendOnce(x)
  BY <1>1, SonceGood, PutsInv DEF MoveSendOnce
<1>2. QED
  BY <1>1, MakeSendInv, MakeSendOnceInv, MoveReceiveInv, CopySendInv,
     MoveSendInv, CopyDeadInv, CopyoutSendInv, CopyoutSendOnceInv,
     CopyoutReceiveInv, RenameInv DEF Moves

LEMMA NextInv == Inv /\ [Next]_vars => Inv'
<1> SUFFICES ASSUME Inv, [Next]_vars
             PROVE  Inv'
  OBVIOUS
<1>1. ASSUME NEW x \in Spaces \X Names, Drops(x) \/ Moves(x) \/ Requests(x)
      PROVE  Inv'
  <2>1. x \in Places
    BY DEF Places
  <2>2. QED
    BY <1>1, <2>1, DropsInv, MovesInv, RequestsInv
<1>2. ASSUME NEW s \in Spaces, SpaceDies(s)
      PROVE  Inv'
  BY <1>2, SpaceDiesInv
<1>3. CASE ReleaseSend \/ ReleaseSendOnce \/ ReleaseReceive
  BY <1>3, ReleaseSendInv, ReleaseSendOnceInv, ReleaseReceiveInv
<1>4. CASE NotifyDeadName \/ EndDestroy
  BY <1>4, DyingInv
<1>5. CASE UNCHANGED vars
  BY <1>5
     DEF vars, Inv, TypeOK, EntryOK, StateOK, NoSendersOK, HasSend,
         RightsCounted, RefsCounted, Holding, ReceiverOK, Receivers, OneName,
         MatchOK
<1>6. QED
  BY <1>1, <1>2, <1>3, <1>4, <1>5 DEF Next

\* Every reachable state has the invariant.
THEOREM Invariance == Spec => []Inv
<1>1. QED
  BY InitInv, NextInv, PTL DEF Spec

\* The counts of send and send-once rights of a live port are those that exist
\* in the spaces and in messages, however many spaces and names there are and
\* whatever is called (ip_srights and ip_sorights of ipc_port.h).
THEOREM RightsCountedEver == Spec => []RightsCounted
<1>1. Inv => RightsCounted
  BY DEF Inv
<1>2. QED
  BY <1>1, Invariance, PTL

\* A port has a reference for each entry, message and call that points to it,
\* and no other: it is freed neither early nor never (ip_references).
THEOREM RefsCountedEver == Spec => []RefsCounted
<1>1. Inv => RefsCounted
  BY DEF Inv
<1>2. QED
  BY <1>1, Invariance, PTL

\* A live port has its one receive right where ip_receiver and
\* ip_receiver_name say or in a message, and a space has one name for it.
THEOREM OneReceiverEver == Spec => []OneReceiver
<1>1. ASSUME Inv
      PROVE  OneReceiver
  <2>1. Holding({"receive", "both"}) = Receivers
    BY DEF Holding, Receivers, Places, HasReceive
  <2>2. ASSUME NEW s \in Spaces
        PROVE  Cardinality(Known(s)) <= 1
    <3>1. \A m, n \in Known(s) : m = n
      <4>1. ASSUME NEW m \in Known(s), NEW n \in Known(s)
            PROVE  m = n
        <5>1. /\ <<s, m>> \in Places /\ <<s, n>> \in Places
              /\ Names1(entry[<<s, m>>]) /\ Names1(entry[<<s, n>>])
          BY DEF Known, Places, Names1
        <5>2. <<s, m>>[1] = <<s, n>>[1]
          OBVIOUS
        <5>3. <<s, m>> = <<s, n>>
          BY <1>1, <5>1, <5>2 DEF Inv, OneName
        <5>4. QED  BY <5>3
      <4>2. QED  BY <4>1
    <3>2. Cardinality(Known(s)) \in {0, 1}
      <4>1. CASE Known(s) = {}
        BY <4>1, FS_EmptySet
      <4>2. CASE Known(s) # {}
        <5>1. PICK n \in Known(s) : TRUE
          BY <4>2
        <5>2. Known(s) = {n}
          BY <3>1, <5>1
        <5>3. QED  BY <5>2, FS_Singleton
      <4>3. QED  BY <4>1, <4>2
    <3>3. QED  BY <3>2
  <2>3. QED
    BY <1>1, <2>1, <2>2 DEF Inv, ReceiverOK, OneReceiver
<1>2. Inv => OneReceiver
  BY <1>1
<1>3. QED
  BY <1>2, Invariance, PTL

\* The table of dead-name requests of a live port and the entries agree: no
\* slot is leaked, shared, or left with the name of another entry
\* (assert(ipr->ipr_name == name), ipc_port.c).
THEOREM RequestsMatchEver == Spec => []RequestsMatch
<1>1. ASSUME Inv, port.active, port.left = 0
      PROVE  /\ \A x \in Spaces \X Names :
                  entry[x].req # None => port.requests[entry[x].req] = x[2]
             /\ \A i \in Registered :
                  Cardinality({x \in Spaces \X Names : entry[x].req = i}) = 1
  <2>1. /\ \A x \in Places :
             entry[x].req # None => port.requests[entry[x].req] = x[2]
        /\ \A i \in Slots : port.requests[i] # None =>
             \E x \in Places : /\ entry[x].req = i
                               /\ \A y \in Places : entry[y].req = i => y = x
    BY <1>1 DEF Inv, MatchOK
  <2>2. ASSUME NEW i \in Registered
        PROVE  Cardinality({x \in Spaces \X Names : entry[x].req = i}) = 1
    <3>1. PICK x \in Places : /\ entry[x].req = i
                              /\ \A y \in Places : entry[y].req = i => y = x
      BY <2>1 DEF Registered
    <3>2. {y \in Spaces \X Names : entry[y].req = i} = {x}
      BY <3>1 DEF Places
    <3>3. QED  BY <3>2, FS_Singleton
  <2>3. QED
    BY <2>1, <2>2 DEF Places
<1>2. Inv => RequestsMatch
  BY <1>1 DEF RequestsMatch
<1>3. QED
  BY <1>2, Invariance, PTL

\* No count of user references wraps, reaches zero with its right still
\* there, or leaves no room for the reference of a notification
\* (MACH_PORT_UREFS_MAX, ipc_right.c).
THEOREM UrefsInRangeEver == Spec => []UrefsInRange
<1>1. ASSUME Inv, NEW x \in Spaces \X Names
      PROVE  CASE HasSend(entry[x]) -> entry[x].urefs \in 1 .. UrefsMax - 1
               [] entry[x].type = "sonce" -> entry[x].urefs = 1
               [] entry[x].type = "dead" -> /\ entry[x].urefs \in 1 .. UrefsMax
                                            /\ entry[x].req = None
               [] OTHER -> entry[x].urefs = 0
  <2>1. entry[x] \in EntryType /\ EntryOK(entry[x])
    BY <1>1 DEF Inv, TypeOK, Places
  <2>2. /\ entry[x].urefs \in Nat /\ entry[x].type \in Types
        /\ UrefsMax \in Nat
    BY <2>1, PortRightsAssumption DEF EntryType
  <2>3. HasSend(entry[x]) => entry[x].type # "sonce" /\ entry[x].type # "dead"
    BY DEF HasSend
  <2>4. HasSend(entry[x]) => entry[x].urefs \in 1 .. UrefsMax - 1
    BY <2>1, <2>2 DEF EntryOK
  <2>5. entry[x].type = "dead" =>
          entry[x].urefs \in 1 .. UrefsMax /\ entry[x].req = None
    BY <2>1, <2>2 DEF EntryOK
  <2>6. ~HasSend(entry[x]) /\ entry[x].type \notin {"sonce", "dead"}
          => entry[x].urefs = 0
    BY <2>1, <2>2 DEF EntryOK, HasSend, Types
  <2>7. entry[x].type = "sonce" => entry[x].urefs = 1
    BY <2>1 DEF EntryOK
  <2>8. QED
    BY <2>3, <2>4, <2>5, <2>6, <2>7
<1>2. Inv => UrefsInRange
  BY <1>1 DEF UrefsInRange
<1>3. QED
  BY <1>2, Invariance, PTL

\* A no-senders notification whose count is still the port's is true when it
\* is received, though rights are made while it is on its way (ip_mscount).
THEOREM NoSendersTrueEver == Spec => []NoSendersTrue
<1>1. Inv => NoSendersTrue
  BY DEF Inv, NoSendersOK, NoSendersTrue
<1>2. QED
  BY <1>1, Invariance, PTL

\* A no-senders request that waits at a port without send rights waits for a
\* count not yet reached: every place that takes the last right away, and
\* ipc_port_nsrequest itself, answer it.
THEOREM NoSendersNotLostEver == Spec => []NoSendersNotLost
<1>1. Inv => NoSendersNotLost
  BY DEF Inv, NoSendersOK, NoSendersNotLost
<1>2. QED
  BY <1>1, Invariance, PTL
=============================================================================
