--------------------------- MODULE ToolCallsProofs ---------------------------
(* Proofs about ToolCalls: for any number of calls at the same time, any   *)
(* number of tools, any size of a page and any number of attempts.         *)
EXTENDS ToolCalls, FiniteSetTheorems, TLAPS

-----------------------------------------------------------------------------
(* What is true of a call at each step                                     *)

\* The tool has not run before the call is answered, and never without having
\* been offered; what is decided, and then recorded, agrees with it.
OutcomeOK(x) ==
  /\ x.at \notin {"closing", "audit", "over"} => x.ran = 0
  /\ x.at \in {"authorized", "asking", "backoff"} \/ x.ran # 0 => x.offered
  /\ x.ran <= 1
  /\ x.at \in {"closing", "audit"} =>
       /\ x.decision = "allowed" => x.ran = 1
       /\ x.decision = "denied" => x.ran = 0
  /\ x.at # "over" => x.row = None
  /\ x.at = "over" =>
       /\ x.row = "allowed" => x.ran = 1
       /\ x.row = "denied" => x.ran = 0
       /\ x.ran = 1 /\ x.row = None => x.gone

\* What may be open while the upstream is asked: for a process, which one it is
\* depends on the step.
OpenAt(x) ==
  CASE x.kind = "mcp" -> x.open \subseteq {"session", "dropped"}
    [] x.kind = "stdio" -> x.open = IF x.step = "discover" THEN {"probe"} ELSE {"process"}
    [] OTHER -> x.open = {}

OpenOK(x) ==
  /\ x.at \in {"arrived", "authorized"} => x.open = {}
  /\ x.at \in {"asking", "backoff", "closing"} => OpenAt(x)
  /\ x.at = "closing" => x.step = "call"
  /\ x.at \in {"audit", "over"} =>
       /\ x.open \subseteq {"dropped"}
       /\ x.kind # "mcp" => x.open = {}

\* An attempt that waits for its repetition is not the last one.
CallOK(x) ==
  /\ x \in Call
  /\ x.at = "idle" => x = Idle
  /\ x.at = "backoff" => x.attempt < Attempts
  /\ OutcomeOK(x)
  /\ OpenOK(x)

\* A tool that is visible now was visible since the call arrived.
OfferOK(x) == x.at # "idle" /\ x.tool \in visible => x.offered

\* The pages so far have every steady tool at the positions the cursor passed.
ListOK ==
  /\ list.at = "paging" => list.steady \subseteq visible
  /\ list.at = "paging" /\ ~list.slipped =>
       \A t \in list.steady : Position(t) <= list.offset => t \in list.got
  /\ ListingIsComplete

ToolCallsInv == TypeOK /\ (\A c \in Calls : CallOK(call[c]) /\ OfferOK(call[c])) /\ ListOK

-----------------------------------------------------------------------------
(* Positions in the catalog                                                *)

LEMMA ToolsFinite == IsFiniteSet(Tools) /\ Cardinality(Tools) = LastTool
  BY ToolCallsAssumption, FS_Interval DEF ToolCallsAssumption, Tools

\* Positions are those of a list of all the visible tools.
LEMMA PositionInCatalog ==
  ASSUME visible \subseteq Tools
  PROVE  /\ IsFiniteSet(visible)
         /\ Cardinality(visible) \in 0 .. LastTool
         /\ \A t \in visible : Position(t) \in 1 .. Cardinality(visible)
<1>1. IsFiniteSet(visible) /\ Cardinality(visible) \in Nat /\ Cardinality(visible) <= LastTool
  BY ToolsFinite, FS_Subset, FS_CardinalityType
<1>2. ASSUME NEW t \in visible PROVE Position(t) \in 1 .. Cardinality(visible)
  <2> DEFINE upto == {u \in visible : u <= t}
  <2>1. t \in upto
    BY DEF Tools
  <2>2. IsFiniteSet(upto) /\ Cardinality(upto) <= Cardinality(visible)
    BY <1>1, FS_Subset
  <2>3. Cardinality(upto) \in Nat /\ Cardinality(upto) # 0
    BY <2>1, <2>2, FS_CardinalityType, FS_EmptySet
  <2> QED BY <1>1, <2>2, <2>3 DEF Position
<1> QED BY <1>1, <1>2, ToolCallsAssumption DEF ToolCallsAssumption

\* Whatever is added or taken away behind the cursor, a tool the cursor has not
\* passed stays ahead of it.
LEMMA StaysAhead ==
  ASSUME visible \subseteq Tools, NEW t0 \in Tools, SetVisible(t0),
         NEW offset \in Nat, t0 \in visible => Position(t0) > offset,
         NEW t \in visible, t \in visible', Position(t) > offset
  PROVE  Position(t)' > offset
<1> DEFINE upto == {u \in visible : u <= t}
           upto1 == {u \in visible' : u <= t}
           below == {u \in visible : u <= t0}
<1>1. visible' \subseteq Tools /\ t \in Tools
  BY DEF SetVisible
<1>2. /\ IsFiniteSet(upto) /\ IsFiniteSet(upto1) /\ IsFiniteSet(below)
      /\ Cardinality(upto) \in Nat /\ Cardinality(upto1) \in Nat
      /\ Cardinality(below) \in Nat
  BY <1>1, ToolsFinite, FS_Subset, FS_CardinalityType
<1>3. CASE t0 \notin visible
  <2>1. upto \subseteq upto1
    BY <1>3 DEF SetVisible
  <2>2. Cardinality(upto) <= Cardinality(upto1)
    BY <2>1, <1>2, FS_Subset
  <2> QED BY <1>2, <2>2 DEF Position
<1>4. CASE t0 \in visible /\ t <= t0
  <2>1. upto1 = upto
    BY <1>1, <1>4 DEF SetVisible, Tools
  <2> QED BY <2>1 DEF Position
<1>5. CASE t0 \in visible /\ ~(t <= t0)
  <2> DEFINE others == below \ {t0}
  <2>1. t0 \in below /\ t \notin others
    BY <1>5 DEF Tools
  <2>2. IsFiniteSet(others) /\ Cardinality(others) = Cardinality(below) - 1
    BY <1>2, <2>1, FS_RemoveElement
  <2>3. IsFiniteSet(others \cup {t}) /\ Cardinality(others \cup {t}) = Cardinality(below)
    <3> HIDE DEF others, below
    <3>1. IsFiniteSet(others \cup {t}) /\ Cardinality(others \cup {t}) = Cardinality(others) + 1
      BY <2>1, <2>2, FS_AddElement
    <3> QED BY <1>2, <2>2, <3>1
  <2>4. others \cup {t} \subseteq upto1
    BY <1>1, <1>5 DEF SetVisible, Tools
  <2>5. Cardinality(below) <= Cardinality(upto1)
    BY <2>3, <2>4, <1>2, FS_Subset
  <2> QED BY <1>2, <1>5, <2>5 DEF Position
<1> QED BY <1>3, <1>4, <1>5

-----------------------------------------------------------------------------
LEMMA IdleOK == Idle \in Call /\ CallOK(Idle)
<1>1. Idle \in Call
  BY ToolCallsAssumption
  DEF ToolCallsAssumption, Idle, Call, Tools, Kinds, Steps, Decisions
<1> QED BY <1>1 DEF CallOK, OutcomeOK, OpenOK, Idle

LEMMA InitOK == Init => ToolCallsInv
<1> SUFFICES ASSUME Init PROVE ToolCallsInv
  OBVIOUS
<1>1. TypeOK
  BY IdleOK, ToolCallsAssumption DEF Init, TypeOK, NoList, Listing, ToolCallsAssumption
<1>2. \A c \in Calls : CallOK(call[c]) /\ OfferOK(call[c])
  BY IdleOK DEF Init, OfferOK, Idle
<1>3. ListOK
  BY DEF Init, ListOK, NoList, ListingIsComplete
<1> QED BY <1>1, <1>2, <1>3 DEF ToolCallsInv

-----------------------------------------------------------------------------
(* The listing                                                             *)

LEMMA BeginListOK == ASSUME ToolCallsInv, BeginList PROVE ToolCallsInv'
<1> USE DEF ToolCallsInv, BeginList
<1>1. TypeOK'
  <2>1. visible \subseteq Tools
    BY DEF TypeOK
  <2>2. 0 \in 0 .. LastTool
    BY ToolCallsAssumption DEF ToolCallsAssumption
  <2>3. list' \in Listing
    BY <2>1, <2>2 DEF NoList, Listing
  <2> QED BY <2>3 DEF TypeOK
<1>2. \A t \in visible : Position(t)' \in Nat \ {0}
  <2>1. \A t \in visible : Position(t) \in 1 .. Cardinality(visible)
    BY PositionInCatalog DEF TypeOK
  <2>2. Cardinality(visible) \in Nat
    BY PositionInCatalog DEF TypeOK
  <2> QED BY <2>1, <2>2 DEF Position
<1>3. ListOK'
  <2>1. /\ list'.at = "paging" /\ list'.offset = 0 /\ list'.steady = visible
        /\ visible' = visible
    BY DEF NoList
  <2>2. \A t \in visible : ~(Position(t)' <= 0)
    BY <1>2
  <2> QED BY <2>1, <2>2 DEF ListOK, ListingIsComplete
<1> QED BY <1>1, <1>3 DEF CallOK, OutcomeOK, OpenOK, OpenAt, OfferOK

LEMMA ListToolsOK == ASSUME ToolCallsInv, ListTools PROVE ToolCallsInv'
<1> DEFINE n == Cardinality(visible)
           end == IF list.offset + PageSize > n THEN n ELSE list.offset + PageSize
           page == {t \in visible : Position(t) \in list.offset + 1 .. end}
<1> USE DEF ToolCallsInv
<1>1. /\ n \in 0 .. LastTool
      /\ \A t \in visible : Position(t) \in 1 .. n
  BY PositionInCatalog DEF TypeOK
<1>2. list.offset \in Nat /\ LastTool \in Nat /\ PageSize \in Nat \ {0}
  BY ToolCallsAssumption DEF ToolCallsAssumption, TypeOK, Listing
<1>3. end \in Nat /\ end <= n /\ (end < n => end = list.offset + PageSize)
  BY <1>1, <1>2
<1>4. UNCHANGED <<live, visible, call>> /\ list.at = "paging"
  BY DEF ListTools
<1>5. CASE list.offset > n
  <2>1. list' = NoList
    BY <1>5 DEF ListTools
  <2> QED BY <2>1, <1>4, <1>2 DEF TypeOK, Listing, ListOK, ListingIsComplete, NoList, CallOK,
             OutcomeOK, OpenOK, OpenAt, OfferOK
<1>6. CASE ~(list.offset > n)
  <2>1. list' = [list EXCEPT !.got = @ \cup page,
                             !.offset = IF end < n THEN end ELSE @,
                             !.at = IF end < n THEN "paging" ELSE "complete"]
    BY <1>6 DEF ListTools, NextCursor
  <2> HIDE DEF page, end, n
  <2>2. TypeOK'
    <3>1. page \subseteq Tools
      BY DEF page, TypeOK
    <3>2. (IF end < n THEN end ELSE list.offset) \in 0 .. LastTool
      BY <1>1, <1>2, <1>3 DEF TypeOK, Listing
    <3>3. list' \in Listing
      BY <2>1, <3>1, <3>2 DEF TypeOK, Listing
    <3> QED BY <1>4, <3>3 DEF TypeOK
  <2>3. list.at = "paging" /\ list.steady \subseteq visible /\ list'.steady = list.steady
        /\ list'.slipped = list.slipped /\ list'.got = list.got \cup page
    BY <1>4, <2>1 DEF ListOK, TypeOK, Listing
  <2>4. ASSUME ~list.slipped, NEW t \in list.steady, Position(t) <= end
        PROVE  t \in list'.got
    <3>1. Position(t) \in 1 .. n /\ t \in visible
      BY <1>1, <2>3
    <3>2. CASE Position(t) <= list.offset
      BY <2>3, <2>4, <3>2 DEF ListOK
    <3>3. CASE Position(t) > list.offset
      <4>1. Position(t) \in list.offset + 1 .. end
        BY <1>1, <1>2, <1>3, <2>4, <3>1, <3>3
      <4> QED BY <2>3, <3>1, <4>1 DEF page
    <3> QED BY <1>1, <1>2, <3>1, <3>2, <3>3
  <2>5. \A t \in Tools : Position(t)' = Position(t)
    BY <1>4 DEF Position
  <2>6. ListOK'
    <3>1. CASE end < n
      <4>1. list'.at = "paging" /\ list'.offset = end
        BY <2>1, <3>1 DEF TypeOK, Listing
      <4> QED BY <1>4, <2>3, <2>4, <2>5, <4>1 DEF ListOK, ListingIsComplete, TypeOK
    <3>2. CASE ~(end < n)
      <4>1. list'.at = "complete" /\ end = n
        BY <2>1, <3>2, <1>1, <1>3 DEF TypeOK, Listing
      <4>2. \A t \in list.steady : Position(t) <= end
        BY <1>1, <2>3, <4>1
      <4> QED BY <2>3, <2>4, <4>1, <4>2 DEF ListOK, ListingIsComplete
    <3> QED BY <3>1, <3>2
  <2> QED BY <1>4, <2>2, <2>6 DEF CallOK, OutcomeOK, OpenOK, OpenAt, OfferOK
<1> QED BY <1>5, <1>6

\* A change of what a call is offered keeps what is true of the call.
LEMMA OfferedOK ==
  ASSUME NEW x, CallOK(x), NEW b \in BOOLEAN, b => x.at # "idle"
  PROVE  CallOK([x EXCEPT !.offered = @ \/ b])
<1> DEFINE y == [x EXCEPT !.offered = @ \/ b]
<1>1. x \in Call /\ x.offered \in BOOLEAN
  BY DEF CallOK, Call
<1>2. y \in Call /\ (b => y.offered) /\ (x.offered => y.offered)
  BY <1>1 DEF Call
<1>3. /\ y.at = x.at /\ y.ran = x.ran /\ y.decision = x.decision /\ y.row = x.row
      /\ y.gone = x.gone /\ y.open = x.open /\ y.kind = x.kind /\ y.step = x.step
      /\ y.attempt = x.attempt
  BY <1>1 DEF Call
<1>4. x.at = "idle" => y = x
  BY <1>1 DEF Call
<1> HIDE DEF y
<1>5. OutcomeOK(y)
  BY <1>2, <1>3 DEF CallOK, OutcomeOK
<1>6. OpenOK(y)
  BY <1>3 DEF CallOK, OpenOK, OpenAt
<1> QED BY <1>2, <1>3, <1>4, <1>5, <1>6 DEF CallOK, y

LEMMA SetVisibleOK ==
  ASSUME ToolCallsInv, NEW t0 \in Tools, SetVisible(t0)
  PROVE  ToolCallsInv'
<1> DEFINE now == IF t0 \in visible THEN visible \ {t0} ELSE visible \cup {t0}
           passed == t0 \in visible /\ Position(t0) <= list.offset
           seen(c) == call[c].at # "idle" /\ call[c].tool \in now
<1> USE DEF ToolCallsInv
<1>1. /\ visible \subseteq Tools
      /\ call \in [Calls -> Call]
      /\ list \in Listing
      /\ list.offset \in Nat
  BY ToolCallsAssumption DEF TypeOK, Listing, ToolCallsAssumption
<1>2. /\ visible' = now
      /\ call' = [c \in Calls |-> [call[c] EXCEPT !.offered = @ \/ seen(c)]]
      /\ list' = IF list.at # "paging" THEN list
                 ELSE [list EXCEPT !.steady = @ \cap now, !.slipped = @ \/ passed]
      /\ live' = live
  BY DEF SetVisible
<1>3. now \subseteq Tools
  BY <1>1
<1>4. passed \in BOOLEAN /\ \A c \in Calls : seen(c) \in BOOLEAN
  OBVIOUS
<1>5. \A c \in Calls : CallOK(call'[c]) /\ OfferOK(call[c])'
  <2> SUFFICES ASSUME NEW c \in Calls PROVE CallOK(call'[c]) /\ OfferOK(call[c])'
    OBVIOUS
  <2>1. call'[c] = [call[c] EXCEPT !.offered = @ \/ seen(c)]
    BY <1>2
  <2> HIDE DEF now
  <2>2. CallOK([call[c] EXCEPT !.offered = @ \/ seen(c)])
    BY <1>4, OfferedOK
  <2>3. OfferOK(call[c])'
    <3> HIDE DEF seen
    <3>1. call[c] \in Call /\ call[c].offered \in BOOLEAN /\ seen(c) \in BOOLEAN
      BY <1>1, <1>4 DEF Call
    <3>2. /\ call'[c].at = call[c].at /\ call'[c].tool = call[c].tool
          /\ seen(c) => call'[c].offered
      BY <2>1, <3>1 DEF Call
    <3> QED BY <1>2, <3>2 DEF OfferOK, seen
  <2> QED BY <2>1, <2>2, <2>3
<1> HIDE DEF now, passed, seen
<1>6. /\ list' \in Listing
      /\ list'.at = list.at /\ list'.offset = list.offset /\ list'.got = list.got
      /\ list.at # "paging" => list' = list
      /\ list.at = "paging" => list'.steady = list.steady \cap now
                               /\ (~list'.slipped => ~list.slipped /\ ~passed)
  BY <1>1, <1>2, <1>3, <1>4 DEF Listing
<1>7. TypeOK'
  <2>1. call' \in [Calls -> Call]
    BY <1>2, <1>5 DEF CallOK
  <2> QED BY <1>2, <1>3, <1>6, <2>1 DEF TypeOK
<1>8. ListOK'
  <2>1. ASSUME list'.at = "paging", ~list'.slipped, NEW t \in list'.steady,
               Position(t)' <= list'.offset
        PROVE  t \in list'.got
    <3>1. /\ list.at = "paging" /\ ~list.slipped /\ ~passed
          /\ t \in list.steady /\ t \in visible /\ t \in visible'
      BY <1>2, <1>6, <2>1 DEF ListOK
    <3>2. /\ Position(t) \in Nat /\ Position(t)' \in Nat
          /\ t0 \in visible => Position(t0) \in Nat
      <4>1. visible' \subseteq Tools
        BY <1>2, <1>3
      <4>2. \A u \in visible : Position(u) \in 1 .. Cardinality(visible)
        BY <1>1, PositionInCatalog
      <4>3. Position(t)' \in Nat
        <5>1. {u \in visible' : u <= t} \subseteq Tools
          BY <4>1
        <5> QED BY <5>1, ToolsFinite, FS_Subset, FS_CardinalityType DEF Position
      <4>4. Cardinality(visible) \in Nat
        BY <1>1, PositionInCatalog
      <4> QED BY <3>1, <4>2, <4>3, <4>4
    <3>3. t0 \in visible => Position(t0) > list.offset
      BY <1>1, <3>1, <3>2 DEF passed
    <3>4. ~(Position(t) > list.offset)
      BY <1>1, <1>6, <2>1, <3>1, <3>2, <3>3, StaysAhead
    <3> QED BY <1>1, <1>6, <3>1, <3>2, <3>4 DEF ListOK
  <2> QED BY <1>2, <1>6, <2>1 DEF ListOK, ListingIsComplete
<1> QED BY <1>5, <1>7, <1>8

-----------------------------------------------------------------------------
(* A call                                                                  *)

\* It is enough that a step leaves its own call in order.
LEMMA BecomeOK ==
  ASSUME ToolCallsInv, NEW c \in Calls, NEW x, CallOK(x), OfferOK(x), Become(c, x)
  PROVE  ToolCallsInv'
<1> USE DEF ToolCallsInv
<1>1. call' = [call EXCEPT ![c] = x] /\ UNCHANGED <<live, visible, list>>
  BY DEF Become
<1>2. x \in Call /\ call \in [Calls -> Call]
  BY DEF CallOK, TypeOK
<1>3. TypeOK'
  BY <1>1, <1>2 DEF TypeOK
<1>4. \A d \in Calls : CallOK(call'[d]) /\ OfferOK(call[d])'
  BY <1>1, <1>2 DEF OfferOK
<1>5. ListOK'
  BY <1>1 DEF ListOK, ListingIsComplete, Position
<1> QED BY <1>3, <1>4, <1>5

LEMMA ArriveOK ==
  ASSUME ToolCallsInv, NEW c \in Calls, NEW t \in Tools, Arrive(c, t)
  PROVE  ToolCallsInv'
<1> DEFINE x == [Idle EXCEPT !.at = "arrived", !.tool = t, !.offered = t \in visible]
<1>1. Become(c, x)
  BY DEF Arrive
<1>2. x \in Call
  BY IdleOK, (t \in visible) \in BOOLEAN DEF Call
<1>3. CallOK(x) /\ OfferOK(x)
  BY <1>2, IdleOK DEF CallOK, OfferOK, OutcomeOK, OpenOK, Idle
<1> QED BY <1>1, <1>3, BecomeOK

\* The steps up to the first request.
LEMMA AuthorizeOK ==
  ASSUME ToolCallsInv, NEW c \in Calls,
         \/ \E kind \in Kinds : ResolveTool(c, kind)
         \/ NotAuthorized(c) \/ HeaderMismatch(c) \/ Dispatch(c)
  PROVE  ToolCallsInv'
<1>1. CallOK(call[c]) /\ OfferOK(call[c]) /\ call[c] \in Call /\ call[c].ran \in Nat
  BY DEF ToolCallsInv, CallOK, Call
<1>2. ASSUME NEW kind \in Kinds, ResolveTool(c, kind) PROVE ToolCallsInv'
  <2>1. CASE Granted(call[c].tool)
    <3> DEFINE x == [call[c] EXCEPT !.at = "authorized", !.kind = kind]
    <3>1. Become(c, x) /\ call[c].at = "arrived"
      BY <1>2, <2>1 DEF ResolveTool
    <3>2. x \in Call
      BY <1>1 DEF Call
    <3>3. CallOK(x) /\ OfferOK(x)
      BY <1>1, <2>1, <3>1, <3>2 DEF Granted, CallOK, OfferOK, OutcomeOK, OpenOK, Call
    <3> QED BY <3>1, <3>3, BecomeOK
  <2>2. CASE ~Granted(call[c].tool)
    <3> DEFINE x == [call[c] EXCEPT !.at = "audit", !.decision = "denied"]
    <3>1. Become(c, x) /\ call[c].at = "arrived"
      BY <1>2, <2>2 DEF ResolveTool, Ends
    <3>2. x \in Call
      BY <1>1 DEF Call, Decisions
    <3>3. CallOK(x) /\ OfferOK(x)
      BY <1>1, <3>1, <3>2 DEF CallOK, OfferOK, OutcomeOK, OpenOK, Call
    <3> QED BY <3>1, <3>3, BecomeOK
  <2> QED BY <2>1, <2>2
<1>3. CASE NotAuthorized(c)
  <2> DEFINE x == [call[c] EXCEPT !.at = "audit", !.decision = "error"]
  <2>1. Become(c, x) /\ call[c].at \in {"arrived", "authorized"}
    BY <1>3 DEF NotAuthorized, Ends
  <2>2. x \in Call
    BY <1>1 DEF Call, Decisions
  <2>3. CallOK(x) /\ OfferOK(x)
    BY <1>1, <2>1, <2>2 DEF CallOK, OfferOK, OutcomeOK, OpenOK, Call
  <2> QED BY <2>1, <2>3, BecomeOK
<1>4. CASE HeaderMismatch(c)
  <2> DEFINE x == [call[c] EXCEPT !.at = "over"]
  <2>1. Become(c, x) /\ call[c].at = "authorized"
    BY <1>4 DEF HeaderMismatch
  <2>2. x \in Call
    BY <1>1 DEF Call
  <2>3. CallOK(x) /\ OfferOK(x)
    BY <1>1, <2>1, <2>2, ToolCallsAssumption
    DEF ToolCallsAssumption, Decisions, CallOK, OfferOK, OutcomeOK, OpenOK, Call
  <2> QED BY <2>1, <2>3, BecomeOK
<1>5. CASE Dispatch(c)
  <2> DEFINE step == IF call[c].kind \in {"mcp", "stdio"} THEN "discover" ELSE "call"
             open == IF call[c].kind = "stdio" THEN {"probe"} ELSE {}
             x == [call[c] EXCEPT !.at = "asking", !.step = step, !.open = open]
  <2>1. Become(c, x) /\ call[c].at = "authorized"
    BY <1>5 DEF Dispatch
  <2>2. x \in Call
    BY <1>1 DEF Call, Steps
  <2>3. CallOK(x) /\ OfferOK(x)
    BY <1>1, <2>1, <2>2 DEF CallOK, OfferOK, OutcomeOK, OpenOK, OpenAt, Call
  <2> QED BY <2>1, <2>3, BecomeOK
<1> QED BY <1>2, <1>3, <1>4, <1>5

\* The waits between the sendings of a request, and the client's going.
LEMMA WaitOK ==
  ASSUME ToolCallsInv, NEW c \in Calls, Throttled(c) \/ RetryAfter(c) \/ ClientGoes(c)
  PROVE  ToolCallsInv'
<1>1. CallOK(call[c]) /\ OfferOK(call[c]) /\ call[c] \in Call /\ call[c].ran \in Nat
  BY DEF ToolCallsInv, CallOK, Call
<1>2. CASE Throttled(c)
  <2> DEFINE x == [call[c] EXCEPT !.at = "backoff"]
  <2>1. Become(c, x) /\ call[c].at = "asking" /\ call[c].attempt < Attempts
    BY <1>2 DEF Throttled, MayRetry
  <2>2. x \in Call
    BY <1>1 DEF Call
  <2>3. CallOK(x) /\ OfferOK(x)
    BY <1>1, <2>1, <2>2 DEF CallOK, OfferOK, OutcomeOK, OpenOK, OpenAt, Call
  <2> QED BY <2>1, <2>3, BecomeOK
<1>3. CASE RetryAfter(c)
  <2> DEFINE x == [call[c] EXCEPT !.at = "asking", !.attempt = call[c].attempt + 1]
  <2>1. Become(c, x) /\ call[c].at = "backoff"
    BY <1>3 DEF RetryAfter, NextAttempt
  <2>2. x \in Call
    <3>1. call[c].attempt \in 1 .. Attempts /\ call[c].attempt < Attempts
      BY <1>1, <2>1 DEF CallOK, Call
    <3>2. call[c].attempt + 1 \in 1 .. Attempts
      BY <3>1, ToolCallsAssumption DEF ToolCallsAssumption
    <3> QED BY <1>1, <3>2 DEF Call
  <2>3. CallOK(x) /\ OfferOK(x)
    BY <1>1, <2>1, <2>2 DEF CallOK, OfferOK, OutcomeOK, OpenOK, OpenAt, Call
  <2> QED BY <2>1, <2>3, BecomeOK
<1>4. CASE ClientGoes(c)
  <2> DEFINE x == [call[c] EXCEPT !.gone = TRUE]
  <2>1. Become(c, x) /\ call[c].at \notin {"idle", "over"}
    BY <1>4 DEF ClientGoes
  <2>2. x \in Call
    BY <1>1 DEF Call
  <2>3. CallOK(x) /\ OfferOK(x)
    BY <1>1, <2>1, <2>2 DEF CallOK, OfferOK, OutcomeOK, OpenOK, OpenAt, Call
  <2> QED BY <2>1, <2>3, BecomeOK
<1> QED BY <1>2, <1>3, <1>4

\* What may be open when the next request is made.
LEMMA OpenAfter ==
  ASSUME NEW c \in Calls, call[c] \in Call, OpenAt(call[c]), NEW open \in AfterAnswer(c)
  PROVE  /\ call[c].kind = "mcp" => open \subseteq {"session", "dropped"}
         /\ call[c].kind = "stdio" =>
              open = IF call[c].step = "discover" THEN {} ELSE {"process"}
         /\ call[c].kind \in {"http", "command"} => open = {}
<1>1. call[c].kind \in Kinds
  BY DEF Call
<1>2. CASE call[c].kind = "mcp"
  BY <1>2 DEF OpenAt, AfterAnswer
<1>3. CASE call[c].kind = "stdio"
  BY <1>3 DEF OpenAt, AfterAnswer
<1>4. CASE call[c].kind \in {"http", "command"}
  BY <1>4 DEF OpenAt, AfterAnswer
<1> QED BY <1>1, <1>2, <1>3, <1>4 DEF Kinds

LEMMA AsksOK ==
  ASSUME ToolCallsInv, NEW c \in Calls, call[c].at \in {"asking", "backoff"},
         NEW step \in {"initialize", "notify", "call"}, NEW open,
         call[c].kind = "mcp" => open \subseteq {"session", "dropped"},
         call[c].kind = "stdio" => open = {"process"},
         call[c].kind \in {"http", "command"} => open = {},
         Become(c, Asks(c, step, open))
  PROVE  ToolCallsInv'
<1> DEFINE x == Asks(c, step, open)
<1>1. CallOK(call[c]) /\ OfferOK(call[c]) /\ call[c] \in Call /\ call[c].kind \in Kinds
  BY DEF ToolCallsInv, CallOK, Call
<1>2. open \in SUBSET {"session", "dropped", "probe", "process"} /\ step \in Steps
  BY <1>1 DEF Kinds, Steps
<1>3. 1 \in 1 .. Attempts
  BY ToolCallsAssumption DEF ToolCallsAssumption
<1>4. x \in Call
  BY <1>1, <1>2, <1>3 DEF Asks, Call
<1>5. /\ x.at = "asking" /\ x.open = open /\ x.step = step /\ x.kind = call[c].kind
      /\ x.ran = call[c].ran /\ x.row = call[c].row /\ x.offered = call[c].offered
      /\ x.tool = call[c].tool
  BY <1>1 DEF Asks, Call
<1> HIDE DEF x
<1>6. OpenAt(x)
  BY <1>1, <1>5 DEF OpenAt, Kinds
<1>7. CallOK(x) /\ OfferOK(x)
  BY <1>1, <1>4, <1>5, <1>6 DEF CallOK, OfferOK, OutcomeOK, OpenOK
<1> QED BY <1>7, BecomeOK DEF x

\* The discovery and the handshake.
LEMMA HandshakeOK ==
  ASSUME ToolCallsInv, NEW c \in Calls,
         Discovered(c) \/ FallBack(c) \/ Initialized(c) \/ Notified(c)
  PROVE  ToolCallsInv'
<1>1. /\ call[c] \in Call /\ call[c].kind \in Kinds
      /\ call[c].at \in {"asking", "backoff"} => OpenAt(call[c])
  BY DEF ToolCallsInv, CallOK, OpenOK, Call
<1>2. CASE Discovered(c)
  <2>1. PICK open \in AfterAnswer(c) : Become(c, Asks(c, "call", Started(c, open)))
    BY <1>2 DEF Discovered
  <2>2. call[c].at = "asking" /\ call[c].step = "discover"
    BY <1>2 DEF Discovered
  <2>3. /\ call[c].kind = "mcp" => Started(c, open) \subseteq {"session", "dropped"}
        /\ call[c].kind = "stdio" => Started(c, open) = {"process"}
        /\ call[c].kind \in {"http", "command"} => Started(c, open) = {}
    BY <1>1, <2>2, OpenAfter DEF Started
  <2> QED BY <2>1, <2>2, <2>3, AsksOK
<1>3. CASE FallBack(c)
  <2> DEFINE open1(open) == Started(c, Forgotten(open))
  <2>1. PICK open \in AfterAnswer(c) : Become(c, Asks(c, "initialize", open1(open)))
    BY <1>3 DEF FallBack
  <2>2. call[c].at \in {"asking", "backoff"} /\ call[c].step = "discover"
    BY <1>3 DEF FallBack, CutOff
  <2>3. /\ call[c].kind = "mcp" => open1(open) \subseteq {"session", "dropped"}
        /\ call[c].kind = "stdio" => open1(open) = {"process"}
        /\ call[c].kind \in {"http", "command"} => open1(open) = {}
    BY <1>1, <2>2, OpenAfter DEF Started, Forgotten
  <2> HIDE DEF open1
  <2> QED BY <2>1, <2>2, <2>3, AsksOK
<1>4. CASE Initialized(c)
  <2>1. PICK open \in AfterAnswer(c) : Become(c, Asks(c, "notify", open))
    BY <1>4 DEF Initialized
  <2>2. call[c].at = "asking" /\ call[c].step = "initialize"
    BY <1>4 DEF Initialized
  <2>3. /\ call[c].kind = "mcp" => open \subseteq {"session", "dropped"}
        /\ call[c].kind = "stdio" => open = {"process"}
        /\ call[c].kind \in {"http", "command"} => open = {}
    BY <1>1, <2>2, OpenAfter
  <2> QED BY <2>1, <2>2, <2>3, AsksOK
<1>5. CASE Notified(c)
  <2>1. /\ Become(c, Asks(c, "call", call[c].open))
        /\ call[c].at = "asking" /\ call[c].step = "notify"
    BY <1>5 DEF Notified
  <2>2. /\ call[c].kind = "mcp" => call[c].open \subseteq {"session", "dropped"}
        /\ call[c].kind = "stdio" => call[c].open = {"process"}
        /\ call[c].kind \in {"http", "command"} => call[c].open = {}
    BY <1>1, <2>1 DEF OpenAt
  <2> QED BY <2>1, <2>2, AsksOK
<1> QED BY <1>2, <1>3, <1>4, <1>5

\* The end of the request for the tool, or of a handshake that fails.
LEMMA AnswerOK ==
  ASSUME ToolCallsInv, NEW c \in Calls,
         \/ Answered(c)
         \/ \E ran \in BOOLEAN : Unanswered(c, ran)
         \/ HandshakeFails(c)
  PROVE  ToolCallsInv'
<1>1. CallOK(call[c]) /\ OfferOK(call[c]) /\ call[c] \in Call /\ call[c].ran \in Nat
  BY DEF ToolCallsInv, CallOK, Call
<1>2. call[c].at \in {"asking", "backoff"} =>
        OpenAt(call[c]) /\ call[c].ran = 0 /\ call[c].offered /\ call[c].row = None
  BY <1>1 DEF CallOK, OpenOK, OutcomeOK
<1>3. CASE Answered(c)
  <2> DEFINE count == call[c].ran + 1
             x == [call[c] EXCEPT !.at = "closing", !.decision = "allowed", !.ran = count]
  <2>1. Become(c, x) /\ call[c].at = "asking" /\ call[c].step = "call"
    BY <1>3 DEF Answered
  <2>2. count = 1 /\ count \in Nat /\ "allowed" \in Decisions
    BY <1>2, <2>1 DEF Decisions
  <2> HIDE DEF count
  <2>3. x \in Call
    BY <1>1, <2>2 DEF Call
  <2>4. /\ x.at = "closing" /\ x.decision = "allowed" /\ x.ran = count
        /\ x.step = "call" /\ x.kind = call[c].kind /\ x.open = call[c].open
        /\ x.row = call[c].row /\ x.offered = call[c].offered /\ x.tool = call[c].tool
    BY <1>1, <2>1 DEF Call
  <2> HIDE DEF x
  <2>5. OutcomeOK(x) /\ OfferOK(x)
    BY <1>2, <2>1, <2>2, <2>4 DEF OutcomeOK, OfferOK
  <2>6. OpenOK(x)
    BY <1>2, <2>1, <2>4 DEF OpenOK, OpenAt
  <2> QED BY <2>1, <2>3, <2>4, <2>5, <2>6, BecomeOK DEF CallOK, x
<1>4. ASSUME NEW ran \in BOOLEAN, Unanswered(c, ran) PROVE ToolCallsInv'
  <2> DEFINE count == IF ran THEN call[c].ran + 1 ELSE call[c].ran
             x == [call[c] EXCEPT !.at = "closing", !.decision = "error", !.ran = count]
  <2>1. Become(c, x) /\ call[c].at \in {"asking", "backoff"} /\ call[c].step = "call"
    BY <1>4 DEF Unanswered, AfterFailure, CutOff
  <2>2. count \in {0, 1} /\ count \in Nat /\ "error" \in Decisions
    BY <1>2, <2>1 DEF Decisions
  <2> HIDE DEF count
  <2>3. x \in Call
    BY <1>1, <2>2 DEF Call
  <2>4. /\ x.at = "closing" /\ x.decision = "error" /\ x.ran = count
        /\ x.step = "call" /\ x.kind = call[c].kind /\ x.open = call[c].open
        /\ x.row = call[c].row /\ x.offered = call[c].offered /\ x.tool = call[c].tool
    BY <1>1, <2>1 DEF Call
  <2> HIDE DEF x
  <2>5. OutcomeOK(x) /\ OfferOK(x)
    BY <1>2, <2>1, <2>2, <2>4 DEF OutcomeOK, OfferOK
  <2>6. OpenOK(x)
    BY <1>2, <2>1, <2>4 DEF OpenOK, OpenAt
  <2> QED BY <2>1, <2>3, <2>4, <2>5, <2>6, BecomeOK DEF CallOK, x
<1>5. CASE HandshakeFails(c)
  <2> DEFINE open == Abandoned(c)
             x == [call[c] EXCEPT !.at = "audit", !.decision = "error", !.open = open]
  <2>1. Become(c, x) /\ call[c].at \in {"asking", "backoff"}
    BY <1>5 DEF HandshakeFails, CutOff
  <2>2. open \subseteq {"dropped"} /\ (call[c].kind # "mcp" => open = {})
    <3>1. call[c].kind \in Kinds
      BY <1>1 DEF Call
    <3>2. CASE call[c].kind = "mcp"
      BY <1>2, <2>1, <3>2 DEF OpenAt, Abandoned, Forgotten
    <3>3. CASE call[c].kind # "mcp"
      BY <1>2, <2>1, <3>3 DEF OpenAt, Abandoned, Forgotten
    <3> QED BY <3>2, <3>3
  <2> HIDE DEF open
  <2>3. x \in Call
    BY <1>1, <2>2 DEF Call, Decisions
  <2>4. CallOK(x) /\ OfferOK(x)
    BY <1>1, <1>2, <2>1, <2>2, <2>3 DEF CallOK, OfferOK, OutcomeOK, OpenOK, Call
  <2> QED BY <2>1, <2>4, BecomeOK
<1> QED BY <1>3, <1>4, <1>5

\* The deferred close, the row and the return.
LEMMA EndOK ==
  ASSUME ToolCallsInv, NEW c \in Calls, Close(c) \/ Audit(c) \/ Forget(c)
  PROVE  ToolCallsInv'
<1>1. CallOK(call[c]) /\ OfferOK(call[c]) /\ call[c] \in Call /\ call[c].kind \in Kinds
  BY DEF ToolCallsInv, CallOK, Call
<1>2. CASE Close(c)
  <2>1. PICK step \in {"closed", "unclosed"} :
          Become(c, [call[c] EXCEPT !.at = "audit", !.step = step,
                       !.open = IF step = "closed" THEN @ \ {"session", "process"}
                                ELSE Forgotten(@) \ {"process"}])
    BY <1>2 DEF Close
  <2> DEFINE open == IF step = "closed" THEN call[c].open \ {"session", "process"}
                     ELSE Forgotten(call[c].open) \ {"process"}
             x == [call[c] EXCEPT !.at = "audit", !.step = step, !.open = open]
  <2>2. call[c].at = "closing" /\ call[c].step = "call" /\ OpenAt(call[c])
    BY <1>1, <1>2 DEF Close, CallOK, OpenOK
  <2>3. Become(c, x)
    BY <2>1
  <2>4. open \subseteq {"dropped"} /\ (call[c].kind # "mcp" => open = {})
    <3>1. CASE call[c].kind = "mcp"
      BY <2>2, <3>1 DEF OpenAt, Forgotten
    <3>2. CASE call[c].kind # "mcp"
      BY <2>2, <3>2 DEF OpenAt, Forgotten
    <3> QED BY <3>1, <3>2
  <2> HIDE DEF open
  <2>5. x \in Call
    BY <1>1, <2>4 DEF Call, Steps
  <2>6. CallOK(x) /\ OfferOK(x)
    BY <1>1, <2>2, <2>4, <2>5 DEF CallOK, OfferOK, OutcomeOK, OpenOK, Call
  <2> QED BY <2>3, <2>6, BecomeOK
<1>3. CASE Audit(c)
  <2>1. PICK row \in Rows(c) : Become(c, [call[c] EXCEPT !.at = "over", !.row = row])
    BY <1>3 DEF Audit
  <2> DEFINE x == [call[c] EXCEPT !.at = "over", !.row = row]
  <2>2. call[c].at = "audit"
    BY <1>3 DEF Audit
  <2>3. /\ row \in Decisions \cup {None, "lost"}
        /\ row # "lost" /\ row # None => row = call[c].decision
        /\ row = None => call[c].gone
    BY <1>1, <2>1, ToolCallsAssumption DEF Rows, Call, ToolCallsAssumption
  <2>4. x \in Call
    BY <1>1, <2>3 DEF Call
  <2>5. x.at = "over" /\ x.row = row /\ x.ran = call[c].ran /\ x.gone = call[c].gone
        /\ x.offered = call[c].offered /\ x.tool = call[c].tool /\ x.open = call[c].open
        /\ x.kind = call[c].kind
    BY <1>1 DEF Call
  <2> HIDE DEF x
  <2>6. OutcomeOK(x)
    <3>1. row = "allowed" => call[c].decision = "allowed"
      BY <2>3, ToolCallsAssumption DEF ToolCallsAssumption, Decisions
    <3>2. row = "denied" => call[c].decision = "denied"
      BY <2>3, ToolCallsAssumption DEF ToolCallsAssumption, Decisions
    <3> QED BY <1>1, <2>2, <2>3, <2>5, <3>1, <3>2 DEF CallOK, OutcomeOK
  <2>7. OpenOK(x)
    BY <1>1, <2>2, <2>5 DEF CallOK, OpenOK
  <2>8. CallOK(x) /\ OfferOK(x)
    BY <1>1, <2>2, <2>4, <2>5, <2>6, <2>7 DEF CallOK, OfferOK
  <2> QED BY <2>1, <2>8, BecomeOK DEF x
<1>4. CASE Forget(c)
  BY <1>4, IdleOK, BecomeOK DEF Forget, OfferOK, Idle
<1> QED BY <1>2, <1>3, <1>4

-----------------------------------------------------------------------------
LEMMA SetLiveOK == ASSUME ToolCallsInv, NEW on \in BOOLEAN, SetLive(on) PROVE ToolCallsInv'
<1>1. live' \in BOOLEAN /\ UNCHANGED <<visible, call, list>>
  BY DEF SetLive
<1>2. TypeOK' /\ ListOK'
  BY <1>1 DEF ToolCallsInv, TypeOK, ListOK, ListingIsComplete, Position
<1> QED BY <1>1, <1>2
        DEF ToolCallsInv, CallOK, OfferOK, OutcomeOK, OpenOK, OpenAt

LEMMA NextOK == ToolCallsInv /\ [Next]_vars => ToolCallsInv'
<1> SUFFICES ASSUME ToolCallsInv, [Next]_vars PROVE ToolCallsInv'
  OBVIOUS
<1>1. ASSUME NEW c \in Calls, Proceed(c) \/ ClientGoes(c) \/ Forget(c)
      PROVE  ToolCallsInv'
  BY <1>1, AuthorizeOK, WaitOK, HandshakeOK, AnswerOK, EndOK DEF Proceed
<1>2. CASE UNCHANGED vars
  <2>1. UNCHANGED <<live, visible, call, list>>
    BY <1>2 DEF vars
  <2>2. SetLive(live)
    BY <2>1 DEF SetLive
  <2> QED BY <2>2, SetLiveOK DEF ToolCallsInv, TypeOK
<1> QED BY <1>1, <1>2, SetVisibleOK, SetLiveOK, BeginListOK, ListToolsOK, ArriveOK DEF Next

LEMMA Invariance == Spec => []ToolCallsInv
  BY InitOK, NextOK, PTL DEF Spec

\* Every variable keeps its type; no request is sent more often than the code's
\* limit, and a cursor never points past the tools there can be.
THEOREM TypeCorrect == Spec => []TypeOK
<1>1. ToolCallsInv => TypeOK
  BY DEF ToolCallsInv
<1> QED BY <1>1, Invariance, PTL

\* Retries, the fallback to the older handshake and lost answers never make an
\* agent's call run its tool twice (DoWithRetry, connect), and it runs only a tool
\* that the agent could see at some moment since the call arrived.
THEOREM ACallRunsOnceIfGranted == Spec => []RunsOnceIfGranted
<1>1. ToolCallsInv => RunsOnceIfGranted
  <2> SUFFICES ASSUME ToolCallsInv PROVE RunsOnceIfGranted
    OBVIOUS
  <2>1. \A c \in Calls : OutcomeOK(call[c])
    BY DEF ToolCallsInv, CallOK
  <2> QED BY <2>1 DEF OutcomeOK, RunsOnceIfGranted
<1> QED BY <1>1, Invariance, PTL

\* What callTool records of a call agrees with what its upstream did, and only the
\* client's going or the database keep a call that ran from being recorded.
THEOREM TheOutcomeIsAudited == Spec => []OutcomeIsAudited
<1>1. ToolCallsInv => OutcomeIsAudited
  <2> SUFFICES ASSUME ToolCallsInv PROVE OutcomeIsAudited
    OBVIOUS
  <2>1. \A c \in Calls : OutcomeOK(call[c])
    BY DEF ToolCallsInv, CallOK
  <2> QED BY <2>1 DEF OutcomeOK, OutcomeIsAudited
<1> QED BY <1>1, Invariance, PTL

\* Whatever became of the handshake, the call and its client, no process is left
\* once the call is audited, and no session but one whose handshake failed or whose
\* DELETE was lost or not sent (close).
THEOREM ProcessesAndSessionsAreClosed == Spec => []NothingIsLeftOpen
<1>1. ToolCallsInv => NothingIsLeftOpen
  <2> SUFFICES ASSUME ToolCallsInv PROVE NothingIsLeftOpen
    OBVIOUS
  <2>1. \A c \in Calls : OpenOK(call[c])
    BY DEF ToolCallsInv, CallOK
  <2> QED BY <2>1 DEF OpenOK, NothingIsLeftOpen
<1> QED BY <1>1, Invariance, PTL

\* For catalogs and pages of any size, and whatever appears or disappears while
\* the pages are fetched, only a tool that disappears behind the cursor can make a
\* listing miss a tool that was there all the time (listTools).
THEOREM AListingIsComplete == Spec => []ListingIsComplete
<1>1. ToolCallsInv => ListingIsComplete
  BY DEF ToolCallsInv, ListOK
<1> QED BY <1>1, Invariance, PTL

-----------------------------------------------------------------------------
(* The refinement of Invocations                                           *)

\* The variable of Invocations.
Served == [c \in Calls |-> InvocationOf(call[c])]

\* A step of a call is one of its invocation.
LEMMA ServedStep ==
  ASSUME ToolCallsInv, NEW c \in Calls, NEW x, Become(c, x)
  PROVE  /\ Served[c] = InvocationOf(call[c])
         /\ Served' = [Served EXCEPT ![c] = InvocationOf(x)]
         /\ InvocationOf(x) = InvocationOf(call[c]) => Served' = Served
         /\ UNCHANGED <<live, visible>>
<1>1. call \in [Calls -> Call] /\ call' = [call EXCEPT ![c] = x]
  BY DEF ToolCallsInv, TypeOK, Become
<1>2. call'[c] = x /\ \A d \in Calls \ {c} : call'[d] = call[d]
  BY <1>1
<1> DEFINE of(d) == InvocationOf(call[d])
           of1(d) == InvocationOf(call'[d])
<1>3. Served = [d \in Calls |-> of(d)] /\ Served' = [d \in Calls |-> of1(d)]
  BY Zenon DEF Served
<1>4. of1(c) = InvocationOf(x) /\ \A d \in Calls \ {c} : of1(d) = of(d)
  BY <1>2
<1>5. of(c) = InvocationOf(call[c])
  OBVIOUS
<1> HIDE DEF of, of1
<1>6. Served' = [Served EXCEPT ![c] = InvocationOf(x)]
  BY <1>3, <1>4
<1>7. InvocationOf(x) = InvocationOf(call[c]) => Served' = Served
  BY <1>3, <1>4, <1>5
<1> QED BY <1>3, <1>5, <1>6, <1>7 DEF Become

\* What its steps make of an invocation.
InStage(inv, stage) == [inv EXCEPT !.stage = stage]
AnsweredWith(inv, answer, ran) ==
  [inv EXCEPT !.stage = "answered", !.answer = answer, !.ran = ran]
Recorded(inv, row) == [inv EXCEPT !.stage = "over", !.answer = None, !.row = row]
Left(inv) == [inv EXCEPT !.gone = TRUE]

\* The steps of Invocations in these terms.
LEMMA ServiceSteps ==
  ASSUME NEW c \in Calls
  PROVE  /\ \A rec : Service!Become(c, rec) <=>
              Served' = [Served EXCEPT ![c] = rec] /\ UNCHANGED <<live, visible>>
         /\ \A t : Service!Invoke(c, t) <=>
              /\ live
              /\ Served[c].stage = "idle"
              /\ Service!Become(c, [stage |-> "waiting", tool |-> t, ran |-> 0, answer |-> None,
                                    row |-> None, gone |-> FALSE])
         /\ Service!Permit(c) <=>
              /\ Served[c].stage = "waiting"
              /\ Served[c].tool \in visible
              /\ Service!Become(c, InStage(Served[c], "permitted"))
         /\ \A answer, ran : Service!Answer(c, answer, ran) <=>
              Service!Become(c, AnsweredWith(Served[c], answer, ran))
         /\ Service!Refuse(c) <=>
              /\ Served[c].stage = "waiting"
              /\ Served[c].tool \notin visible
              /\ Service!Answer(c, "denied", 0)
         /\ Service!Reject(c) <=>
              /\ Served[c].stage = "permitted"
              /\ Service!Become(c, InStage(Served[c], "over"))
         /\ \A row : Service!Record(c, row) <=>
              /\ Served[c].stage = "answered"
              /\ row \in IF Served[c].gone THEN {None} ELSE {Served[c].answer, "lost"}
              /\ Service!Become(c, Recorded(Served[c], row))
         /\ Service!Leave(c) <=>
              /\ Served[c].stage # "idle"
              /\ Served[c].stage # "over"
              /\ ~Served[c].gone
              /\ Service!Become(c, Left(Served[c]))
         /\ Service!Succeed(c) <=>
              /\ Served[c].stage = "permitted"
              /\ Service!Answer(c, "allowed", 1)
         /\ \A ran : Service!Fail(c, ran) <=>
              /\ \/ Served[c].stage = "waiting" /\ ran = 0
                 \/ Served[c].stage = "permitted"
              /\ Service!Answer(c, "error", ran)
         /\ Service!Return(c) <=>
              /\ Served[c].stage = "over"
              /\ Service!Become(c, Service!Idle)
<1>1. \A rec : Service!Become(c, rec) <=>
       Served' = [Served EXCEPT ![c] = rec] /\ UNCHANGED <<live, visible>>
  BY Zenon DEF Service!Become, Served
<1>2. \A t : Service!Invoke(c, t) <=>
       /\ live
       /\ Served[c].stage = "idle"
       /\ Service!Become(c, [stage |-> "waiting", tool |-> t, ran |-> 0, answer |-> None,
                             row |-> None, gone |-> FALSE])
  BY Zenon DEF Service!Invoke, Service!At, Served
<1>3. Service!Permit(c) <=>
       /\ Served[c].stage = "waiting"
       /\ Served[c].tool \in visible
       /\ Service!Become(c, InStage(Served[c], "permitted"))
  BY Zenon DEF Service!Permit, Service!At, Served, InStage
<1>4. \A answer, ran : Service!Answer(c, answer, ran) <=>
       Service!Become(c, AnsweredWith(Served[c], answer, ran))
  BY Zenon DEF Service!Answer, Served, AnsweredWith
<1>5. Service!Refuse(c) <=>
       /\ Served[c].stage = "waiting"
       /\ Served[c].tool \notin visible
       /\ Service!Answer(c, "denied", 0)
  BY Zenon DEF Service!Refuse, Service!At, Served
<1>6. Service!Reject(c) <=>
       /\ Served[c].stage = "permitted"
       /\ Service!Become(c, InStage(Served[c], "over"))
  BY Zenon DEF Service!Reject, Service!At, Served, InStage
<1>7. \A row : Service!Record(c, row) <=>
       /\ Served[c].stage = "answered"
       /\ row \in IF Served[c].gone THEN {None} ELSE {Served[c].answer, "lost"}
       /\ Service!Become(c, Recorded(Served[c], row))
  BY Zenon DEF Service!Record, Service!At, Served, Recorded
<1>8. Service!Leave(c) <=>
       /\ Served[c].stage # "idle"
       /\ Served[c].stage # "over"
       /\ ~Served[c].gone
       /\ Service!Become(c, Left(Served[c]))
  BY Zenon DEF Service!Leave, Service!At, Served, Left
<1>9. Service!Succeed(c) <=>
       /\ Served[c].stage = "permitted"
       /\ Service!Answer(c, "allowed", 1)
  BY Zenon DEF Service!Succeed, Service!At, Served
<1>10. \A ran : Service!Fail(c, ran) <=>
       /\ \/ Served[c].stage = "waiting" /\ ran = 0
          \/ Served[c].stage = "permitted"
       /\ Service!Answer(c, "error", ran)
  BY Zenon DEF Service!Fail, Service!At, Served
<1>11. Service!Return(c) <=>
       /\ Served[c].stage = "over"
       /\ Service!Become(c, Service!Idle)
  BY Zenon DEF Service!Return, Service!At, Served
<1> QED BY <1>1, <1>2, <1>3, <1>4, <1>5, <1>6, <1>7, <1>8, <1>9, <1>10, <1>11

\* A call that is not idle is served.
LEMMA ServedIs ==
  ASSUME NEW x
  PROVE  /\ x.at = "idle" => InvocationOf(x) = Service!Idle
         /\ x.at # "idle" =>
              InvocationOf(x) = [stage |-> Stage(x), tool |-> x.tool, ran |-> x.ran,
                                 answer |-> IF Stage(x) = "answered" THEN x.decision ELSE None,
                                 row |-> x.row, gone |-> x.gone]
         /\ x.at = "arrived" => Stage(x) = "waiting"
         /\ x.at \in {"authorized", "asking", "backoff"} => Stage(x) = "permitted"
         /\ x.at \in {"closing", "audit"} => Stage(x) = "answered"
         /\ x.at = "over" => Stage(x) = "over"
  BY DEF InvocationOf, Stage, Service!Idle

Same == Served' = Served /\ UNCHANGED <<live, visible>>

LEMMA StageKept ==
  ASSUME ToolCallsInv, NEW c \in Calls, NEW x, Become(c, x),
         \/ /\ call[c].at \in {"authorized", "asking", "backoff"}
            /\ x.at \in {"authorized", "asking", "backoff"}
         \/ call[c].at = "closing" /\ x.at = "audit" /\ x.decision = call[c].decision,
         x.tool = call[c].tool, x.ran = call[c].ran, x.row = call[c].row,
         x.gone = call[c].gone
  PROVE  Same
<1>1. InvocationOf(x) = InvocationOf(call[c])
  BY ServedIs
<1> QED BY <1>1, ServedStep DEF Same

\* Discovery, handshake, repetitions and the close are no steps of the invocation.
LEMMA UpstreamIsHidden ==
  ASSUME ToolCallsInv, NEW c \in Calls,
         \/ Dispatch(c) \/ Throttled(c) \/ RetryAfter(c) \/ Discovered(c)
         \/ FallBack(c) \/ Initialized(c) \/ Notified(c) \/ Close(c)
  PROVE  Same
<1>1. call[c] \in Call
  BY DEF ToolCallsInv, CallOK
<1>2. ASSUME NEW step, NEW open, Become(c, Asks(c, step, open)),
             call[c].at \in {"asking", "backoff"}
      PROVE  Same
  <2> DEFINE x == Asks(c, step, open)
  <2>1. /\ x.at = "asking" /\ x.tool = call[c].tool /\ x.ran = call[c].ran
        /\ x.row = call[c].row /\ x.gone = call[c].gone
    BY <1>1 DEF Asks, Call
  <2> HIDE DEF x
  <2> QED BY <1>2, <2>1, StageKept DEF x
<1>3. CASE Dispatch(c)
  <2>1. PICK step, open : Become(c, [call[c] EXCEPT !.at = "asking", !.step = step,
                                                    !.open = open])
    BY <1>3 DEF Dispatch
  <2> DEFINE x == [call[c] EXCEPT !.at = "asking", !.step = step, !.open = open]
  <2>2. /\ x.at = "asking" /\ x.tool = call[c].tool /\ x.ran = call[c].ran
        /\ x.row = call[c].row /\ x.gone = call[c].gone
    BY <1>1 DEF Call
  <2>3. Become(c, x) /\ call[c].at = "authorized"
    BY <1>3, <2>1 DEF Dispatch
  <2> HIDE DEF x
  <2> QED BY <2>2, <2>3, StageKept
<1>4. CASE Throttled(c)
  <2> DEFINE x == [call[c] EXCEPT !.at = "backoff"]
  <2>1. /\ x.at = "backoff" /\ x.tool = call[c].tool /\ x.ran = call[c].ran
        /\ x.row = call[c].row /\ x.gone = call[c].gone
    BY <1>1 DEF Call
  <2>2. Become(c, x) /\ call[c].at = "asking"
    BY <1>4 DEF Throttled
  <2> HIDE DEF x
  <2> QED BY <2>1, <2>2, StageKept
<1>5. CASE RetryAfter(c)
  <2> DEFINE x == [call[c] EXCEPT !.at = "asking", !.attempt = NextAttempt(c)]
  <2>1. /\ x.at = "asking" /\ x.tool = call[c].tool /\ x.ran = call[c].ran
        /\ x.row = call[c].row /\ x.gone = call[c].gone
    BY <1>1 DEF Call
  <2>2. Become(c, x) /\ call[c].at = "backoff"
    BY <1>5 DEF RetryAfter
  <2> HIDE DEF x
  <2> QED BY <2>1, <2>2, StageKept
<1>6. CASE Discovered(c) \/ FallBack(c) \/ Initialized(c) \/ Notified(c)
  <2>1. call[c].at \in {"asking", "backoff"}
    BY <1>6 DEF Discovered, FallBack, CutOff, Initialized, Notified
  <2>2. \E step, open : Become(c, Asks(c, step, open))
    BY <1>6, Zenon DEF Discovered, FallBack, Initialized, Notified
  <2> QED BY <1>2, <2>1, <2>2
<1>7. CASE Close(c)
  <2>1. PICK step, open : Become(c, [call[c] EXCEPT !.at = "audit", !.step = step,
                                                    !.open = open])
    BY <1>7 DEF Close
  <2> DEFINE x == [call[c] EXCEPT !.at = "audit", !.step = step, !.open = open]
  <2>2. /\ x.at = "audit" /\ x.tool = call[c].tool /\ x.ran = call[c].ran
        /\ x.row = call[c].row /\ x.gone = call[c].gone /\ x.decision = call[c].decision
    BY <1>1 DEF Call
  <2>3. Become(c, x) /\ call[c].at = "closing"
    BY <1>7, <2>1 DEF Close
  <2> HIDE DEF x
  <2> QED BY <2>2, <2>3, StageKept
<1> QED BY <1>3, <1>4, <1>5, <1>6, <1>7

\* What becomes of a call becomes of its invocation.
LEMMA ServiceBecomes ==
  ASSUME ToolCallsInv, NEW c \in Calls, NEW x, Become(c, x), NEW rec, InvocationOf(x) = rec
  PROVE  Service!Become(c, rec)
  BY ServedStep, ServiceSteps

LEMMA ArriveInvokes ==
  ASSUME ToolCallsInv, NEW c \in Calls, NEW t \in Tools, Arrive(c, t)
  PROVE  Service!Invoke(c, t)
<1> DEFINE x == [Idle EXCEPT !.at = "arrived", !.tool = t, !.offered = t \in visible]
<1>1. live /\ Become(c, x) /\ call[c].at = "idle"
  BY DEF Arrive, Idle
<1>2. /\ x.at = "arrived" /\ x.tool = t /\ x.ran = 0 /\ x.row = None /\ x.gone = FALSE
  BY DEF Idle
<1> HIDE DEF x
<1>3. InvocationOf(x) = [stage |-> "waiting", tool |-> t, ran |-> 0, answer |-> None,
                         row |-> None, gone |-> FALSE]
  <2>1. Stage(x) = "waiting" /\ x.at # "idle"
    BY <1>2, ServedIs
  <2> QED BY <1>2, <2>1, ServedIs
<1>4. Served[c] = Service!Idle
  BY <1>1, ServedIs, ServedStep
<1>5. Served[c].stage = "idle"
  BY <1>4 DEF Service!Idle
<1> QED BY <1>1, <1>3, <1>5, ServiceBecomes, ServiceSteps

\* The invocation of a call, in the forms the steps need.
LEMMA StageIs ==
  ASSUME ToolCallsInv, NEW c \in Calls
  PROVE  /\ call[c].at = "arrived" => Served[c].stage = "waiting"
         /\ call[c].at \in {"authorized", "asking", "backoff"} => Served[c].stage = "permitted"
         /\ call[c].at \in {"closing", "audit"} =>
              Served[c].stage = "answered" /\ Served[c].answer = call[c].decision
         /\ call[c].at = "over" => Served[c].stage = "over"
         /\ call[c].at # "idle" =>
              Served[c].tool = call[c].tool /\ Served[c].gone = call[c].gone
         /\ call[c].at \notin {"idle", "over"} =>
              Served[c].stage \in {"waiting", "permitted", "answered"}
<1> DEFINE at == call[c].at
           stage == Stage(call[c])
<1>1. at \in {"idle", "arrived", "authorized", "asking", "backoff", "closing", "audit", "over"}
  BY DEF ToolCallsInv, CallOK, Call
<1>2. at # "idle" =>
        /\ Served[c].stage = stage
        /\ Served[c].tool = call[c].tool
        /\ Served[c].gone = call[c].gone
        /\ stage = "answered" => Served[c].answer = call[c].decision
  BY ServedIs DEF Served
<1>3. /\ at = "arrived" => stage = "waiting"
      /\ at \in {"authorized", "asking", "backoff"} => stage = "permitted"
      /\ at \in {"closing", "audit"} => stage = "answered"
      /\ at = "over" => stage = "over"
  BY ServedIs
<1> HIDE DEF at, stage
<1>4. /\ at = "arrived" => Served[c].stage = "waiting"
      /\ at \in {"authorized", "asking", "backoff"} => Served[c].stage = "permitted"
      /\ at \in {"closing", "audit"} =>
           Served[c].stage = "answered" /\ Served[c].answer = call[c].decision
      /\ at = "over" => Served[c].stage = "over"
  BY <1>2, <1>3
<1>5. at \notin {"idle", "over"} => Served[c].stage \in {"waiting", "permitted", "answered"}
  BY <1>1, <1>2, <1>3
<1> QED BY <1>2, <1>4, <1>5 DEF at

\* How an invocation changes with its call.
LEMMA InvocationChanges ==
  ASSUME NEW x, NEW y, y.at # "idle", x.at # "idle", x.tool = y.tool
  PROVE  /\ Stage(x) # "answered" /\ Stage(y) # "answered"
              /\ x.ran = y.ran /\ x.row = y.row /\ x.gone = y.gone
            => InvocationOf(x) = InStage(InvocationOf(y), Stage(x))
         /\ Stage(x) = "answered" /\ x.row = y.row /\ x.gone = y.gone
            => InvocationOf(x) = AnsweredWith(InvocationOf(y), x.decision, x.ran)
         /\ Stage(x) = "over" /\ x.ran = y.ran /\ x.gone = y.gone
            => InvocationOf(x) = Recorded(InvocationOf(y), x.row)
         /\ Stage(x) = Stage(y) /\ x.decision = y.decision
              /\ x.ran = y.ran /\ x.row = y.row /\ x.gone = TRUE
            => InvocationOf(x) = Left(InvocationOf(y))
<1> DEFINE answer(z) == IF Stage(z) = "answered" THEN z.decision ELSE None
           of(s, r, a, o, g) == [stage |-> s, tool |-> y.tool, ran |-> r, answer |-> a,
                                 row |-> o, gone |-> g]
           served == of(Stage(y), y.ran, answer(y), y.row, y.gone)
<1>1. /\ InvocationOf(x) = of(Stage(x), x.ran, answer(x), x.row, x.gone)
      /\ InvocationOf(y) = served
  BY ServedIs
<1>2. /\ Stage(x) = "answered" => answer(x) = x.decision
      /\ Stage(x) # "answered" => answer(x) = None
      /\ Stage(y) # "answered" => answer(y) = None
      /\ Stage(x) = Stage(y) /\ x.decision = y.decision => answer(x) = answer(y)
  OBVIOUS
<1> HIDE DEF answer
<1>3. [served EXCEPT !.stage = Stage(x)] = of(Stage(x), y.ran, answer(y), y.row, y.gone)
  OBVIOUS
<1>4. [served EXCEPT !.gone = x.gone] = of(Stage(y), y.ran, answer(y), y.row, x.gone)
  OBVIOUS
<1>5. [served EXCEPT !.stage = "answered", !.answer = x.decision, !.ran = x.ran] =
        of("answered", x.ran, x.decision, y.row, y.gone)
  <2>1. [served EXCEPT !.stage = "answered"] = of("answered", y.ran, answer(y), y.row, y.gone)
    OBVIOUS
  <2>2. [of("answered", y.ran, answer(y), y.row, y.gone) EXCEPT !.answer = x.decision] =
          of("answered", y.ran, x.decision, y.row, y.gone)
    OBVIOUS
  <2>3. [of("answered", y.ran, x.decision, y.row, y.gone) EXCEPT !.ran = x.ran] =
          of("answered", x.ran, x.decision, y.row, y.gone)
    OBVIOUS
  <2>4. [served EXCEPT !.stage = "answered", !.answer = x.decision, !.ran = x.ran] =
          [[[served EXCEPT !.stage = "answered"] EXCEPT !.answer = x.decision] EXCEPT !.ran = x.ran]
    OBVIOUS
  <2> HIDE DEF of, served
  <2> QED BY <2>1, <2>2, <2>3, <2>4
<1>6. [served EXCEPT !.stage = "over", !.answer = None, !.row = x.row] =
        of("over", y.ran, None, x.row, y.gone)
  <2>1. [served EXCEPT !.stage = "over"] = of("over", y.ran, answer(y), y.row, y.gone)
    OBVIOUS
  <2>2. [of("over", y.ran, answer(y), y.row, y.gone) EXCEPT !.answer = None] =
          of("over", y.ran, None, y.row, y.gone)
    OBVIOUS
  <2>3. [of("over", y.ran, None, y.row, y.gone) EXCEPT !.row = x.row] =
          of("over", y.ran, None, x.row, y.gone)
    OBVIOUS
  <2>4. [served EXCEPT !.stage = "over", !.answer = None, !.row = x.row] =
          [[[served EXCEPT !.stage = "over"] EXCEPT !.answer = None] EXCEPT !.row = x.row]
    OBVIOUS
  <2> HIDE DEF of, served
  <2> QED BY <2>1, <2>2, <2>3, <2>4
<1> HIDE DEF of, served
<1>7. Stage(x) # "answered" /\ Stage(y) # "answered"
        /\ x.ran = y.ran /\ x.row = y.row /\ x.gone = y.gone
      => InvocationOf(x) = InStage(InvocationOf(y), Stage(x))
  BY <1>1, <1>2, <1>3 DEF InStage
<1>8. Stage(x) = "answered" /\ x.row = y.row /\ x.gone = y.gone
      => InvocationOf(x) = AnsweredWith(InvocationOf(y), x.decision, x.ran)
  BY <1>1, <1>2, <1>5 DEF AnsweredWith
<1>9. Stage(x) = "over" /\ x.ran = y.ran /\ x.gone = y.gone
      => InvocationOf(x) = Recorded(InvocationOf(y), x.row)
  BY <1>1, <1>2, <1>6 DEF Recorded
<1>10. Stage(x) = Stage(y) /\ x.decision = y.decision
         /\ x.ran = y.ran /\ x.row = y.row /\ x.gone = TRUE
       => InvocationOf(x) = Left(InvocationOf(y))
  BY <1>1, <1>2, <1>4 DEF Left
<1> QED BY <1>7, <1>8, <1>9, <1>10

\* The tool is looked up when the call is permitted or refused.
LEMMA ResolveDecides ==
  ASSUME ToolCallsInv, NEW c \in Calls, NEW kind \in Kinds, ResolveTool(c, kind)
  PROVE  Service!Permit(c) \/ Service!Refuse(c)
<1>1. /\ CallOK(call[c]) /\ call[c] \in Call /\ call[c].at = "arrived"
      /\ call[c].ran = 0 /\ Stage(call[c]) = "waiting"
      /\ Served[c] = InvocationOf(call[c])
  BY ServedIs DEF ToolCallsInv, CallOK, OutcomeOK, ResolveTool, Served
<1>2. Served[c].stage = "waiting" /\ Served[c].tool = call[c].tool
  BY <1>1, StageIs
<1>3. CASE Granted(call[c].tool)
  <2> DEFINE x == [call[c] EXCEPT !.at = "authorized", !.kind = kind]
  <2>1. Become(c, x)
    BY <1>3 DEF ResolveTool
  <2>2. /\ x.at = "authorized" /\ x.tool = call[c].tool /\ x.ran = call[c].ran
        /\ x.row = call[c].row /\ x.gone = call[c].gone
    BY <1>1 DEF Call
  <2> HIDE DEF x
  <2>3. Stage(x) = "permitted"
    BY <2>2, ServedIs
  <2>4. InvocationOf(x) = InStage(InvocationOf(call[c]), "permitted")
    BY <1>1, <2>2, <2>3, InvocationChanges
  <2>5. Service!Become(c, InStage(Served[c], "permitted"))
    BY <1>1, <2>1, <2>3, <2>4, ServiceBecomes
  <2> QED BY <1>2, <1>3, <2>5, ServiceSteps, Zenon DEF Granted
<1>4. CASE ~Granted(call[c].tool)
  <2> DEFINE x == [call[c] EXCEPT !.at = "audit", !.decision = "denied"]
  <2>1. Become(c, x)
    BY <1>4 DEF ResolveTool, Ends
  <2>2. /\ x.at = "audit" /\ x.tool = call[c].tool /\ x.ran = 0
        /\ x.row = call[c].row /\ x.gone = call[c].gone /\ x.decision = "denied"
    BY <1>1 DEF Call
  <2> HIDE DEF x
  <2>3. Stage(x) = "answered"
    BY <2>2, ServedIs
  <2>4. InvocationOf(x) = AnsweredWith(InvocationOf(call[c]), "denied", 0)
    BY <1>1, <2>2, <2>3, InvocationChanges
  <2>5. Service!Answer(c, "denied", 0)
    <3>1. Service!Become(c, AnsweredWith(Served[c], "denied", 0))
      BY <1>1, <2>1, <2>4, ServiceBecomes
    <3> QED BY <3>1, ServiceSteps, Zenon
  <2> QED BY <1>2, <1>4, <2>5, ServiceSteps, Zenon DEF Granted
<1> QED BY <1>3, <1>4

\* An answer to a call answers its invocation.
LEMMA AnswersIt ==
  ASSUME ToolCallsInv, NEW c \in Calls, call[c].at # "idle", NEW x, Become(c, x),
         x.at \in {"closing", "audit"}, x.tool = call[c].tool, x.row = call[c].row,
         x.gone = call[c].gone
  PROVE  Service!Answer(c, x.decision, x.ran)
<1>1. Stage(x) = "answered" /\ x.at # "idle"
  BY ServedIs
<1>2. InvocationOf(x) = AnsweredWith(InvocationOf(call[c]), x.decision, x.ran)
  BY <1>1, InvocationChanges
<1>3. Service!Become(c, AnsweredWith(Served[c], x.decision, x.ran))
  BY <1>2, ServedStep, ServiceBecomes
<1> QED BY <1>3, ServiceSteps, Zenon

\* An error before the tool was asked, while it was asked, or in the handshake.
LEMMA ErrorsFail ==
  ASSUME ToolCallsInv, NEW c \in Calls,
         NotAuthorized(c) \/ HandshakeFails(c) \/ \E ran \in BOOLEAN : Unanswered(c, ran)
  PROVE  \E ran \in {0, 1} : Service!Fail(c, ran)
<1>1. call[c] \in Call /\ (call[c].at \notin {"closing", "audit", "over"} => call[c].ran = 0)
  BY DEF ToolCallsInv, CallOK, OutcomeOK
<1>2. CASE NotAuthorized(c)
  <2> DEFINE x == [call[c] EXCEPT !.at = "audit", !.decision = "error"]
  <2>1. Become(c, x) /\ call[c].at \in {"arrived", "authorized"}
    BY <1>2 DEF NotAuthorized, Ends
  <2>2. /\ x.at = "audit" /\ x.tool = call[c].tool /\ x.ran = 0
        /\ x.row = call[c].row /\ x.gone = call[c].gone /\ x.decision = "error"
    BY <1>1, <2>1 DEF Call
  <2> HIDE DEF x
  <2>3. Service!Answer(c, x.decision, x.ran)
    BY <2>1, <2>2, AnswersIt
  <2>4. Service!Answer(c, "error", 0)
    BY <2>2, <2>3
  <2>5. Served[c].stage \in {"waiting", "permitted"}
    BY <2>1, StageIs
  <2>6. Service!Fail(c, 0)
    BY <2>4, <2>5, ServiceSteps, Zenon
  <2> QED BY <2>6
<1>3. CASE HandshakeFails(c)
  <2> DEFINE x == [call[c] EXCEPT !.at = "audit", !.decision = "error", !.open = Abandoned(c)]
  <2>1. Become(c, x) /\ call[c].at \in {"asking", "backoff"}
    BY <1>3 DEF HandshakeFails, CutOff
  <2>2. /\ x.at = "audit" /\ x.tool = call[c].tool /\ x.ran = 0
        /\ x.row = call[c].row /\ x.gone = call[c].gone /\ x.decision = "error"
    BY <1>1, <2>1 DEF Call
  <2> HIDE DEF x
  <2>3. Service!Answer(c, x.decision, x.ran)
    BY <2>1, <2>2, AnswersIt
  <2>4. Service!Answer(c, "error", 0)
    BY <2>2, <2>3
  <2>5. Served[c].stage = "permitted"
    BY <2>1, StageIs
  <2>6. Service!Fail(c, 0)
    BY <2>4, <2>5, ServiceSteps, Zenon
  <2> QED BY <2>6
<1>4. ASSUME NEW ran \in BOOLEAN, Unanswered(c, ran)
      PROVE  \E times \in {0, 1} : Service!Fail(c, times)
  <2> DEFINE x == [call[c] EXCEPT !.at = AfterFailure(c), !.decision = "error",
                                  !.ran = IF ran THEN @ + 1 ELSE @]
             times == IF ran THEN 1 ELSE 0
  <2>1. Become(c, x) /\ call[c].at \in {"asking", "backoff"}
    BY <1>4 DEF Unanswered, CutOff
  <2>2. call[c].ran = 0
    BY <1>1, <2>1
  <2>3. x.ran = times
    BY <1>1, <2>2 DEF Call
  <2>4. /\ x.at = "closing" /\ x.tool = call[c].tool
        /\ x.row = call[c].row /\ x.gone = call[c].gone /\ x.decision = "error"
    BY <1>1 DEF Call, AfterFailure
  <2>5. times \in {0, 1}
    OBVIOUS
  <2> HIDE DEF x, times
  <2>6. Service!Answer(c, x.decision, x.ran)
    BY <2>1, <2>4, AnswersIt
  <2>7. Service!Answer(c, "error", times)
    BY <2>3, <2>4, <2>6
  <2>8. Served[c].stage = "permitted"
    BY <2>1, StageIs
  <2>9. Service!Fail(c, times)
    BY <2>7, <2>8, ServiceSteps, Zenon
  <2> QED BY <2>5, <2>9
<1> QED BY <1>2, <1>3, <1>4

LEMMA AnsweredSucceeds ==
  ASSUME ToolCallsInv, NEW c \in Calls, Answered(c)
  PROVE  Service!Succeed(c)
<1> DEFINE x == [call[c] EXCEPT !.at = "closing", !.decision = "allowed", !.ran = @ + 1]
<1>1. Become(c, x) /\ call[c].at = "asking"
  BY DEF Answered
<1>2. call[c] \in Call /\ call[c].ran = 0
  BY <1>1 DEF ToolCallsInv, CallOK, OutcomeOK
<1>3. /\ x.at = "closing" /\ x.tool = call[c].tool /\ x.ran = 1
      /\ x.row = call[c].row /\ x.gone = call[c].gone /\ x.decision = "allowed"
  BY <1>2 DEF Call
<1> HIDE DEF x
<1>4. Service!Answer(c, x.decision, x.ran)
  BY <1>1, <1>3, AnswersIt
<1>5. Service!Answer(c, "allowed", 1)
  BY <1>3, <1>4
<1>6. Served[c].stage = "permitted"
  BY <1>1, StageIs
<1> QED BY <1>5, <1>6, ServiceSteps, Zenon

LEMMA MismatchRejects ==
  ASSUME ToolCallsInv, NEW c \in Calls, HeaderMismatch(c)
  PROVE  Service!Reject(c)
<1> DEFINE x == [call[c] EXCEPT !.at = "over"]
<1>1. Become(c, x) /\ call[c].at = "authorized" /\ call[c] \in Call
  BY DEF HeaderMismatch, ToolCallsInv, CallOK
<1>2. /\ x.at = "over" /\ x.tool = call[c].tool /\ x.ran = call[c].ran
      /\ x.row = call[c].row /\ x.gone = call[c].gone
  BY <1>1 DEF Call
<1> HIDE DEF x
<1>3. Stage(x) = "over" /\ Stage(call[c]) = "permitted" /\ x.at # "idle"
  BY <1>1, <1>2, ServedIs
<1>4. InvocationOf(x) = InStage(InvocationOf(call[c]), "over")
  BY <1>1, <1>2, <1>3, InvocationChanges
<1>5. Service!Become(c, InStage(Served[c], "over"))
  BY <1>1, <1>4, ServedStep, ServiceBecomes
<1>6. Served[c].stage = "permitted"
  BY <1>1, StageIs
<1> QED BY <1>5, <1>6, ServiceSteps, Zenon

LEMMA AuditRecords ==
  ASSUME ToolCallsInv, NEW c \in Calls, Audit(c)
  PROVE  \E row \in Service!Answers \cup {None, "lost"} : Service!Record(c, row)
<1>1. PICK row \in Rows(c) : Become(c, [call[c] EXCEPT !.at = "over", !.row = row])
  BY DEF Audit
<1> DEFINE x == [call[c] EXCEPT !.at = "over", !.row = row]
<1>2. Become(c, x) /\ call[c].at = "audit" /\ call[c] \in Call
  BY <1>1 DEF Audit, ToolCallsInv, CallOK
<1>3. /\ x.at = "over" /\ x.tool = call[c].tool /\ x.ran = call[c].ran
      /\ x.row = row /\ x.gone = call[c].gone
  BY <1>2 DEF Call
<1>4. call[c].decision \in Decisions
  BY <1>2 DEF Call
<1> HIDE DEF x
<1>5. Stage(x) = "over" /\ x.at # "idle"
  BY <1>3, ServedIs
<1>6. InvocationOf(x) = Recorded(InvocationOf(call[c]), row)
  BY <1>2, <1>3, <1>5, InvocationChanges
<1>7. Service!Become(c, Recorded(Served[c], row))
  BY <1>2, <1>6, ServedStep, ServiceBecomes
<1>8. /\ Served[c].stage = "answered" /\ Served[c].answer = call[c].decision
      /\ Served[c].gone = call[c].gone
  BY <1>2, StageIs
<1>9. row \in IF Served[c].gone THEN {None} ELSE {Served[c].answer, "lost"}
  BY <1>1, <1>8 DEF Rows
<1>10. Service!Record(c, row)
  BY <1>7, <1>8, <1>9, ServiceSteps, Zenon
<1>11. row \in Service!Answers \cup {None, "lost"}
  BY <1>1, <1>4 DEF Rows, Decisions, Service!Answers
<1> QED BY <1>10, <1>11

LEMMA ClientLeaves ==
  ASSUME ToolCallsInv, NEW c \in Calls, ClientGoes(c)
  PROVE  Service!Leave(c)
<1> DEFINE x == [call[c] EXCEPT !.gone = TRUE]
<1>1. /\ Become(c, x) /\ call[c].at \notin {"idle", "over"} /\ ~call[c].gone
      /\ call[c] \in Call
  BY DEF ClientGoes, ToolCallsInv, CallOK
<1>2. /\ x.at = call[c].at /\ x.tool = call[c].tool /\ x.ran = call[c].ran
      /\ x.row = call[c].row /\ x.gone = TRUE /\ x.decision = call[c].decision
  BY <1>1 DEF Call
<1> HIDE DEF x
<1>3. Stage(x) = Stage(call[c])
  BY <1>2 DEF Stage
<1>4. InvocationOf(x) = Left(InvocationOf(call[c]))
  BY <1>1, <1>2, <1>3, InvocationChanges
<1>5. Service!Become(c, Left(Served[c]))
  BY <1>1, <1>4, ServedStep, ServiceBecomes
<1>6. /\ Served[c].stage \in {"waiting", "permitted", "answered"}
      /\ Served[c].gone = call[c].gone
  BY <1>1, StageIs
<1>7. Served[c].stage # "idle" /\ Served[c].stage # "over" /\ ~Served[c].gone
  BY <1>1, <1>6
<1> QED BY <1>5, <1>7, ServiceSteps, Zenon

LEMMA ForgetReturns ==
  ASSUME ToolCallsInv, NEW c \in Calls, Forget(c)
  PROVE  Service!Return(c)
<1>1. Become(c, Idle) /\ call[c].at = "over"
  BY DEF Forget
<1>2. Idle.at = "idle"
  BY DEF Idle
<1>3. InvocationOf(Idle) = Service!Idle
  BY <1>2, ServedIs
<1>4. Service!Become(c, Service!Idle)
  BY <1>1, <1>3, ServiceBecomes
<1>5. Served[c].stage = "over"
  BY <1>1, StageIs
<1> QED BY <1>4, <1>5, ServiceSteps, Zenon

\* What the operator does is no step of a call: an invocation does not remember
\* what was visible before.
LEMMA OperatorAdministers ==
  ASSUME ToolCallsInv,
         \/ \E t \in Tools : SetVisible(t)
         \/ \E on \in BOOLEAN : SetLive(on)
  PROVE  Service!Administer
<1>1. TypeOK'
  BY SetVisibleOK, SetLiveOK DEF ToolCallsInv
<1>2. live' \in BOOLEAN /\ visible' \in SUBSET Tools
  BY <1>1 DEF TypeOK
<1>3. Served' = Served
  <2>1. CASE \E on \in BOOLEAN : SetLive(on)
    BY <2>1 DEF SetLive, Served
  <2>2. CASE \E t \in Tools : SetVisible(t)
    <3>1. PICK on \in [Calls -> BOOLEAN] :
            call' = [c \in Calls |-> [call[c] EXCEPT !.offered = on[c]]]
      <4>1. PICK t \in Tools : SetVisible(t)
        BY <2>2
      <4> DEFINE now == IF t \in visible THEN visible \ {t} ELSE visible \cup {t}
                 on(c) == call[c].offered \/ (call[c].at # "idle" /\ call[c].tool \in now)
      <4>2. call' = [c \in Calls |-> [call[c] EXCEPT !.offered = on(c)]]
        BY <4>1 DEF SetVisible
      <4>3. \A c \in Calls : on(c) \in BOOLEAN
        BY DEF ToolCallsInv, CallOK, Call
      <4> HIDE DEF on
      <4>4. [c \in Calls |-> on(c)] \in [Calls -> BOOLEAN]
        BY <4>3
      <4>5. call' = [c \in Calls |-> [call[c] EXCEPT !.offered = [d \in Calls |-> on(d)][c]]]
        BY <4>2
      <4> QED BY <4>4, <4>5
    <3>2. ASSUME NEW c \in Calls PROVE InvocationOf(call'[c]) = InvocationOf(call[c])
      <4> DEFINE y == [call[c] EXCEPT !.offered = on[c]]
      <4>1. call'[c] = y /\ call[c] \in Call
        BY <3>1 DEF ToolCallsInv, CallOK
      <4>2. /\ y.at = call[c].at /\ y.tool = call[c].tool /\ y.ran = call[c].ran
            /\ y.row = call[c].row /\ y.gone = call[c].gone
            /\ y.decision = call[c].decision
        BY <4>1 DEF Call
      <4> HIDE DEF y
      <4>3. InvocationOf(y) = InvocationOf(call[c])
        BY <4>2 DEF InvocationOf, Stage
      <4> QED BY <4>1, <4>3
    <3> DEFINE of(c) == InvocationOf(call[c])
               of1(c) == InvocationOf(call'[c])
    <3>3. Served = [c \in Calls |-> of(c)] /\ Served' = [c \in Calls |-> of1(c)]
      BY Zenon DEF Served
    <3>4. \A c \in Calls : of1(c) = of(c)
      BY <3>2
    <3> HIDE DEF of, of1
    <3> QED BY <3>3, <3>4
  <2> QED BY <2>1, <2>2
<1>4. Service!Administer <=> live' \in BOOLEAN /\ visible' \in SUBSET Tools /\ Served' = Served
  BY Zenon DEF Service!Administer, Served
<1> QED BY <1>2, <1>3, <1>4

LEMMA ServiceInit == Init => Service!Init
<1> SUFFICES ASSUME Init PROVE Served = [c \in Calls |-> Service!Idle]
  <2>1. Service!Init <=> live = TRUE /\ visible \in SUBSET Tools
                         /\ Served = [c \in Calls |-> Service!Idle]
    BY Zenon DEF Service!Init, Served
  <2> QED BY <2>1 DEF Init
<1>1. \A c \in Calls : call[c].at = "idle"
  BY DEF Init, Idle
<1>2. \A c \in Calls : InvocationOf(call[c]) = Service!Idle
  BY <1>1, ServedIs
<1> QED BY <1>2 DEF Served

LEMMA ServiceNext == ToolCallsInv /\ [Next]_vars => Service!Next \/ Same
<1> SUFFICES ASSUME ToolCallsInv, [Next]_vars PROVE Service!Next \/ Same
  OBVIOUS
<1>1. ASSUME NEW c \in Calls, \E t \in Tools : Arrive(c, t) PROVE Service!Next
  BY <1>1, ArriveInvokes DEF Service!Next
<1>2. ASSUME NEW c \in Calls, Proceed(c) PROVE Service!Next \/ Same
  <2>1. CASE \E kind \in Kinds : ResolveTool(c, kind)
    BY <2>1, ResolveDecides DEF Service!Next
  <2>2. CASE NotAuthorized(c) \/ HandshakeFails(c) \/ \E ran \in BOOLEAN : Unanswered(c, ran)
    BY <2>2, ErrorsFail DEF Service!Next
  <2>3. CASE HeaderMismatch(c)
    BY <2>3, MismatchRejects DEF Service!Next
  <2>4. CASE Answered(c)
    BY <2>4, AnsweredSucceeds DEF Service!Next
  <2>5. CASE Audit(c)
    BY <2>5, AuditRecords DEF Service!Next
  <2> QED BY <1>2, <2>1, <2>2, <2>3, <2>4, <2>5, UpstreamIsHidden DEF Proceed
<1>3. ASSUME NEW c \in Calls, ClientGoes(c) \/ Forget(c) PROVE Service!Next
  BY <1>3, ClientLeaves, ForgetReturns DEF Service!Next
<1>4. CASE (\E t \in Tools : SetVisible(t)) \/ \E on \in BOOLEAN : SetLive(on)
  BY <1>4, OperatorAdministers DEF Service!Next
<1>5. CASE BeginList \/ ListTools \/ UNCHANGED vars
  BY <1>5 DEF BeginList, ListTools, vars, Same, Served
<1> QED BY <1>1, <1>2, <1>3, <1>4, <1>5 DEF Next

\* Whatever the upstream needs or fails at, a call is decided once by what its
\* agent can see, runs its tool once at most after that and never before, and has
\* the row of the answer (callTool and ServeHTTP in internal/mcp/handler.go).
THEOREM CallsImplementInvocations == Spec => ImplementsInvocations
<1>1. ToolCallsInv /\ [Next]_vars => [Service!Next]_(Service!vars)
  <2>1. Same => UNCHANGED Service!vars
    BY Zenon DEF Same, Served, Service!vars
  <2> QED BY <2>1, ServiceNext
<1> QED BY <1>1, ServiceInit, Invariance, PTL DEF Spec, ImplementsInvocations, Service!Spec
=============================================================================
