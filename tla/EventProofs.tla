---------------------------- MODULE EventProofs -----------------------------
(***************************************************************************)
(* Proofs about the two readers of a rollout, EventPaging and EventExport. *)
(***************************************************************************)
EXTENDS EventPaging, EventExport, FiniteSetTheorems, TLAPS

(***************************************************************************)
(* The pages a client puts together are the beginning of one version of    *)
(* the rollout, for all contents, limits and lengths.                      *)
(***************************************************************************)

(* The events of the lines after m, up to n.                               *)
PageableIn(c, m, n) ==
  {[at |-> i, ord |-> Ordinal(c, i)] : i \in {j \in m + 1 .. n : Pageable(c[j])}}

(* The client's cursor is where its pages end.                             *)
CursorMatchesPass ==
  IF cursor.key = 0 THEN cursor = NoCursor /\ (pass.done \/ pass = NoPass)
  ELSE /\ ~pass.done
       /\ pass.of = cursor.version
       /\ pass.upto = cursor.next
       /\ cursor.next \in 1 .. Len(past[cursor.version]) - 1
       /\ cursor.ord = Ordinal(past[cursor.version], cursor.next)

(* A request on an unchanged rollout has read on from where the pages end. *)
RequestReadsOn ==
  (req.state # "none" /\ Current) =>
    /\ ~pass.done
    /\ pass.of = version \/ pass = NoPass
    /\ req.from = pass.upto
    /\ req.from <= req.pos /\ req.pos <= req.size
    /\ req.size = Len(Now)
    /\ req.ord = Ordinal(Now, req.pos)
    /\ req.got = PageableIn(Now, req.from, req.pos)
    /\ pass.omitted + req.omitted = Cardinality(OversizedUpTo(Now, req.pos))
    /\ req.bytes >= 2
    /\ req.got = {} => req.bytes = 2
    /\ req.state = "ending" => req.pos = req.size \/ req.got # {}

NoFutureVersion ==
  cursor.version <= version /\ req.version <= version /\ pass.of <= version

Inv == /\ TypeOK /\ NoFutureVersion /\ PagesAreOneVersion
       /\ CursorMatchesPass /\ RequestReadsOn

-----------------------------------------------------------------------------
(* A version of the rollout that was is a sequence of lines.               *)
LEMMA NowTyped ==
  ASSUME TypeOK, NEW v \in 0 .. MaxVersion
  PROVE  past[v] \in Seq(Line) /\ Len(past[v]) \in Nat
<1>1. past[v] \in Contents
  BY DEF TypeOK
<1> QED BY <1>1, ContentsAssumption

(* The lines counted up to a place are finitely many.                      *)
LEMMA UpToFinite ==
  ASSUME NEW c, NEW n \in Nat
  PROVE  /\ IsFiniteSet(RecordsUpTo(c, n)) /\ Ordinal(c, n) \in Nat
         /\ IsFiniteSet(OversizedUpTo(c, n)) /\ Cardinality(OversizedUpTo(c, n)) \in Nat
<1>1. IsFiniteSet(1 .. n)
  BY FS_Interval
<1>2. RecordsUpTo(c, n) \subseteq 1 .. n /\ OversizedUpTo(c, n) \subseteq 1 .. n
  BY DEF RecordsUpTo, OversizedUpTo
<1> QED BY <1>1, <1>2, FS_Subset, FS_CardinalityType DEF Ordinal

(* There is no line before the first.                                      *)
LEMMA NothingUpToZero ==
  ASSUME NEW c
  PROVE  /\ Ordinal(c, 0) = 0 /\ Cardinality(OversizedUpTo(c, 0)) = 0
         /\ PageableUpTo(c, 0) = {}
<1>1. RecordsUpTo(c, 0) = {} /\ OversizedUpTo(c, 0) = {}
  BY DEF RecordsUpTo, OversizedUpTo
<1> QED BY <1>1, FS_EmptySet DEF Ordinal, PageableUpTo

(* One more line.                                                          *)
LEMMA OrdinalStep ==
  ASSUME NEW c, NEW n \in Nat
  PROVE  Ordinal(c, n + 1) = IF IsRecord(c[n + 1]) THEN Ordinal(c, n) + 1 ELSE Ordinal(c, n)
<1>1. RecordsUpTo(c, n + 1) =
        IF IsRecord(c[n + 1]) THEN RecordsUpTo(c, n) \cup {n + 1} ELSE RecordsUpTo(c, n)
  BY DEF RecordsUpTo
<1>2. n + 1 \notin RecordsUpTo(c, n)
  BY DEF RecordsUpTo
<1> QED BY <1>1, <1>2, UpToFinite, FS_AddElement DEF Ordinal

(* One more line that is too long, or not.                                 *)
LEMMA OversizedStep ==
  ASSUME NEW c, NEW n \in Nat
  PROVE  Cardinality(OversizedUpTo(c, n + 1)) =
           IF IsEvent(c[n + 1]) /\ ~Fits(c[n + 1]) THEN Cardinality(OversizedUpTo(c, n)) + 1
                                                   ELSE Cardinality(OversizedUpTo(c, n))
<1>1. OversizedUpTo(c, n + 1) =
        IF IsEvent(c[n + 1]) /\ ~Fits(c[n + 1]) THEN OversizedUpTo(c, n) \cup {n + 1}
                                                ELSE OversizedUpTo(c, n)
  BY DEF OversizedUpTo
<1>2. n + 1 \notin OversizedUpTo(c, n)
  BY DEF OversizedUpTo
<1> QED BY <1>1, <1>2, UpToFinite, FS_AddElement

(* One more line that fits a page, or not.                                 *)
LEMMA PageableStep ==
  ASSUME NEW c, NEW m \in Nat, NEW n \in Nat, m <= n
  PROVE  PageableIn(c, m, n + 1) =
           IF Pageable(c[n + 1])
           THEN PageableIn(c, m, n) \cup {[at |-> n + 1, ord |-> Ordinal(c, n + 1)]}
           ELSE PageableIn(c, m, n)
<1> DEFINE Lines(k) == {j \in m + 1 .. k : Pageable(c[j])}
<1>1. Lines(n + 1) = IF Pageable(c[n + 1]) THEN Lines(n) \cup {n + 1} ELSE Lines(n)
  OBVIOUS
<1> QED BY <1>1 DEF PageableIn

(* The pages so far and the page that was read on from them.               *)
LEMMA PagesJoin ==
  ASSUME NEW c, NEW m \in Nat, NEW n \in Nat, m <= n
  PROVE  PageableUpTo(c, n) = PageableUpTo(c, m) \cup PageableIn(c, m, n)
<1> DEFINE Lines(i, k) == {j \in i .. k : Pageable(c[j])}
<1>1. Lines(1, n) = Lines(1, m) \cup Lines(m + 1, n)
  OBVIOUS
<1> QED BY <1>1 DEF PageableUpTo, PageableIn

(* No event is between a place and itself.                                 *)
LEMMA NothingReadYet ==
  ASSUME NEW c, NEW m \in Nat
  PROVE  PageableIn(c, m, m) = {}
BY DEF PageableIn

-----------------------------------------------------------------------------
(* The initial states satisfy Inv.                                         *)
LEMMA InitInv == Init => Inv
<1> SUFFICES ASSUME Init PROVE Inv
  OBVIOUS
<1> USE DEF Init, SourceInit, NoReq, NoPass, NoCursor
<1>1. TypeOK
  BY VersionAssumption DEF TypeOK, Requests, Tags
<1>2. Len(past[0]) \in Nat
  BY <1>1, NowTyped, VersionAssumption
<1>3. PagesAreOneVersion
  BY <1>2, NothingUpToZero DEF PagesAreOneVersion
<1> QED BY <1>1, <1>3 DEF Inv, NoFutureVersion, CursorMatchesPass, RequestReadsOn

(* The client starts over.                                                 *)
LEMMA StartOverInv ==
  ASSUME Inv, StartOver, UNCHANGED <<version, past>>, key' \in Nat \ {0}, lost' \in Nat
  PROVE  Inv'
<1> USE DEF StartOver, NoReq, NoPass, NoCursor
<1>1. version \in 0 .. MaxVersion /\ 0 \in 0 .. MaxVersion /\ Len(past[0]) \in Nat
  BY NowTyped, VersionAssumption DEF Inv, TypeOK, Requests
<1>2. TypeOK'
  BY <1>1 DEF Inv, TypeOK, Requests
<1>3. PagesAreOneVersion'
  BY <1>1, NothingUpToZero DEF PagesAreOneVersion
<1> QED BY <1>1, <1>2, <1>3 DEF Inv, NoFutureVersion, CursorMatchesPass, RequestReadsOn

(* A step that only abandons the request.                                  *)
LEMMA NoRequestInv ==
  ASSUME Inv, req' = NoReq, UNCHANGED <<version, past, cursor, pass>>,
         key' \in Nat \ {0}, lost' \in Nat
  PROVE  Inv'
<1> USE DEF NoReq
<1>1. 0 \in 0 .. MaxVersion
  BY VersionAssumption
<1>2. req' \in Requests
  BY <1>1 DEF Requests
<1>3. TypeOK' /\ NoFutureVersion'
  BY <1>2 DEF Inv, TypeOK, NoFutureVersion
<1>4. RequestReadsOn'
  BY DEF RequestReadsOn
<1> QED BY <1>3, <1>4 DEF Inv, PagesAreOneVersion, CursorMatchesPass

(* A request keeps Inv.                                                    *)
LEMMA AskInv ==
  ASSUME Inv, NEW limit \in Limits, Ask(limit)
  PROVE  Inv'
<1>1. CASE ~Accepted(cursor)
  BY <1>1, StartOverInv DEF Ask, Inv, TypeOK, source
<1>2. CASE Accepted(cursor)
  <2> USE DEF NoReq
  <2>0. /\ req' = [state |-> "reading", version |-> version, size |-> Len(Now),
                   from |-> cursor.next, pos |-> cursor.next, ord |-> cursor.ord,
                   limit |-> limit, got |-> {}, bytes |-> 2, omitted |-> 0]
        /\ UNCHANGED <<version, past, key, cursor, pass, lost>> /\ ~pass.done
    BY <1>2 DEF Ask, source
  <2>1. /\ version \in 0 .. MaxVersion /\ Len(Now) \in Nat /\ cursor.next \in Nat
        /\ cursor.ord \in Nat /\ limit \in Nat \ {0} /\ cursor.key \in Nat
    BY NowTyped, PagingAssumption DEF Inv, TypeOK, Requests, Now
  <2>2. TypeOK'
    BY <2>0, <2>1 DEF Inv, TypeOK, Requests
  <2>3. /\ pass.of = version \/ pass = NoPass
        /\ cursor.next = pass.upto
        /\ cursor.next <= Len(Now)
        /\ cursor.ord = Ordinal(Now, cursor.next)
        /\ pass.omitted = Cardinality(OversizedUpTo(Now, cursor.next))
    <3>1. CASE cursor.key = 0
      BY <3>1, <2>0, <2>1, NothingUpToZero DEF Inv, CursorMatchesPass, NoCursor, NoPass
    <3>2. CASE cursor.key # 0
      BY <3>2, <1>2 DEF Inv, CursorMatchesPass, PagesAreOneVersion, Accepted, Now
    <3> QED BY <3>1, <3>2
  <2>4. RequestReadsOn'
    BY <2>0, <2>1, <2>3, NothingReadYet DEF RequestReadsOn, Current, Now, Inv, TypeOK
  <2> QED BY <2>0, <2>2, <2>4, <2>1 DEF Inv, NoFutureVersion, PagesAreOneVersion, CursorMatchesPass
<1> QED BY <1>1, <1>2

(* Reading a line keeps Inv.                                               *)
LEMMA ReadLineInv ==
  ASSUME Inv, ReadLine
  PROVE  Inv'
<1> PICK line \in LinesAt(req.version, req.pos + 1) :
       req' = IF ~IsEvent(line)      THEN Processed(line)
              ELSE IF ~TooLong(line) THEN Taken(line)
              ELSE IF LeftForNext    THEN [req EXCEPT !.state = "ending"]
              ELSE [Processed(line) EXCEPT !.omitted = req.omitted + 1]
  BY DEF ReadLine
<1>1. UNCHANGED <<version, past, key, cursor, pass, lost>> /\ req.state = "reading" /\ req.pos < req.size
  BY DEF ReadLine, source
<1>2. /\ req \in Requests
      /\ req.version \in 0 .. MaxVersion /\ req.size \in Nat /\ req.from \in Nat
      /\ req.pos \in Nat /\ req.ord \in Nat /\ req.limit \in Nat \ {0}
      /\ req.got \subseteq Tags /\ req.bytes \in Nat /\ req.omitted \in Nat
  BY DEF Inv, TypeOK, Requests
<1>3. line.size \in Nat
  <2>1. line \in Line
    <3>1. CASE req.version # version
      BY <3>1 DEF LinesAt
    <3>2. CASE req.version = version
      <4>1. ~(req.version # version) /\ req.size = Len(Now) /\ Now \in Seq(Line)
        BY <3>2, <1>1, NowTyped DEF Inv, TypeOK, Requests, RequestReadsOn, Current, Now
      <4> QED BY <4>1, <3>2, <1>1, <1>2 DEF LinesAt, Now
    <3> QED BY <3>1, <3>2
  <2> QED BY <2>1, LineAssumption
<1>4. Cost(line) \in Nat
  BY <1>3 DEF Cost
<1>5. /\ Processed(line) \in Requests
      /\ Processed(line).pos = req.pos + 1
      /\ Processed(line).ord = IF IsRecord(line) THEN req.ord + 1 ELSE req.ord
      /\ \A f \in {"state", "version", "size", "from", "limit", "got", "bytes", "omitted"} :
           Processed(line)[f] = req[f]
  <2> DEFINE new == req.ord + IF IsRecord(line) THEN 1 ELSE 0
  <2>1. new \in Nat /\ req.pos + 1 \in Nat /\ new = IF IsRecord(line) THEN req.ord + 1 ELSE req.ord
    BY <1>2 DEF Requests
  <2> HIDE DEF new
  <2>2. Processed(line) = [req EXCEPT !.pos = req.pos + 1, !.ord = new]
    BY DEF Processed, new
  <2> QED BY <1>2, <2>1, <2>2 DEF Requests
<1>6. TypeOK'
  <2>1. [at |-> req.pos + 1, ord |-> req.ord + 1] \in Tags
    BY <1>2 DEF Requests, Tags
  <2>2. Taken(line) \in Requests
    <3> DEFINE state == IF Cardinality(req.got) + 1 >= req.limit THEN "ending" ELSE "reading"
               tag   == [at |-> req.pos + 1, ord |-> req.ord + 1]
    <3>1. state \in {"reading", "ending"} /\ req.got \cup {tag} \in SUBSET Tags
          /\ req.bytes + Cost(line) \in Nat
      BY <1>2, <1>4, <2>1
    <3>2. Taken(line) = [Processed(line) EXCEPT !.got = req.got \cup {tag},
                                               !.bytes = req.bytes + Cost(line), !.state = state]
      BY DEF Taken
    <3> HIDE DEF state, tag
    <3> QED BY <1>5, <3>1, <3>2 DEF Requests
  <2>3. [Processed(line) EXCEPT !.omitted = req.omitted + 1] \in Requests
    BY <1>2, <1>5 DEF Requests
  <2>4. [req EXCEPT !.state = "ending"] \in Requests
    BY <1>2 DEF Requests
  <2>5. req' \in Requests
    BY <1>5, <2>2, <2>3, <2>4
  <2> QED BY <1>1, <2>5 DEF Inv, TypeOK, Requests
<1>7. NoFutureVersion'
  BY <1>1, <1>2, <1>5 DEF Inv, NoFutureVersion, Taken
<1>8. RequestReadsOn'
  <2> SUFFICES ASSUME req.version = version PROVE RequestReadsOn'
    BY <1>1, <1>2, <1>5 DEF RequestReadsOn, Current, Taken
  <2> DEFINE n == req.pos
  <2>0. /\ ~pass.done /\ (pass.of = version \/ pass = NoPass) /\ req.from = pass.upto
        /\ req.from <= n /\ n <= req.size /\ req.size = Len(Now)
        /\ req.ord = Ordinal(Now, n)
        /\ req.got = PageableIn(Now, req.from, n)
        /\ pass.omitted + req.omitted = Cardinality(OversizedUpTo(Now, n))
        /\ req.bytes >= 2 /\ (req.got = {} => req.bytes = 2)
    BY <1>1 DEF Inv, RequestReadsOn, Current
  <2>1. line = Now[n + 1] /\ n \in Nat /\ req.from \in Nat /\ Now' = Now /\ pass.omitted \in Nat
    BY <1>1, <1>2 DEF LinesAt, Now, Inv, TypeOK
  <2>2. Ordinal(Now, n + 1) = IF IsRecord(line) THEN req.ord + 1 ELSE req.ord
    BY <2>0, <2>1, OrdinalStep
  <2>3. PageableIn(Now, req.from, n + 1) =
          IF Pageable(line) THEN req.got \cup {[at |-> n + 1, ord |-> Ordinal(Now, n + 1)]}
                            ELSE req.got
    BY <2>0, <2>1, PageableStep
  <2>4. Cardinality(OversizedUpTo(Now, n + 1)) =
          IF IsEvent(line) /\ ~Fits(line) THEN pass.omitted + req.omitted + 1
                                          ELSE pass.omitted + req.omitted
    BY <2>0, <2>1, OversizedStep
  <2>5. IsEvent(line) => IsRecord(line)
    BY DEF IsEvent, IsRecord
  <2>6. PageBytes \in Nat
    BY PagingAssumption
  <2>11. /\ n \in Nat /\ req.from \in Nat /\ req.size \in Nat
         /\ req.from <= n + 1 /\ n + 1 <= req.size /\ n + 1 # 0
    BY <2>0, <1>1, <1>2
  <2> HIDE DEF n
  <2>7. CASE ~IsEvent(line)
    <3>1. req' = Processed(line)
      BY <2>7
    <3>2. ~Pageable(line)
      BY <2>7 DEF Pageable
    <3>3. /\ req'.from = req.from /\ req'.pos = n + 1 /\ req'.size = req.size
          /\ req'.ord = Ordinal(Now, req'.pos) /\ req'.got = PageableIn(Now, req'.from, req'.pos)
          /\ pass.omitted + req'.omitted = Cardinality(OversizedUpTo(Now, req'.pos))
          /\ req'.bytes = req.bytes /\ req'.got = req.got /\ req'.state = "reading"
      BY <3>1, <3>2, <2>7, <1>1, <1>2, <1>5, <2>2, <2>3, <2>4 DEF n
    <3>4. req'.from <= req'.pos /\ req'.pos <= req'.size
      BY <3>3, <2>11
    <3>5. req'.bytes >= 2 /\ (req'.got = {} => req'.bytes = 2)
      BY <3>3, <2>0
    <3> QED BY <3>3, <3>4, <3>5, <1>1, <2>0, <2>1 DEF RequestReadsOn
  <2>8. CASE IsEvent(line) /\ ~TooLong(line)
    <3>1. req' = Taken(line)
      BY <2>8
    <3>2. Fits(line) /\ Pageable(line)
      BY <2>8, <2>0, <2>6, <1>2, <1>3 DEF TooLong, Cost, Fits, Pageable
    <3>3. /\ req'.version = req.version /\ req'.size = req.size /\ req'.from = req.from
          /\ req'.pos = req.pos + 1 /\ req'.ord = req.ord + 1 /\ req'.omitted = req.omitted
          /\ req'.got = req.got \cup {[at |-> req.pos + 1, ord |-> req.ord + 1]}
          /\ req'.bytes = req.bytes + Cost(line)
      BY <3>1, <1>2, <1>5, <2>5, <2>8 DEF Taken
    <3>4. /\ req'.ord = Ordinal(Now, req'.pos)
          /\ req'.got = PageableIn(Now, req'.from, req'.pos)
          /\ pass.omitted + req'.omitted = Cardinality(OversizedUpTo(Now, req'.pos))
      BY <3>2, <3>3, <2>2, <2>3, <2>4, <2>5, <2>8 DEF n
    <3>5. req'.got # {} /\ req'.bytes >= 2
      <4>1. req'.got # {}
        BY <3>3
      <4>2. req'.bytes = req.bytes + Cost(line)
        BY <3>3
      <4> QED BY <4>1, <4>2, <2>0, <1>2, <1>4
    <3>6. req'.from <= req'.pos /\ req'.pos <= req'.size
      <4>1. req'.from = req.from /\ req'.pos = n + 1 /\ req'.size = req.size
        BY <3>3 DEF n
      <4> QED BY <4>1, <2>11
    <3> QED BY <3>3, <3>4, <3>5, <3>6, <1>1, <2>0, <2>1 DEF RequestReadsOn
  <2>9. CASE IsEvent(line) /\ TooLong(line) /\ LeftForNext
    <3>1. req' = [req EXCEPT !.state = "ending"]
      BY <2>9
    <3> QED BY <3>1, <2>9, <1>1, <1>2, <2>0, <2>1 DEF RequestReadsOn, Requests, LeftForNext, n
  <2>10. CASE IsEvent(line) /\ TooLong(line) /\ ~LeftForNext
    <3>1. req' = [Processed(line) EXCEPT !.omitted = req.omitted + 1]
      BY <2>10
    <3>2. ~Fits(line) /\ ~Pageable(line)
      BY <2>10, <2>0, <2>6, <1>2, <1>3 DEF TooLong, Cost, Fits, Pageable, LeftForNext
    <3>3. /\ req'.state = "reading" /\ req'.version = req.version /\ req'.size = req.size
          /\ req'.from = req.from /\ req'.got = req.got /\ req'.bytes = req.bytes
          /\ req'.pos = req.pos + 1 /\ req'.ord = req.ord + 1 /\ req'.omitted = req.omitted + 1
      BY <3>1, <1>1, <1>2, <1>5, <2>5, <2>10 DEF Requests
    <3>4. /\ req'.ord = Ordinal(Now, req'.pos)
          /\ req'.got = PageableIn(Now, req'.from, req'.pos)
          /\ pass.omitted + req'.omitted = Cardinality(OversizedUpTo(Now, req'.pos))
      BY <3>2, <3>3, <2>2, <2>3, <2>4, <2>5, <2>10, <2>1, <1>2 DEF n
    <3>5. req'.from <= req'.pos /\ req'.pos <= req'.size
      <4>1. req'.from = req.from /\ req'.pos = n + 1 /\ req'.size = req.size
        BY <3>3 DEF n
      <4> QED BY <4>1, <2>11
    <3> QED BY <3>3, <3>4, <3>5, <1>1, <2>0, <2>1 DEF RequestReadsOn
  <2> QED BY <2>7, <2>8, <2>9, <2>10
<1> QED BY <1>1, <1>6, <1>7, <1>8 DEF Inv, PagesAreOneVersion, CursorMatchesPass

(* An answer keeps Inv.                                                    *)
LEMMA AnswerInv ==
  ASSUME Inv, Answer
  PROVE  Inv'
<1>1. CASE Stuck \/ ~Current
  BY <1>1, StartOverInv DEF Answer, source, Inv, TypeOK
<1>2. CASE ~(Stuck \/ ~Current)
  <2>0. /\ cursor' = NextCursor /\ pass' = NextPass /\ req' = NoReq
        /\ UNCHANGED <<version, past, key, lost>> /\ req.version = version /\ req.state = "ending"
    BY <1>2 DEF Answer, source, Current
  <2>1. /\ ~pass.done /\ (pass.of = version \/ pass = NoPass) /\ req.from = pass.upto
        /\ req.from <= req.pos /\ req.pos <= req.size /\ req.size = Len(Now)
        /\ req.ord = Ordinal(Now, req.pos)
        /\ req.got = PageableIn(Now, req.from, req.pos)
        /\ pass.omitted + req.omitted = Cardinality(OversizedUpTo(Now, req.pos))
    BY <2>0 DEF Inv, RequestReadsOn, Current
  <2>2. /\ req.pos \in Nat /\ req.from \in Nat /\ req.size \in Nat /\ req.ord \in Nat
        /\ req.omitted \in Nat /\ pass.omitted \in Nat /\ req.got \subseteq Tags
        /\ pass.got \subseteq Tags /\ key \in Nat \ {0} /\ version \in 0 .. MaxVersion
        /\ 0 \in 0 .. MaxVersion
    BY VersionAssumption DEF Inv, TypeOK, Requests
  <2>3. pass.got = PageableUpTo(Now, req.from)
    <3>1. CASE pass = NoPass
      BY <3>1, <2>1, NothingUpToZero DEF NoPass
    <3>2. CASE pass.of = version
      BY <3>2, <2>1 DEF Inv, PagesAreOneVersion, Now
    <3> QED BY <3>1, <3>2, <2>1
  <2>4. /\ pass'.got = PageableUpTo(Now, req.pos) /\ pass'.upto = req.pos /\ pass'.of = version
        /\ pass'.omitted = Cardinality(OversizedUpTo(Now, req.pos))
        /\ pass'.done <=> req.pos >= req.size
    <3>1. /\ pass'.got = pass.got \cup req.got /\ pass'.omitted = pass.omitted + req.omitted
          /\ pass'.upto = req.pos /\ pass'.of = req.version /\ pass'.done = (req.pos >= req.size)
      BY <2>0 DEF NextPass, Done
    <3>2. PageableUpTo(Now, req.pos) = pass.got \cup req.got
      BY <2>1, <2>2, <2>3, PagesJoin
    <3> QED BY <3>1, <3>2, <2>0, <2>1
  <2>5. TypeOK'
    BY <2>0, <2>2 DEF Inv, TypeOK, Requests, NextPass, NextCursor, NoCursor, NoReq, Done
  <2>6. PagesAreOneVersion'
    BY <2>0, <2>1, <2>2, <2>4 DEF PagesAreOneVersion, Now
  <2>7. CursorMatchesPass'
    <3>1. CASE Done
      BY <3>1, <2>0, <2>4 DEF CursorMatchesPass, NextCursor, NoCursor, Done
    <3>2. CASE ~Done
      <4>1. req.pos \in 1 .. Len(Now) - 1
        BY <3>2, <1>2, <2>1, <2>2 DEF Stuck, Done
      <4> QED BY <3>2, <4>1, <2>0, <2>1, <2>2, <2>4 DEF CursorMatchesPass, NextCursor, Now, Done
    <3> QED BY <3>1, <3>2
  <2>8. NoFutureVersion' /\ RequestReadsOn'
    BY <2>0, <2>2, <2>4 DEF NoFutureVersion, RequestReadsOn, NextCursor, NoCursor, NoReq
  <2> QED BY <2>5, <2>6, <2>7, <2>8 DEF Inv
<1> QED BY <1>1, <1>2

(* A write of Codex keeps Inv.                                             *)
LEMMA CodexWritesInv ==
  ASSUME Inv, CodexWrites, UNCHANGED <<key, req, cursor, pass, lost>>
  PROVE  Inv'
<1>1. version' = version + 1 /\ version' \in 0 .. MaxVersion /\ version \in Nat
  BY VersionAssumption DEF CodexWrites, Inv, TypeOK
<1>2. PICK c \in Contents : past' = [past EXCEPT ![version + 1] = c]
  BY DEF CodexWrites
<1>3. \A v \in 0 .. version : past'[v] = past[v]
  BY <1>1, <1>2 DEF Inv, TypeOK, Requests
<1>4. TypeOK'
  BY <1>1, <1>2 DEF Inv, TypeOK, Requests
<1>5. cursor.version \in 0 .. version /\ req.version \in 0 .. version /\ pass.of \in 0 .. version
  BY <1>1 DEF Inv, TypeOK, Requests, NoFutureVersion
<1>6. past'[cursor.version] = past[cursor.version] /\ past'[pass.of] = past[pass.of]
  BY <1>3, <1>5
<1>7. PagesAreOneVersion' /\ CursorMatchesPass'
  BY <1>6 DEF Inv, PagesAreOneVersion, CursorMatchesPass
<1>8. NoFutureVersion' /\ RequestReadsOn'
  BY <1>1, <1>5 DEF NoFutureVersion, RequestReadsOn, Current
<1> QED BY <1>4, <1>7, <1>8 DEF Inv

(* Every step keeps Inv.                                                   *)
LEMMA NextInv == Inv /\ [Next]_vars => Inv'
<1> SUFFICES ASSUME Inv, [Next]_vars PROVE Inv'
  OBVIOUS
<1>1. ASSUME NEW limit \in Limits, Ask(limit) PROVE Inv'
  BY <1>1, AskInv
<1>2. CASE ReadLine
  BY <1>2, ReadLineInv
<1>3. CASE ReadEnds
  <2>1. /\ UNCHANGED <<version, past, key, cursor, pass, lost>>
        /\ req' = [req EXCEPT !.state = "ending"] /\ req.state = "reading"
        /\ req.version = version => req.pos = req.size
    BY <1>3 DEF ReadEnds, MayEnd, source
  <2>2. TypeOK' /\ NoFutureVersion'
    BY <2>1 DEF Inv, TypeOK, Requests, NoFutureVersion
  <2>3. RequestReadsOn'
    BY <2>1 DEF Inv, TypeOK, Requests, RequestReadsOn, Current, Now
  <2> QED BY <2>1, <2>2, <2>3 DEF Inv, PagesAreOneVersion, CursorMatchesPass
<1>4. CASE Answer
  BY <1>4, AnswerInv
<1>5. CASE LoseReply
  BY <1>5, NoRequestInv DEF LoseReply, source, Inv, TypeOK
<1>6. CASE RestartServer
  BY <1>6, NoRequestInv DEF RestartServer, source, Inv, TypeOK
<1>7. CASE CodexWrites /\ UNCHANGED <<key, req, cursor, pass, lost>>
  BY <1>7, CodexWritesInv
<1>8. CASE UNCHANGED vars
  BY <1>8 DEF vars, Inv, TypeOK, NoFutureVersion, PagesAreOneVersion, CursorMatchesPass,
              RequestReadsOn, Current, Now
<1> QED BY <1>1, <1>2, <1>3, <1>4, <1>5, <1>6, <1>7, <1>8 DEF Next, PagingStep

(* Every request, cursor and collected page keeps its type.                *)
THEOREM PagingTypeCorrect == Spec => []TypeOK
<1>1. Inv => TypeOK
  BY DEF Inv
<1> QED BY InitInv, NextInv, <1>1, PTL DEF Spec

(* The pages a client put together are, at every moment, the beginning of  *)
(* one version of the rollout, whatever Codex writes between and during    *)
(* the requests, and however often replies get lost or the server restarts *)
(* (readCanonicalSessionEventPage, session-events.ts:932-1052).            *)
THEOREM PagesConsistent == Spec => []PagesAreOneVersion
<1>1. Inv => PagesAreOneVersion
  BY DEF Inv
<1> QED BY InitInv, NextInv, <1>1, PTL DEF Spec

(* A page that is not the last one brings an event, so that the check for  *)
(* forward progress (session-events.ts:1002) fails on changed files only.  *)
THEOREM PagesAdvance == Spec => []EveryPageAdvances
<1>1. Inv => EveryPageAdvances
  <2> SUFFICES ASSUME Inv, req.state = "ending", Current, ~Done
               PROVE  req.got # {} /\ ~Stuck
    BY DEF EveryPageAdvances
  <2>1. /\ req.got # {} /\ req.got = PageableIn(Now, req.from, req.pos)
        /\ req.from \in Nat /\ req.pos \in Nat
    BY DEF Inv, RequestReadsOn, Done, TypeOK, Requests
  <2>2. req.from + 1 .. req.pos # {}
    BY <2>1 DEF PageableIn
  <2> QED BY <2>1, <2>2 DEF Stuck
<1> QED BY InitInv, NextInv, <1>1, PTL DEF Spec

(* A cursor never points behind a line that was still being written        *)
(* (assertRealLineBoundary, session-events.ts:885-896).                    *)
THEOREM CursorsAtBoundaries == Spec => []CursorAtBoundary
<1>1. Inv => CursorAtBoundary
  <2> SUFFICES ASSUME Inv, cursor # NoCursor, cursor.version = version
               PROVE  cursor.next \in 1 .. Len(Now) - 1 /\ Now[cursor.next].kind # "torn"
    BY DEF CursorAtBoundary
  <2>1. cursor.next \in 1 .. Len(Now) - 1
    BY DEF Inv, CursorMatchesPass, Now
  <2>2. Now \in Contents /\ Len(Now) \in Nat
    BY NowTyped DEF Inv, TypeOK, Now
  <2>3. cursor.next \in 1 .. Len(Now) /\ cursor.next # Len(Now)
    BY <2>1, <2>2
  <2> QED BY <2>1, <2>2, <2>3, ContentsAssumption
<1> QED BY InitInv, NextInv, <1>1, PTL DEF Spec

(* What a page has read by its own count is what it serializes.            *)
Counted ==
  req.state # "none" =>
    /\ IsFiniteSet(req.got) /\ Cardinality(req.got) <= req.limit
    /\ req.state = "reading" => Cardinality(req.got) < req.limit
    /\ Current =>
         /\ IsFiniteSet(EventBytes(Now, req.got))
         /\ req.bytes = 2 + Cardinality(EventBytes(Now, req.got))
                          + (IF req.got = {} THEN 0 ELSE Cardinality(req.got) - 1)
         /\ req.bytes <= PageBytes

(* One more event adds its bytes and no others.                            *)
LEMMA BytesStep ==
  ASSUME NEW c, NEW got, NEW e, c[e.at].size \in Nat,
         \A x \in got : x.at # e.at, IsFiniteSet(EventBytes(c, got))
  PROVE  /\ IsFiniteSet(EventBytes(c, got \cup {e}))
         /\ Cardinality(EventBytes(c, got \cup {e})) = Cardinality(EventBytes(c, got)) + c[e.at].size
<1> DEFINE of(x) == {x.at} \X (1 .. c[x.at].size)
           old == EventBytes(c, got)
<1>1. EventBytes(c, got \cup {e}) = old \cup of(e)
  <2>1. EventBytes(c, got \cup {e}) = UNION {of(x) : x \in got \cup {e}} /\ old = UNION {of(x) : x \in got}
    BY DEF EventBytes
  <2> HIDE DEF of, old
  <2>2. {of(x) : x \in got \cup {e}} = {of(x) : x \in got} \cup {of(e)}
    OBVIOUS
  <2> QED BY <2>1, <2>2
<1>2. IsFiniteSet({e.at}) /\ Cardinality({e.at}) = 1
  BY FS_Singleton
<1>3. IsFiniteSet(1 .. c[e.at].size) /\ Cardinality(1 .. c[e.at].size) = c[e.at].size
  <2> PICK k \in Nat : k = c[e.at].size
    OBVIOUS
  <2>1. 1 \in Int /\ k \in Int
    OBVIOUS
  <2>2. IsFiniteSet(1 .. k) /\ Cardinality(1 .. k) = IF 1 > k THEN 0 ELSE k - 1 + 1
    BY <2>1, FS_Interval, Zenon
  <2>3. Cardinality(1 .. k) = k
    BY <2>2
  <2> QED BY <2>2, <2>3
<1>4. IsFiniteSet(of(e)) /\ Cardinality(of(e)) = 1 * c[e.at].size
  BY <1>2, <1>3, FS_Product
<1>5. old \cap of(e) = {}
  <2>1. \A x \in old : \E y \in got : x[1] = y.at
    BY DEF EventBytes
  <2>2. \A x \in of(e) : x[1] = e.at
    OBVIOUS
  <2> QED BY <2>1, <2>2
<1>6. IsFiniteSet(old) /\ Cardinality(old) \in Nat
  BY FS_CardinalityType
<1> HIDE DEF of, old
<1>7. /\ IsFiniteSet(old \cup of(e))
      /\ Cardinality(old \cup of(e)) = Cardinality(old) + Cardinality(of(e)) - Cardinality(old \cap of(e))
  BY <1>4, <1>6, FS_Union
<1>8. Cardinality(old \cap of(e)) = 0
  BY <1>5, FS_EmptySet
<1>9. Cardinality(old \cup of(e)) = Cardinality(old) + c[e.at].size
  BY <1>4, <1>6, <1>7, <1>8
<1> QED BY <1>1, <1>7, <1>9 DEF old

LEMMA CountedAtStart ==
  ASSUME NEW c PROVE IsFiniteSet({}) /\ Cardinality({}) = 0 /\ EventBytes(c, {}) = {}
BY FS_EmptySet DEF EventBytes

LEMMA CountedStep == Inv /\ Inv' /\ Counted /\ [Next]_vars => Counted'
<1> SUFFICES ASSUME Inv, Inv', Counted, [Next]_vars PROVE Counted'
  OBVIOUS
<1>1. CASE req' = NoReq
  BY <1>1 DEF Counted, NoReq
<1>2. ASSUME NEW limit \in Limits, Ask(limit), Accepted(cursor) PROVE Counted'
  <2>1. /\ req'.state = "reading" /\ req'.got = {} /\ req'.limit = limit /\ req'.bytes = 2
        /\ version' = version /\ past' = past
    BY <1>2 DEF Ask, NoReq, source
  <2>2. limit \in Nat /\ limit > 0 /\ 2 <= PageBytes
    BY PagingAssumption
  <2>3. /\ IsFiniteSet(req'.got) /\ Cardinality(req'.got) = 0
        /\ EventBytes(Now', req'.got) = {}
    BY <2>1, CountedAtStart
  <2> QED BY <2>1, <2>2, <2>3 DEF Counted
<1>3. CASE ReadLine
  <2> PICK line \in LinesAt(req.version, req.pos + 1) :
       req' = IF ~IsEvent(line)      THEN Processed(line)
              ELSE IF ~TooLong(line) THEN Taken(line)
              ELSE IF LeftForNext    THEN [req EXCEPT !.state = "ending"]
              ELSE [Processed(line) EXCEPT !.omitted = req.omitted + 1]
    BY <1>3 DEF ReadLine
  <2>1. /\ UNCHANGED <<version, past>> /\ req.state = "reading" /\ req.pos < req.size
        /\ Now' = Now /\ PageBytes \in Nat
    BY <1>3, PagingAssumption DEF ReadLine, source, Now
  <2>2. /\ req \in Requests
        /\ req.version \in 0 .. MaxVersion /\ req.size \in Nat /\ req.from \in Nat
        /\ req.pos \in Nat /\ req.ord \in Nat /\ req.limit \in Nat \ {0}
        /\ req.got \subseteq Tags /\ req.bytes \in Nat /\ req.omitted \in Nat
    BY DEF Inv, TypeOK, Requests
  <2>3. CASE req'.got = req.got /\ req'.bytes = req.bytes /\ req'.limit = req.limit
             /\ req'.version = req.version /\ req'.state \in {req.state, "ending"}
    BY <2>1, <2>3 DEF Counted, Current
  <2>4. CASE IsEvent(line) /\ ~TooLong(line)
    <3> DEFINE e == [at |-> req.pos + 1, ord |-> req.ord + 1]
    <3>1. /\ req'.got = req.got \cup {e} /\ req'.bytes = req.bytes + Cost(line)
          /\ req'.limit = req.limit /\ req'.version = req.version
          /\ req'.state = IF Cardinality(req.got) + 1 >= req.limit THEN "ending" ELSE "reading"
      BY <2>2, <2>4 DEF Taken, Processed, Requests
    <3>2. IsFiniteSet(req.got) /\ Cardinality(req.got) \in Nat /\ Cardinality(req.got) < req.limit
      BY <2>1, FS_CardinalityType DEF Counted
    <3>3. IsFiniteSet(req'.got) /\ Cardinality(req'.got) <= Cardinality(req.got) + 1
          /\ Cardinality(req'.got) \in Nat
      <4> HIDE DEF e
      <4>1. /\ IsFiniteSet(req.got \cup {e})
            /\ Cardinality(req.got \cup {e}) = IF e \in req.got THEN Cardinality(req.got) ELSE Cardinality(req.got) + 1
        BY <3>2, FS_AddElement
      <4>2. req'.got = req.got \cup {e}
        BY <3>1
      <4>3. Cardinality(req'.got) \in {Cardinality(req.got), Cardinality(req.got) + 1}
        BY <4>1, <4>2
      <4>4. IsFiniteSet(req'.got)
        BY <4>1, <4>2
      <4>5. Cardinality(req.got) \in Nat
        BY <3>2
      <4> QED BY <4>3, <4>4, <4>5
    <3>4. Cardinality(req'.got) <= req'.limit /\ (req'.state = "reading" => Cardinality(req'.got) < req'.limit)
      BY <2>2, <3>1, <3>2, <3>3
    <3>5. ASSUME Current
          PROVE  /\ IsFiniteSet(EventBytes(Now, req'.got))
                 /\ req'.bytes = 2 + Cardinality(EventBytes(Now, req'.got))
                                   + (IF req'.got = {} THEN 0 ELSE Cardinality(req'.got) - 1)
                 /\ req'.bytes <= PageBytes
      <4>1. /\ req.got = PageableIn(Now, req.from, req.pos) /\ req.size = Len(Now)
            /\ Now \in Seq(Line)
        BY <2>1, <3>5, NowTyped DEF Inv, TypeOK, RequestReadsOn, Now
      <4>2. \A x \in req.got : x.at \in Nat /\ x.at <= req.pos
        BY <2>2, <4>1 DEF PageableIn
      <4>3. line = Now[req.pos + 1]
        BY <3>5 DEF LinesAt, Current, Now
      <4>4. line.size \in Nat
        <5>1. line \in Line
          BY <2>1, <2>2, <4>1, <4>3
        <5> QED BY <5>1, LineAssumption
      <4>5. /\ IsFiniteSet(EventBytes(Now, req.got))
            /\ req.bytes = 2 + Cardinality(EventBytes(Now, req.got))
                             + (IF req.got = {} THEN 0 ELSE Cardinality(req.got) - 1)
        BY <2>1, <3>5 DEF Counted
      <4>6. /\ IsFiniteSet(EventBytes(Now, req'.got))
            /\ Cardinality(EventBytes(Now, req'.got)) = Cardinality(EventBytes(Now, req.got)) + line.size
        <5>1. Now[e.at] = line /\ Now[e.at].size \in Nat
          BY <4>3, <4>4
        <5>2. \A x \in req.got : x.at # e.at
          BY <2>2, <4>2
        <5> HIDE DEF e
        <5>3. /\ IsFiniteSet(EventBytes(Now, req.got \cup {e}))
              /\ Cardinality(EventBytes(Now, req.got \cup {e})) = Cardinality(EventBytes(Now, req.got)) + Now[e.at].size
          BY <4>5, <5>1, <5>2, BytesStep
        <5> QED BY <3>1, <5>1, <5>3
      <4>7. Cardinality(EventBytes(Now, req.got)) \in Nat
        BY <4>5, FS_CardinalityType
      <4>8. e \notin req.got
        BY <2>2, <4>2
      <4>9. Cardinality(req'.got) = Cardinality(req.got) + 1 /\ req'.got # {}
        BY <3>1, <3>2, <4>8, FS_AddElement
      <4>10. req.got = {} => Cardinality(req.got) = 0
        BY FS_EmptySet
      <4>11. req'.bytes = req.bytes + line.size + (IF req.got = {} THEN 0 ELSE 1)
        BY <2>2, <3>1, <4>4 DEF Cost
      <4>12. req'.bytes <= PageBytes
        BY <2>1, <2>2, <2>4, <3>1, <4>4 DEF TooLong, Cost
      <4>13. req'.bytes = 2 + Cardinality(EventBytes(Now, req'.got)) + (Cardinality(req'.got) - 1)
        BY <3>2, <4>4, <4>5, <4>6, <4>7, <4>9, <4>10, <4>11
      <4> QED BY <4>6, <4>9, <4>12, <4>13
    <3> QED BY <2>1, <3>1, <3>3, <3>4, <3>5 DEF Counted, Current
  <2>5. ~(IsEvent(line) /\ ~TooLong(line)) =>
          req'.got = req.got /\ req'.bytes = req.bytes /\ req'.limit = req.limit
             /\ req'.version = req.version /\ req'.state \in {req.state, "ending"}
    BY <2>2 DEF Processed, Requests
  <2> QED BY <2>3, <2>4, <2>5
<1>4. CASE ReadEnds
  BY <1>4 DEF ReadEnds, Counted, Current, Now, source, Inv, TypeOK, Requests
<1>5. CASE CodexWrites /\ UNCHANGED <<key, req, cursor, pass, lost>>
  <2>1. version' = version + 1 /\ req' = req /\ req.version <= version /\ version \in Nat /\ req.version \in Nat
    BY <1>5 DEF CodexWrites, Inv, NoFutureVersion, TypeOK, Requests
  <2>2. ~Current'
    BY <2>1 DEF Current
  <2> QED BY <2>1, <2>2 DEF Counted
<1>6. CASE UNCHANGED vars
  BY <1>6 DEF vars, Counted, Current, Now
<1>7. CASE Answer
  <2>1. req' = NoReq
    BY <1>7 DEF Answer, StartOver
  <2> QED BY <1>1, <2>1
<1>8. ASSUME NEW limit \in Limits, Ask(limit), ~Accepted(cursor) PROVE Counted'
  <2>1. req' = NoReq
    BY <1>8 DEF Ask, StartOver
  <2> QED BY <1>1, <2>1
<1> QED BY <1>1, <1>2, <1>3, <1>4, <1>5, <1>6, <1>7, <1>8
        DEF Next, PagingStep, LoseReply, RestartServer

(* A page holds no more events than were asked for, and no more bytes than *)
(* a page may have: the reader's running count of bytes, brackets and      *)
(* commas included, is the length of the array it serializes, on whatever  *)
(* rollout and through whatever restarts (session-events.ts:984).          *)
THEOREM PagesStayInBounds == Spec => []PageWithinBounds
<1>1. Init => Inv /\ Counted
  BY InitInv DEF Init, Counted, NoReq
<1>2. Inv /\ [Next]_vars => Inv'
  BY NextInv
<1>3. Inv /\ Inv' /\ Counted /\ [Next]_vars => Counted'
  BY CountedStep
<1>4. Counted => PageWithinBounds
  BY DEF Counted, PageWithinBounds
<1> QED BY <1>1, <1>2, <1>3, <1>4, PTL DEF Spec

-----------------------------------------------------------------------------
(***************************************************************************)
(* Whatever Codex writes, for any rollout, any number of runs that share   *)
(* an output path and any number of them that die: what a run reports to   *)
(* have written is there, and is all the events of one version.            *)
(***************************************************************************)

RunStates == {"idle", "created", "refused", "streaming", "written", "failed", "dead"}
Runs == [state : RunStates, version : 0 .. MaxVersion, size : Nat, pos : Nat, ord : Nat]

(* A file belongs to the run that created it, until that is through.       *)
Owned ==
  \A e \in Exporters :
    /\ run[e].state \in {"created", "streaming", "written"} => output.of = e
    /\ run[e].state \in {"idle", "refused", "failed"} => output.of # e

(* As long as the rollout is the one a run has opened, the file holds the  *)
(* events of the lines it has read.                                        *)
StreamsOn ==
  \A e \in Exporters :
    /\ run[e].state = "created" => output.holds = {}
    /\ run[e].state = "streaming" /\ run[e].version = version =>
         /\ run[e].size = Len(Now) /\ run[e].pos <= run[e].size
         /\ run[e].ord = Ordinal(Now, run[e].pos)
         /\ output.holds = EventsUpTo(Now, run[e].pos)
    /\ run[e].state = "written" => output.holds = EventsOf(past[run[e].version])

ExportInv ==
  /\ version \in 0 .. MaxVersion /\ past \in [0 .. MaxVersion -> Contents]
  /\ run \in [Exporters -> Runs] /\ \A e \in Exporters : run[e].version <= version
  /\ output = [of |-> output.of, holds |-> output.holds]
  /\ Owned /\ StreamsOn

-----------------------------------------------------------------------------
(* One more line.                                                          *)
LEMMA OneMoreRecord ==
  ASSUME NEW c, NEW n \in Nat
  PROVE  Ordinal(c, n + 1) = Ordinal(c, n) + IF IsRecord(c[n + 1]) THEN 1 ELSE 0
<1>1. RecordsUpTo(c, n + 1) =
        IF IsRecord(c[n + 1]) THEN RecordsUpTo(c, n) \cup {n + 1} ELSE RecordsUpTo(c, n)
  BY DEF RecordsUpTo
<1>2. n + 1 \notin RecordsUpTo(c, n)
  BY DEF RecordsUpTo
<1>3. IsFiniteSet(1 .. n)
  BY FS_Interval
<1>4. RecordsUpTo(c, n) \subseteq 1 .. n
  BY DEF RecordsUpTo
<1>5. IsFiniteSet(RecordsUpTo(c, n)) /\ Cardinality(RecordsUpTo(c, n)) \in Nat
  BY <1>3, <1>4, FS_Subset, FS_CardinalityType
<1>6. CASE IsRecord(c[n + 1])
  BY <1>1, <1>2, <1>5, <1>6, FS_AddElement DEF Ordinal
<1>7. CASE ~IsRecord(c[n + 1])
  BY <1>1, <1>5, <1>7 DEF Ordinal
<1> QED BY <1>6, <1>7

(* One more line adds its event, if it has one.                            *)
LEMMA OneMoreEvent ==
  ASSUME NEW c, NEW n \in Nat
  PROVE  EventsUpTo(c, n + 1) =
           IF IsEvent(c[n + 1])
           THEN EventsUpTo(c, n) \cup {[at |-> n + 1, ord |-> Ordinal(c, n + 1)]}
           ELSE EventsUpTo(c, n)
<1> DEFINE Lines(k) == {j \in 1 .. k : IsEvent(c[j])}
<1>1. Lines(n + 1) = IF IsEvent(c[n + 1]) THEN Lines(n) \cup {n + 1} ELSE Lines(n)
  OBVIOUS
<1> QED BY <1>1 DEF EventsUpTo

(* No line, no event.                                                      *)
LEMMA NothingYet ==
  ASSUME NEW c
  PROVE  Ordinal(c, 0) = 0 /\ EventsUpTo(c, 0) = {}
<1>1. RecordsUpTo(c, 0) = {}
  BY DEF RecordsUpTo
<1> QED BY <1>1, FS_EmptySet DEF Ordinal, EventsUpTo

(* Every version of the rollout has a length.                              *)
LEMMA VersionTyped ==
  ASSUME ExportInv, NEW v \in 0 .. MaxVersion
  PROVE  Len(past[v]) \in Nat
<1>1. past[v] \in Seq(Line)
  BY ContentsAssumption DEF ExportInv
<1> QED BY <1>1

-----------------------------------------------------------------------------
(* No run has started.                                                     *)
LEMMA ExportInvInit == SourceInit /\ ExportInit => ExportInv
<1> SUFFICES ASSUME SourceInit, ExportInit PROVE ExportInv
  OBVIOUS
<1>1. version \in 0 .. MaxVersion /\ past \in [0 .. MaxVersion -> Contents]
  BY VersionAssumption DEF SourceInit
<1>2. NoRun \in Runs
  BY VersionAssumption DEF NoRun, Runs, RunStates
<1>3. \A e \in Exporters : run[e] = NoRun /\ output.of # e
  BY ExportAssumption DEF ExportInit, NoOutput
<1>4. run \in [Exporters -> Runs]
  BY <1>2 DEF ExportInit
<1> QED BY <1>1, <1>3, <1>4 DEF ExportInv, Owned, StreamsOn, NoRun, ExportInit, NoOutput, SourceInit

(* A run that creates a file finds none, and one that is refused leaves    *)
(* the one it finds.                                                       *)
LEMMA CreateOutputInv ==
  ASSUME ExportInv, NEW e \in Exporters, CreateOutput(e)
  PROVE  ExportInv'
<1>1. CASE output = NoOutput
  <2>1. /\ run' = [run EXCEPT ![e].state = "created"] /\ output' = [of |-> e, holds |-> {}]
        /\ UNCHANGED <<version, past>>
    BY <1>1 DEF CreateOutput, Becomes, source
  <2>2. \A x \in Exporters : run[x].state \notin {"created", "streaming", "written"}
    BY <1>1, ExportAssumption DEF ExportInv, Owned, NoOutput
  <2>3. run' \in [Exporters -> Runs] /\ run'[e].state = "created" /\ run'[e].version = run[e].version
    BY <2>1 DEF ExportInv, Runs, RunStates
  <2>4. \A x \in Exporters \ {e} : run'[x] = run[x]
    BY <2>1 DEF ExportInv
  <2>5. Owned'
    BY <2>1, <2>2, <2>3, <2>4 DEF Owned
  <2>6. StreamsOn'
    BY <2>1, <2>2, <2>3, <2>4 DEF StreamsOn
  <2> QED BY <2>1, <2>3, <2>4, <2>5, <2>6 DEF ExportInv
<1>2. CASE output # NoOutput
  <2>1. /\ run' = [run EXCEPT ![e].state = "refused"] /\ run[e].state = "idle"
        /\ UNCHANGED <<version, past, output>>
    BY <1>2 DEF CreateOutput, Becomes, source
  <2>2. run' \in [Exporters -> Runs] /\ run'[e].state = "refused" /\ run'[e].version = run[e].version
    BY <2>1 DEF ExportInv, Runs, RunStates
  <2>3. \A x \in Exporters \ {e} : run'[x] = run[x]
    BY <2>1 DEF ExportInv
  <2>4. Owned' /\ StreamsOn'
    BY <2>1, <2>2, <2>3 DEF ExportInv, Owned, StreamsOn, Now
  <2> QED BY <2>1, <2>2, <2>3, <2>4 DEF ExportInv
<1> QED BY <1>1, <1>2

(* A run opens the version that is there.                                  *)
LEMMA OpenRolloutInv ==
  ASSUME ExportInv, NEW e \in Exporters, OpenRollout(e)
  PROVE  ExportInv'
<1> DEFINE opened == [NoRun EXCEPT !.state = "streaming", !.version = version, !.size = Len(Now)]
<1>1. run' = [run EXCEPT ![e] = opened] /\ UNCHANGED <<version, past, output>>
  BY DEF OpenRollout, source
<1>2. /\ opened.state = "streaming" /\ opened.version = version /\ opened.size = Len(Now)
      /\ opened.pos = 0 /\ opened.ord = 0 /\ opened \in Runs
  BY VersionTyped DEF NoRun, Runs, RunStates, ExportInv, Now
<1> HIDE DEF opened
<1>3. run' \in [Exporters -> Runs] /\ run'[e] = opened /\ \A x \in Exporters \ {e} : run'[x] = run[x]
  BY <1>1, <1>2 DEF ExportInv
<1>4. output.of = e /\ output.holds = {} /\ run[e].state = "created"
  BY DEF OpenRollout, ExportInv, Owned, StreamsOn
<1>5. Len(Now) \in Nat
  BY VersionTyped DEF ExportInv, Now
<1>6. Owned'
  BY <1>1, <1>2, <1>3, <1>4 DEF ExportInv, Owned
<1>7. StreamsOn'
  BY <1>1, <1>2, <1>3, <1>4, <1>5, NothingYet DEF ExportInv, StreamsOn, Now
<1>8. \A x \in Exporters : run'[x].version <= version
  BY <1>2, <1>3 DEF ExportInv
<1> QED BY <1>1, <1>3, <1>6, <1>7, <1>8 DEF ExportInv

(* One line more, and its event in the file of the run.                    *)
LEMMA StreamLineInv ==
  ASSUME ExportInv, NEW e \in Exporters, StreamLine(e)
  PROVE  ExportInv'
<1> DEFINE at == run[e].pos + 1
           Ord(line) == run[e].ord + IF IsRecord(line) THEN 1 ELSE 0
<1>1. PICK line \in LinesAt(run[e].version, at) :
        /\ run' = [run EXCEPT ![e].pos = at, ![e].ord = Ord(line)]
        /\ output' = IF IsEvent(line)
                     THEN [output EXCEPT !.holds = output.holds \cup {[at |-> at, ord |-> Ord(line)]}]
                     ELSE output
  BY DEF StreamLine
<1>2. UNCHANGED <<version, past>> /\ run[e].state = "streaming" /\ run[e].pos < run[e].size
  BY DEF StreamLine, source
<1>3. run[e] \in Runs /\ run[e].pos \in Nat /\ run[e].ord \in Nat /\ run[e].size \in Nat
  BY DEF ExportInv, Runs
<1>4. Ord(line) \in Nat /\ at \in Nat
  BY <1>3
<1>5. /\ run' \in [Exporters -> Runs] /\ run'[e].state = "streaming" /\ run'[e].pos = at
      /\ run'[e].ord = Ord(line) /\ run'[e].version = run[e].version /\ run'[e].size = run[e].size
      /\ \A x \in Exporters \ {e} : run'[x] = run[x]
  BY <1>1, <1>2, <1>3, <1>4 DEF ExportInv, Runs
<1>6. output.of = e /\ output = [of |-> e, holds |-> output.holds]
  BY <1>2 DEF ExportInv, Owned
<1>7. /\ output'.of = e /\ output' = [of |-> output'.of, holds |-> output'.holds]
      /\ output'.holds = IF IsEvent(line)
                         THEN output.holds \cup {[at |-> at, ord |-> Ord(line)]} ELSE output.holds
  BY <1>1, <1>6
<1>8. Owned'
  BY <1>2, <1>5, <1>6, <1>7 DEF ExportInv, Owned
<1>9. ASSUME run[e].version = version
      PROVE  /\ run'[e].size = Len(Now) /\ run'[e].pos <= run'[e].size
             /\ run'[e].ord = Ordinal(Now, run'[e].pos)
             /\ output'.holds = EventsUpTo(Now, run'[e].pos)
  <2>1. /\ run[e].size = Len(Now) /\ run[e].ord = Ordinal(Now, run[e].pos)
        /\ output.holds = EventsUpTo(Now, run[e].pos)
    BY <1>2, <1>9 DEF ExportInv, StreamsOn
  <2>2. line = Now[at]
    BY <1>1, <1>9 DEF LinesAt, Now
  <2>3. Ord(line) = Ordinal(Now, at)
    BY <1>3, <2>1, <2>2, OneMoreRecord
  <2>4. output'.holds = EventsUpTo(Now, at)
    BY <1>3, <1>7, <2>1, <2>2, <2>3, OneMoreEvent
  <2> QED BY <1>2, <1>3, <1>5, <2>1, <2>3, <2>4
<1> HIDE DEF at, Ord
<1>10. \A x \in Exporters \ {e} : run[x].state \notin {"created", "streaming", "written"}
  BY <1>6 DEF ExportInv, Owned
<1>11. StreamsOn'
  BY <1>2, <1>5, <1>9, <1>10 DEF StreamsOn, Now
<1>12. \A x \in Exporters : run'[x].version <= version
  BY <1>5 DEF ExportInv
<1> QED BY <1>2, <1>5, <1>7, <1>8, <1>11, <1>12 DEF ExportInv

(* A run is done when it has read the version that is still there.         *)
LEMMA FinishInv ==
  ASSUME ExportInv, NEW e \in Exporters, Finish(e)
  PROVE  ExportInv'
<1>1. /\ run' = [run EXCEPT ![e].state = "written"] /\ UNCHANGED <<version, past, output>>
      /\ run[e].state = "streaming" /\ run[e].pos = run[e].size /\ run[e].version = version
  BY DEF Finish, Becomes, Verified, source
<1>2. /\ run' \in [Exporters -> Runs] /\ run'[e].state = "written"
      /\ run'[e].version = run[e].version /\ \A x \in Exporters \ {e} : run'[x] = run[x]
  BY <1>1 DEF ExportInv, Runs, RunStates
<1>3. output.of = e /\ output.holds = EventsOf(Now)
  BY <1>1 DEF ExportInv, Owned, StreamsOn, EventsOf
<1>4. Owned'
  BY <1>1, <1>2, <1>3 DEF ExportInv, Owned
<1>5. StreamsOn'
  BY <1>1, <1>2, <1>3 DEF ExportInv, StreamsOn, Now
<1> QED BY <1>1, <1>2, <1>4, <1>5 DEF ExportInv

(* A run that fails removes its own file.                                  *)
LEMMA FailExportInv ==
  ASSUME ExportInv, NEW e \in Exporters, FailExport(e)
  PROVE  ExportInv'
<1>1. /\ run' = [run EXCEPT ![e].state = "failed"] /\ output' = NoOutput
      /\ UNCHANGED <<version, past>> /\ run[e].state \in {"created", "streaming"}
  BY DEF FailExport, Becomes, source
<1>2. /\ run' \in [Exporters -> Runs] /\ run'[e].state = "failed"
      /\ run'[e].version = run[e].version /\ \A x \in Exporters \ {e} : run'[x] = run[x]
  BY <1>1 DEF ExportInv, Runs, RunStates
<1>3. \A x \in Exporters \ {e} : run[x].state \notin {"created", "streaming", "written"}
  BY <1>1 DEF ExportInv, Owned
<1>4. \A x \in Exporters : output'.of # x
  BY <1>1, ExportAssumption DEF NoOutput
<1>5. Owned' /\ StreamsOn'
  BY <1>1, <1>2, <1>3, <1>4 DEF Owned, StreamsOn
<1> QED BY <1>1, <1>2, <1>5 DEF ExportInv, NoOutput

(* A run that dies leaves its file.                                        *)
LEMMA DieExportInv ==
  ASSUME ExportInv, NEW e \in Exporters, DieExport(e)
  PROVE  ExportInv'
<1>1. run' = [run EXCEPT ![e].state = "dead"] /\ UNCHANGED <<version, past, output>>
  BY DEF DieExport, Becomes, source
<1>2. /\ run' \in [Exporters -> Runs] /\ run'[e].state = "dead"
      /\ run'[e].version = run[e].version /\ \A x \in Exporters \ {e} : run'[x] = run[x]
  BY <1>1 DEF ExportInv, Runs, RunStates
<1>3. Owned' /\ StreamsOn'
  BY <1>1, <1>2 DEF ExportInv, Owned, StreamsOn, Now
<1> QED BY <1>1, <1>2, <1>3 DEF ExportInv

(* Only the file of a run that died is removed by the user.                *)
LEMMA RemoveLeftoverInv ==
  ASSUME ExportInv, RemoveLeftover
  PROVE  ExportInv'
<1>1. /\ output' = NoOutput /\ UNCHANGED <<version, past, run>>
      /\ output.of \in Exporters /\ run[output.of].state = "dead"
  BY DEF RemoveLeftover, source
<1>2. \A x \in Exporters : run[x].state \notin {"created", "streaming", "written"}
  BY <1>1 DEF ExportInv, Owned
<1>3. \A x \in Exporters : output'.of # x
  BY <1>1, ExportAssumption DEF NoOutput
<1>4. Owned' /\ StreamsOn'
  BY <1>1, <1>2, <1>3 DEF Owned, StreamsOn
<1> QED BY <1>1, <1>4 DEF ExportInv, NoOutput

(* Codex writes: no run has the version that is there then.                *)
LEMMA CodexWritesKeepsExport ==
  ASSUME ExportInv, CodexWrites, UNCHANGED export
  PROVE  ExportInv'
<1>1. version' = version + 1 /\ version' \in 0 .. MaxVersion /\ version \in Nat
  BY VersionAssumption DEF CodexWrites, ExportInv
<1>2. PICK c \in Contents : past' = [past EXCEPT ![version + 1] = c]
  BY DEF CodexWrites
<1>3. past' \in [0 .. MaxVersion -> Contents] /\ \A v \in 0 .. version : past'[v] = past[v]
  BY <1>1, <1>2 DEF ExportInv
<1>4. \A x \in Exporters : run[x].version \in 0 .. version
  BY <1>1 DEF ExportInv, Runs
<1>5. output' = output /\ run' = run
  BY DEF export
<1>6. \A x \in Exporters : run[x].version # version' /\ run[x].version <= version'
                           /\ past'[run[x].version] = past[run[x].version]
  BY <1>1, <1>3, <1>4
<1>7. Owned' /\ StreamsOn'
  BY <1>5, <1>6 DEF ExportInv, Owned, StreamsOn
<1> QED BY <1>1, <1>3, <1>5, <1>6, <1>7 DEF ExportInv

(* Every step of a run, and every write by Codex, keeps the invariant.     *)
LEMMA ExportInvStep == ExportInv /\ [ExportNext]_<<source, export>> => ExportInv'
<1> SUFFICES ASSUME ExportInv, [ExportNext]_<<source, export>>
             PROVE  ExportInv'
  OBVIOUS
<1>1. ASSUME NEW e \in Exporters,
             CreateOutput(e) \/ OpenRollout(e) \/ StreamLine(e) \/ Finish(e)
               \/ FailExport(e) \/ DieExport(e)
      PROVE  ExportInv'
  BY <1>1, CreateOutputInv, OpenRolloutInv, StreamLineInv, FinishInv, FailExportInv, DieExportInv
<1>2. CASE RemoveLeftover
  BY <1>2, RemoveLeftoverInv
<1>3. CASE CodexWrites /\ UNCHANGED export
  BY <1>3, CodexWritesKeepsExport
<1>4. CASE UNCHANGED <<source, export>>
  BY <1>4 DEF source, export, ExportInv, Owned, StreamsOn, Now
<1> QED BY <1>1, <1>2, <1>3, <1>4 DEF ExportNext, ExportStep

(* What a run reports to have written is there, and is all the events of   *)
(* one version of the rollout (session-events.ts:1060-1094).               *)
THEOREM ExportsAreWhole == ExportSpec => []ExportIsWhole
<1>1. ExportInv => ExportIsWhole
  <2> SUFFICES ASSUME ExportInv, NEW e \in Exporters
               PROVE  /\ run[e].state = "written" =>
                           output = [of |-> e, holds |-> EventsOf(past[run[e].version])]
                      /\ run[e].state \in {"created", "streaming"} => output.of = e
                      /\ run[e].state \in {"failed", "refused"} => output.of # e
    BY DEF ExportIsWhole
  <2> QED BY DEF ExportInv, Owned, StreamsOn
<1> QED BY ExportInvInit, ExportInvStep, <1>1, PTL DEF ExportSpec
=============================================================================
