----------------------------- MODULE EventPaging -----------------------------
(***************************************************************************)
(* readCanonicalSessionEventPage: an MCP server answers one request after  *)
(* the other with a bounded page and a cursor for the next one; a client   *)
(* asks until it is done and starts over when it is refused.  A page is    *)
(* read line by line while Codex may write, replies may be lost, and the   *)
(* server may be restarted, which makes its cursors worthless.             *)
(***************************************************************************)
EXTENDS RolloutSource

CONSTANTS
  Limits,      \* the page limits clients ask for
  PageBytes,   \* MAX_CANONICAL_EVENT_PAGE_BYTES, which an empty page fits
  MaxKey,      \* bound: restarts of the server
  MaxLost      \* bound: replies that get lost

ASSUME PagingAssumption ==
  /\ Limits \subseteq Nat \ {0}
  /\ PageBytes \in Nat \ {0, 1}
  /\ MaxKey \in Nat /\ MaxLost \in Nat

VARIABLES
  key,      \* the server process's CURSOR_HMAC_KEY
  req,      \* the request the server works on
  cursor,   \* the cursor the client will present
  pass,     \* what the client has collected since it started over
  lost

vars == <<version, past, key, req, cursor, pass, lost>>

NoCursor == [key |-> 0, version |-> 0, next |-> 0, ord |-> 0]
NoPass   == [got |-> {}, omitted |-> 0, done |-> FALSE, of |-> 0, upto |-> 0]
NoReq    == [state |-> "none", version |-> 0, size |-> 0, from |-> 0, pos |-> 0, ord |-> 0,
             limit |-> 1, got |-> {}, bytes |-> 2, omitted |-> 0]

Init ==
  /\ SourceInit
  /\ key = 1 /\ req = NoReq /\ cursor = NoCursor /\ pass = NoPass /\ lost = 0

(* Any refusal: the client starts over, without a cursor.                  *)
StartOver == cursor' = NoCursor /\ pass' = NoPass /\ req' = NoReq

(* Mutant: a cursor is bound to the session but not to the file's content. *)
AnyVersion(c) == c.key \in {0, key}
(* decodeCursor and validateCursorBinding, on the file that was opened.    *)
(* Key 0 is no cursor, which is a request for the first page.              *)
Accepted(c) == c.key = 0 \/ (c.key = key /\ c.version = version)

(* Open the source, check the cursor, start where it points.               *)
Ask(limit) ==
  /\ req.state = "none"
  /\ ~pass.done
  /\ IF Accepted(cursor)
     THEN /\ req' = [NoReq EXCEPT !.state = "reading", !.version = version, !.size = Len(Now),
                                  !.from = cursor.next, !.pos = cursor.next,
                                  !.ord = cursor.ord, !.limit = limit]
          /\ UNCHANGED <<cursor, pass>>
     ELSE StartOver
  /\ UNCHANGED <<source, key, lost>>

(* Mutant: the commas of the array are not counted.                        *)
CostWithoutComma(line) == line.size
(* eventBytes counts the brackets of the array and the commas.             *)
Cost(line) == line.size + IF req.got = {} THEN 0 ELSE 1
TooLong(line) == req.bytes + Cost(line) > PageBytes

Processed(line) ==
  [req EXCEPT !.pos = req.pos + 1, !.ord = req.ord + IF IsRecord(line) THEN 1 ELSE 0]
Taken(line) ==
  [Processed(line) EXCEPT
     !.got   = req.got \cup {[at |-> req.pos + 1, ord |-> req.ord + 1]},
     !.bytes = req.bytes + Cost(line),
     !.state = IF Cardinality(req.got) + 1 >= req.limit THEN "ending" ELSE "reading"]

(* Mutant: an event too long for any page ends the page it would start.    *)
AlwaysLeft == TRUE
(* An event that does not fit any more is left for the next page, unless   *)
(* it does not even fit an empty one.                                      *)
LeftForNext == req.got # {}

(* One line: skipped, omitted because no page can hold it, left for the    *)
(* next page because this one cannot, or taken.                            *)
ReadLine ==
  /\ req.state = "reading"
  /\ req.pos < req.size
  /\ \E line \in LinesAt(req.version, req.pos + 1) :
       req' = IF ~IsEvent(line)      THEN Processed(line)
              ELSE IF ~TooLong(line) THEN Taken(line)
              ELSE IF LeftForNext    THEN [req EXCEPT !.state = "ending"]
              ELSE [Processed(line) EXCEPT !.omitted = req.omitted + 1]
  /\ UNCHANGED <<source, key, cursor, pass, lost>>

ReadEnds ==
  /\ req.state = "reading"
  /\ req.pos = req.size \/ MayEnd(req.version)
  /\ req' = [req EXCEPT !.state = "ending"]
  /\ UNCHANGED <<source, key, cursor, pass, lost>>

(* Mutant: an off-by-one at the end of the file.                           *)
DonePastEnd == req.pos > req.size
Done     == req.pos >= req.size
Stuck    == ~Done /\ req.pos <= req.from
Current  == req.version = version
(* Mutant: the cursor is not bound to the server process.                  *)
UnboundCursor ==
  IF Done THEN NoCursor ELSE [version |-> req.version, next |-> req.pos, ord |-> req.ord]
NextCursor ==
  IF Done THEN NoCursor
  ELSE [key |-> key, version |-> req.version, next |-> req.pos, ord |-> req.ord]
NextPass ==
  [got |-> pass.got \cup req.got, omitted |-> pass.omitted + req.omitted,
   done |-> Done, of |-> req.version, upto |-> req.pos]

(* The page is answered if the file is still the one that was opened.      *)
Answer ==
  /\ req.state = "ending"
  /\ IF Stuck \/ ~Current
     THEN StartOver
     ELSE cursor' = NextCursor /\ pass' = NextPass /\ req' = NoReq
  /\ UNCHANGED <<source, key, lost>>

(* The reply never reaches the client, which will ask again.               *)
LoseReply ==
  /\ req.state = "ending"
  /\ lost < MaxLost
  /\ lost' = lost + 1
  /\ req' = NoReq
  /\ UNCHANGED <<source, key, cursor, pass>>

RestartServer ==
  /\ key <= MaxKey
  /\ key' = key + 1
  /\ req' = NoReq
  /\ UNCHANGED <<source, cursor, pass, lost>>

PagingStep == (\E limit \in Limits : Ask(limit)) \/ ReadLine \/ ReadEnds \/ Answer
Next ==
  \/ PagingStep \/ LoseReply \/ RestartServer
  \/ CodexWrites /\ UNCHANGED <<key, req, cursor, pass, lost>>

Spec == Init /\ [][Next]_vars

(* The server finishes a request it works on, and the client asks until it *)
(* is done.                                                                *)
FairSpec == Spec /\ WF_vars(PagingStep)

-----------------------------------------------------------------------------
Tags     == [at : Nat, ord : Nat]
Requests == [state : {"none", "reading", "ending"}, version : 0 .. MaxVersion, size : Nat,
             from : Nat, pos : Nat, ord : Nat, limit : Nat \ {0}, got : SUBSET Tags,
             bytes : Nat, omitted : Nat]
(* The type of every variable.                                             *)
TypeOK ==
  /\ version \in 0 .. MaxVersion
  /\ past \in [0 .. MaxVersion -> Contents]
  /\ key \in Nat \ {0}
  /\ lost \in Nat
  /\ cursor \in [key : Nat, version : 0 .. MaxVersion, next : Nat, ord : Nat]
  /\ req \in Requests
  /\ pass \in [got : SUBSET Tags, omitted : Nat, done : BOOLEAN,
               of : 0 .. MaxVersion, upto : Nat]

(* What the first n lines of c hold for a page reader: the events a page   *)
(* can hold, with the ordinals of a full reading, and those none can.      *)
Fits(line) == 2 + line.size <= PageBytes
Pageable(line)      == IsEvent(line) /\ Fits(line)
PageableUpTo(c, n)  == {[at |-> i, ord |-> Ordinal(c, i)] : i \in {j \in 1 .. n : Pageable(c[j])}}
OversizedUpTo(c, n) == {j \in 1 .. n : IsEvent(c[j]) /\ ~Fits(c[j])}

(* The pages a client puts together are the beginning of one version of    *)
(* the rollout: no event is missing, repeated or from another version, and *)
(* every event no page can hold has been reported as omitted; once done,   *)
(* nothing is left (README.md:304, session-events.ts:929-1052).            *)
PagesAreOneVersion ==
  LET c == past[pass.of] IN
  /\ pass.upto <= Len(c)
  /\ pass.got = PageableUpTo(c, pass.upto)
  /\ pass.omitted = Cardinality(OversizedUpTo(c, pass.upto))
  /\ pass.done => pass.upto = Len(c)

(* The bytes of the events of a page as they are serialized.               *)
EventBytes(c, events) == UNION {{e.at} \X (1 .. c[e.at].size) : e \in events}
(* A page stays within its limits, by its own count of the bytes and by    *)
(* the length of what it serializes (session-events.ts:984).               *)
PageWithinBounds ==
  (req.state # "none" /\ Current) =>
    /\ Cardinality(req.got) <= req.limit
    /\ LET length == Cardinality(EventBytes(Now, req.got))
           commas == IF req.got = {} THEN 0 ELSE Cardinality(req.got) - 1
       IN req.bytes = 2 + length + commas /\ req.bytes <= PageBytes

(* The error "made no forward progress" (session-events.ts:1004) is never  *)
(* raised for an unchanged rollout: a page that is not the last one brings *)
(* at least one event.                                                     *)
EveryPageAdvances ==
  (req.state = "ending" /\ Current) => (Done \/ (req.got # {} /\ ~Stuck))

(* A cursor points behind a finished line (assertRealLineBoundary,         *)
(* session-events.ts:884-895): a line that was still being written when it *)
(* was delivered is never followed by a page.                              *)
CursorAtBoundary ==
  (cursor # NoCursor /\ cursor.version = version) =>
     /\ cursor.next \in 1 .. Len(Now) - 1
     /\ Now[cursor.next].kind # "torn"

(* A client that keeps asking is done sooner or later, once Codex leaves   *)
(* the rollout alone.                                                      *)
PassEnds == <>(pass.done)
=============================================================================
