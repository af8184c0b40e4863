------------------------- MODULE UartSession_proofs -------------------------
(***************************************************************************)
(* Proofs about the session layer: type correctness, and that admission    *)
(* rests on evidence of the present session (AdmissionHasEvidence,         *)
(* NoRevivalWithoutHello), that a session never shows state of an earlier   *)
(* one or of none (NoFormerStateInSession), and that sessions end for a     *)
(* cause only (SessionEndsForCause), for every set of boots and revisions  *)
(* and for all thresholds in the order of LinkAssumption.                  *)
(***************************************************************************)
EXTENDS UartSession, TLAPS

-----------------------------------------------------------------------------
(* Type facts about the operations on a link.                              *)

LEMMA ResetType == link_reset \in Link
  BY DEF link_reset, Link, OFFLINE

LEMMA RequireHelloType ==
  ASSUME NEW l \in Link
  PROVE  link_require_hello(l) \in Link
  BY DEF link_require_hello, link_reset, Link, OFFLINE

LEMMA NoteHelloType ==
  ASSUME NEW l \in Link, NEW b \in Boots, NEW t \in Nat
  PROVE  note_hello(l, b, t) \in Link
  BY DEF note_hello, link_reset, Link, OFFLINE

LEMMA TickType ==
  ASSUME NEW l \in Link, NEW t \in Nat
  PROVE  link_tick(l, t) \in Link
<1>1. CASE ~l.hello_complete \/ link_session_expired(l, t)
  BY <1>1, RequireHelloType DEF link_tick
<1>2. CASE ~(~l.hello_complete \/ link_session_expired(l, t))
  <2>1. StateAt(l, t) \in {OFFLINE, SUSPECT, ONLINE}
    BY DEF StateAt, Link
  <2>2. (l.snapshot_valid /\ ~SafetyStale(l, t)) \in BOOLEAN
    BY DEF SafetyStale
  <2> QED
    BY <1>2, <2>1, <2>2 DEF link_tick, Link
<1> QED
  BY <1>1, <1>2

LEMMA HeartbeatType ==
  ASSUME NEW l \in Link, NEW b \in Boots, NEW r \in Revisions, NEW t \in Nat
  PROVE  note_heartbeat(l, b, r, t) \in Link
<1>1. [l EXCEPT !.peer_boot_id = b] \in Link
  BY DEF Link
<1>2. [l EXCEPT !.heartbeat_seen = TRUE, !.last_heartbeat = t,
                !.snapshot_valid = @ /\ l.safety_revision = r] \in Link
  BY DEF Link
<1> QED
  BY <1>1, <1>2, RequireHelloType, TickType DEF note_heartbeat

LEMMA CtsType ==
  ASSUME NEW l \in Link, NEW blocked \in BOOLEAN, NEW t \in Nat
  PROVE  set_cts_blocked(l, blocked, t) \in Link
<1>1. [l EXCEPT !.cts_known = TRUE, !.cts_blocked = blocked,
                !.cts_since = IF blocked /\ ~l.cts_blocked
                              THEN t ELSE @] \in Link
  BY DEF Link
<1> QED
  BY <1>1, RequireHelloType, TickType DEF set_cts_blocked

-----------------------------------------------------------------------------
(* A tick ends the handshake or keeps the link a mirror of the history.    *)

LEMMA RequireHelloDrops ==
  ASSUME NEW l
  PROVE  ~link_require_hello(l).hello_complete
  BY DEF link_require_hello, link_reset

LEMMA TickKeeps ==
  ASSUME NEW l \in Link, NEW t \in Nat,
         l.hello_complete, ~link_session_expired(l, t)
  PROVE  link_tick(l, t).hello_complete
  BY DEF link_tick, Link

LEMMA TickMirrors ==
  ASSUME NEW l \in Link, NEW s \in Seen, NEW t \in Nat,
         l.hello_complete, Mirrors(l, s, t),
         link_tick(l, t).hello_complete
  PROVE  Mirrors(link_tick(l, t), s, t)
<1>1. ~link_session_expired(l, t)
  BY RequireHelloDrops DEF link_tick
<1>2. link_tick(l, t) = [l EXCEPT !.snapshot_valid = @ /\ ~SafetyStale(l, t),
                                  !.state = StateAt(l, t)]
  BY <1>1 DEF link_tick
<1>3. /\ link_tick(l, t).peer_boot_id = l.peer_boot_id
      /\ (link_tick(l, t).hello_ack_complete <=> l.hello_ack_complete)
      /\ (link_tick(l, t).heartbeat_seen <=> l.heartbeat_seen)
      /\ link_tick(l, t).last_heartbeat = l.last_heartbeat
      /\ (link_tick(l, t).cts_known <=> l.cts_known)
      /\ (link_tick(l, t).cts_blocked <=> l.cts_blocked)
      /\ link_tick(l, t).cts_since = l.cts_since
      /\ link_tick(l, t).snapshot_valid => l.snapshot_valid
      /\ link_tick(l, t).snapshot_time = l.snapshot_time
      /\ link_tick(l, t).safety_revision = l.safety_revision
  BY <1>2 DEF Link
<1>4. link_session_expired(link_tick(l, t), t) <=> link_session_expired(l, t)
  BY <1>3 DEF link_session_expired, HeartbeatOffline, CtsOffline
<1> QED
  BY <1>3, <1>4 DEF Mirrors

-----------------------------------------------------------------------------
(* The history of what is stored.                                          *)

LEMMA DatedType ==
  ASSUME NEW kept, kept \subseteq Stamps
  PROVE  Dated(kept) \subseteq Stamps
  BY DEF Dated, Stamps

\* Within one session nothing grows old.
LEMMA DatedSame ==
  ASSUME NEW kept, "former" \notin kept,
         link.hello_complete, link'.hello_complete,
         link'.peer_boot_id = link.peer_boot_id
  PROVE  "former" \notin Dated(kept)
  BY DEF Dated, SameSession

-----------------------------------------------------------------------------
(* Type correctness of every reachable state.                              *)

LEMMA InitType == Init => TypeOK
  BY ResetType, LinkAssumption, SessionAssumption
  DEF Init, TypeOK, nothing_seen, Seen, Stamps

LEMMA NextType == TypeOK /\ [Next]_vars => TypeOK'
<1> SUFFICES ASSUME TypeOK, [Next]_vars
             PROVE  TypeOK'
  OBVIOUS
<1> USE DEF TypeOK
<1>0. nothing_seen \in Seen
  BY DEF nothing_seen, Seen
<1>1. ASSUME NEW b \in Boots, SessionNoteHello(b)
      PROVE  TypeOK'
  <2>1. owned' \subseteq Stamps
    BY <1>1, DatedType DEF SessionNoteHello, Invalidated
  <2>2. seen' \in Seen
    BY <1>1, <1>0 DEF SessionNoteHello, Seen
  <2> QED
    BY <1>1, <2>1, <2>2, NoteHelloType DEF SessionNoteHello
<1>2. ASSUME NEW b \in Boots, NEW r \in Revisions, SessionNoteHeartbeat(b, r)
      PROVE  TypeOK'
  <2>1. seen' \in Seen
    BY <1>2, <1>0 DEF SessionNoteHeartbeat, Seen
  <2> QED
    BY <1>2, <2>1, HeartbeatType, DatedType DEF SessionNoteHeartbeat, Invalidated
<1>3. ASSUME NEW b \in Boots, LinkNoteHelloAck(b)
      PROVE  TypeOK'
  <2>1. [link EXCEPT !.hello_ack_complete = TRUE] \in Link
    BY DEF Link
  <2>2. seen' \in Seen
    BY <1>3 DEF LinkNoteHelloAck, Seen
  <2> QED
    BY <1>3, <2>1, <2>2, TickType, DatedType DEF LinkNoteHelloAck, note_hello_ack
<1>4. ASSUME NEW b \in Boots, NEW r \in Revisions, LinkNoteSafetySnapshot(b, r)
      PROVE  TypeOK'
  <2>1. [link EXCEPT !.snapshot_valid = TRUE, !.snapshot_time = now,
                     !.safety_revision = r] \in Link
    BY DEF Link
  <2>2. seen' \in Seen
    BY <1>4 DEF LinkNoteSafetySnapshot, Seen
  <2> QED
    BY <1>4, <2>1, <2>2, TickType, DatedType
    DEF LinkNoteSafetySnapshot, note_safety_snapshot
<1>5. ASSUME NEW blocked \in BOOLEAN, LinkSetCtsBlocked(blocked)
      PROVE  TypeOK'
  <2>1. seen' \in Seen
    BY <1>5 DEF LinkSetCtsBlocked, Seen
  <2> QED
    BY <1>5, <2>1, CtsType, DatedType DEF LinkSetCtsBlocked
<1>6. CASE SessionTick
  BY <1>6, TickType, RequireHelloType, DatedType DEF SessionTick, Invalidated
<1>7. CASE SessionReset
  BY <1>7, <1>0, ResetType DEF SessionReset
<1>8. CASE Store
  BY <1>8 DEF Store, Arriving, Stamps
<1>9. CASE AdmitCommand
  BY <1>9, SessionAssumption DEF AdmitCommand, Arriving, Stamps
<1>10. CASE Advance
  <2>1. LapsedAt(seen, now + 1) \in BOOLEAN
    BY DEF LapsedAt, Seen
  <2> QED
    BY <1>10, <2>1 DEF Advance, Seen
<1>11. CASE UNCHANGED vars
  BY <1>11 DEF vars
<1> QED
  BY <1>1, <1>2, <1>3, <1>4, <1>5, <1>6, <1>7, <1>8, <1>9, <1>10, <1>11 DEF Next

\* Every reachable state has its type: link fields, counters and history
\* stay in their ranges whatever the owner calls (TypeOK of the runs).
THEOREM SessionTypeCorrect == Spec => []TypeOK
  BY InitType, NextType, PTL DEF Spec

-----------------------------------------------------------------------------
(* The link mirrors the history (SessionInv).                              *)

LEMMA InitInv == Init => SessionInv
  BY DEF Init, SessionInv, link_reset

LEMMA NextInv == TypeOK /\ TypeOK' /\ SessionInv /\ [Next]_vars => SessionInv'
<1> SUFFICES ASSUME TypeOK, TypeOK', SessionInv, [Next]_vars,
                    link'.hello_complete
             PROVE  Mirrors(link', seen', now') /\ "former" \notin owned'
  BY DEF SessionInv
<1> USE DEF TypeOK
<1>1. ASSUME NEW b \in Boots, SessionNoteHello(b)
      PROVE  Mirrors(link', seen', now') /\ "former" \notin owned'
  <2>1. Mirrors(link', seen', now')
    BY <1>1, LinkAssumption
    DEF SessionNoteHello, note_hello, link_reset, nothing_seen, Mirrors,
        link_session_expired, HeartbeatOffline, CtsOffline
  <2>2. "former" \notin owned'
    <3>1. CASE NewSession(b)
      BY <1>1, <3>1 DEF SessionNoteHello, Invalidated, Dated
    <3>2. CASE ~NewSession(b)
      <4>1. /\ link.hello_complete /\ "former" \notin owned
            /\ link.peer_boot_id = b /\ owned' = Dated(owned)
        BY <1>1, <3>2 DEF SessionNoteHello, Invalidated, SessionInv, NewSession
      <4>2. link'.peer_boot_id = b
        BY <1>1 DEF SessionNoteHello, note_hello, link_reset
      <4> QED
        BY <4>1, <4>2, DatedSame
    <3> QED
      BY <3>1, <3>2
  <2> QED
    BY <2>1, <2>2
<1>2. ASSUME NEW b \in Boots, NEW r \in Revisions, SessionNoteHeartbeat(b, r)
      PROVE  Mirrors(link', seen', now') /\ "former" \notin owned'
  <2> DEFINE l1 == [link EXCEPT !.heartbeat_seen = TRUE, !.last_heartbeat = now,
                                !.snapshot_valid = @ /\ link.safety_revision = r]
  <2>1. ~HeartbeatNeedsHello(link, b) /\ ~link_session_expired(link, now)
    BY <1>2, RequireHelloDrops DEF SessionNoteHeartbeat, note_heartbeat
  <2>2. link' = link_tick(l1, now) /\ now' = now
    BY <1>2, <2>1 DEF SessionNoteHeartbeat, note_heartbeat
  <2>3. /\ link.hello_complete /\ Mirrors(link, seen, now)
        /\ "former" \notin owned /\ link.peer_boot_id = b
    BY <2>1 DEF HeartbeatNeedsHello, SessionInv
  <2>4. seen' = [seen EXCEPT !.heartbeat = TRUE, !.heartbeatAt = now,
                             !.heartbeatRev = r, !.beatSinceSnapshot = TRUE]
    BY <1>2, <2>3 DEF SessionNoteHeartbeat, Mirrors
  <2>5. /\ l1 \in Link /\ l1.hello_complete
        /\ l1.peer_boot_id = link.peer_boot_id
        /\ (l1.hello_ack_complete <=> link.hello_ack_complete)
        /\ l1.heartbeat_seen /\ l1.last_heartbeat = now
        /\ (l1.cts_known <=> link.cts_known)
        /\ (l1.cts_blocked <=> link.cts_blocked)
        /\ l1.cts_since = link.cts_since
        /\ (l1.snapshot_valid <=> link.snapshot_valid /\ link.safety_revision = r)
        /\ l1.snapshot_time = link.snapshot_time
        /\ l1.safety_revision = link.safety_revision
    BY <2>3, ZenonT(30) DEF Link
  <2>6. /\ (seen'.hello <=> seen.hello) /\ seen'.boot = seen.boot
        /\ (seen'.ack <=> seen.ack) /\ seen'.heartbeat /\ seen'.heartbeatAt = now
        /\ seen'.heartbeatRev = r /\ (seen'.snapshot <=> seen.snapshot)
        /\ seen'.snapshotAt = seen.snapshotAt
        /\ seen'.snapshotRev = seen.snapshotRev
        /\ seen'.cts = seen.cts /\ seen'.stalledAt = seen.stalledAt
        /\ (seen'.lapsed <=> seen.lapsed)
    BY <2>4 DEF Seen
  <2>7. ~link_session_expired(l1, now)
    BY <2>1, <2>5, LinkAssumption
    DEF link_session_expired, HeartbeatOffline, CtsOffline, Elapsed
  <2>8. Mirrors(l1, seen', now)
    BY <2>1, <2>3, <2>5, <2>6, <2>7 DEF Mirrors
  <2>9. Mirrors(link', seen', now')
    BY <2>2, <2>5, <2>8, TickMirrors
  <2>10. "former" \notin Invalidated(HeartbeatInvalidates(b))
    BY <2>3 DEF Invalidated
  <2>11. link'.peer_boot_id = link.peer_boot_id
    BY <2>3, <2>6, <2>9 DEF Mirrors
  <2> QED
    BY <1>2, <2>3, <2>9, <2>10, <2>11, DatedSame DEF SessionNoteHeartbeat
<1>3. ASSUME NEW b \in Boots, LinkNoteHelloAck(b)
      PROVE  Mirrors(link', seen', now') /\ "former" \notin owned'
  <2> DEFINE l1 == [link EXCEPT !.hello_ack_complete = TRUE]
  <2>1. /\ link.hello_complete /\ b = link.peer_boot_id
        /\ link' = link_tick(l1, now) /\ now' = now /\ owned' = Dated(owned)
        /\ seen' = [seen EXCEPT !.ack = seen.hello /\ b = seen.boot]
    BY <1>3 DEF LinkNoteHelloAck, HelloAckAccepted, note_hello_ack
  <2>2. Mirrors(link, seen, now) /\ "former" \notin owned
    BY <2>1 DEF SessionInv
  <2>3. l1 \in Link /\ l1.hello_complete
    BY <2>1 DEF Link
  <2>4. Mirrors(l1, seen', now)
    BY <2>1, <2>2
    DEF Mirrors, Link, Seen, link_session_expired, HeartbeatOffline, CtsOffline
  <2>5. Mirrors(link', seen', now') /\ seen'.boot = seen.boot
    BY <2>1, <2>3, <2>4, TickMirrors DEF Seen
  <2>6. link'.peer_boot_id = link.peer_boot_id
    BY <2>2, <2>5 DEF Mirrors
  <2> QED
    BY <2>1, <2>2, <2>5, <2>6, DatedSame
<1>4. ASSUME NEW b \in Boots, NEW r \in Revisions, LinkNoteSafetySnapshot(b, r)
      PROVE  Mirrors(link', seen', now') /\ "former" \notin owned'
  <2> DEFINE l1 == [link EXCEPT !.snapshot_valid = TRUE, !.snapshot_time = now,
                                !.safety_revision = r]
  <2>1. /\ link.hello_complete /\ link.hello_ack_complete
        /\ link' = link_tick(l1, now) /\ now' = now /\ owned' = Dated(owned)
        /\ seen' = [seen EXCEPT !.snapshot = seen.ack, !.snapshotAt = now,
                                !.snapshotRev = r, !.beatSinceSnapshot = FALSE]
    BY <1>4 DEF LinkNoteSafetySnapshot, SnapshotAccepted, note_safety_snapshot
  <2>2. Mirrors(link, seen, now) /\ "former" \notin owned
    BY <2>1 DEF SessionInv
  <2>3. l1 \in Link /\ l1.hello_complete
    BY <2>1 DEF Link
  <2>4. Mirrors(l1, seen', now)
    BY <2>1, <2>2
    DEF Mirrors, Link, Seen, link_session_expired, HeartbeatOffline, CtsOffline
  <2>5. Mirrors(link', seen', now') /\ seen'.boot = seen.boot
    BY <2>1, <2>3, <2>4, TickMirrors DEF Seen
  <2>6. link'.peer_boot_id = link.peer_boot_id
    BY <2>2, <2>5 DEF Mirrors
  <2> QED
    BY <2>1, <2>2, <2>5, <2>6, DatedSame
<1>5. ASSUME NEW blocked \in BOOLEAN, LinkSetCtsBlocked(blocked)
      PROVE  Mirrors(link', seen', now') /\ "former" \notin owned'
  <2> DEFINE l1 == [link EXCEPT !.cts_known = TRUE, !.cts_blocked = blocked,
                                !.cts_since = IF blocked /\ ~link.cts_blocked
                                              THEN now ELSE @]
  <2>1. /\ ~CtsOffline(link, now)
        /\ link' = link_tick(l1, now) /\ now' = now /\ owned' = Dated(owned)
        /\ seen' = [seen EXCEPT !.cts = IF blocked THEN "blocked" ELSE "clear",
                                !.stalledAt = IF blocked /\ seen.cts # "blocked"
                                              THEN now ELSE @]
    BY <1>5, RequireHelloDrops DEF LinkSetCtsBlocked, set_cts_blocked
  <2>2. l1 \in Link /\ l1.hello_complete = link.hello_complete
    BY ZenonT(30) DEF Link
  <2>3. link.hello_complete
    BY <2>1, <2>2, RequireHelloDrops DEF link_tick
  <2>4. Mirrors(link, seen, now) /\ "former" \notin owned
    BY <2>3 DEF SessionInv
  <2>5. /\ l1.cts_known /\ (l1.cts_blocked <=> blocked)
        /\ l1.cts_since = IF blocked /\ ~link.cts_blocked THEN now
                          ELSE link.cts_since
        /\ (l1.heartbeat_seen <=> link.heartbeat_seen)
        /\ l1.last_heartbeat = link.last_heartbeat
        /\ l1.peer_boot_id = link.peer_boot_id
        /\ (l1.hello_ack_complete <=> link.hello_ack_complete)
        /\ (l1.snapshot_valid <=> link.snapshot_valid)
        /\ l1.snapshot_time = link.snapshot_time
        /\ l1.safety_revision = link.safety_revision
    BY DEF Link
  <2>6. HeartbeatOffline(l1, now) <=> HeartbeatOffline(link, now)
    BY <2>5 DEF HeartbeatOffline
  <2>7. ~CtsOffline(l1, now)
    BY <2>1, <2>4, <2>5, LinkAssumption DEF CtsOffline, Elapsed, Mirrors, Link
  <2>8. link_session_expired(l1, now) <=> link_session_expired(link, now)
    BY <2>1, <2>6, <2>7 DEF link_session_expired
  <2>9. /\ seen'.cts = (IF blocked THEN "blocked" ELSE "clear")
        /\ seen'.stalledAt = IF blocked /\ seen.cts # "blocked" THEN now
                             ELSE seen.stalledAt
        /\ (seen'.hello <=> seen.hello) /\ seen'.boot = seen.boot
        /\ (seen'.ack <=> seen.ack) /\ (seen'.heartbeat <=> seen.heartbeat)
        /\ seen'.heartbeatAt = seen.heartbeatAt
        /\ seen'.heartbeatRev = seen.heartbeatRev
        /\ (seen'.snapshot <=> seen.snapshot)
        /\ seen'.snapshotAt = seen.snapshotAt
        /\ seen'.snapshotRev = seen.snapshotRev
        /\ (seen'.beatSinceSnapshot <=> seen.beatSinceSnapshot)
        /\ (seen'.lapsed <=> seen.lapsed)
    BY <2>1 DEF Seen
  <2>10. Mirrors(l1, seen', now)
    BY <2>4, <2>5, <2>8, <2>9 DEF Mirrors, Link
  <2>11. Mirrors(link', seen', now')
    BY <2>1, <2>2, <2>3, <2>4, <2>10, TickMirrors
  <2>12. link'.peer_boot_id = link.peer_boot_id
    BY <2>4, <2>9, <2>11 DEF Mirrors
  <2> QED
    BY <2>1, <2>3, <2>4, <2>11, <2>12, DatedSame
<1>6. CASE SessionTick
  <2>1. ~link_session_expired(link, now) /\ ~link_has_stale_session(link)
    BY <1>6, RequireHelloDrops DEF SessionTick
  <2>2. /\ link' = link_tick(link, now) /\ seen' = seen /\ now' = now
        /\ owned' = Dated(owned)
    BY <1>6, <2>1 DEF SessionTick, Invalidated
  <2>3. link.hello_complete
    BY <2>2, RequireHelloDrops DEF link_tick
  <2>4. Mirrors(link, seen, now) /\ "former" \notin owned
    BY <2>3 DEF SessionInv
  <2>5. Mirrors(link', seen', now')
    BY <2>2, <2>3, <2>4, TickMirrors
  <2>6. link'.peer_boot_id = link.peer_boot_id
    BY <2>2, <2>4, <2>5 DEF Mirrors
  <2> QED
    BY <2>2, <2>3, <2>4, <2>5, <2>6, DatedSame
<1>7. CASE SessionReset
  BY <1>7 DEF SessionReset, link_reset
<1>8. CASE Store
  BY <1>8 DEF Store, Arriving, SessionInv
<1>9. CASE AdmitCommand
  BY <1>9 DEF AdmitCommand, Arriving, SessionInv
<1>10. CASE Advance
  <2>1. /\ link' = link /\ now' = now + 1 /\ owned' = owned
        /\ link.hello_complete /\ Mirrors(link, seen, now)
        /\ "former" \notin owned
    BY <1>10 DEF Advance, SessionInv
  <2>2. /\ seen'.lapsed <=> LapsedAt(seen, now + 1)
        /\ (seen'.hello <=> seen.hello) /\ seen'.boot = seen.boot
        /\ (seen'.ack <=> seen.ack) /\ (seen'.heartbeat <=> seen.heartbeat)
        /\ seen'.heartbeatAt = seen.heartbeatAt
        /\ seen'.heartbeatRev = seen.heartbeatRev
        /\ (seen'.snapshot <=> seen.snapshot)
        /\ seen'.snapshotAt = seen.snapshotAt
        /\ seen'.snapshotRev = seen.snapshotRev
        /\ (seen'.beatSinceSnapshot <=> seen.beatSinceSnapshot)
        /\ seen'.cts = seen.cts /\ seen'.stalledAt = seen.stalledAt
    BY <1>10 DEF Advance, Seen
  <2>3. LapsedAt(seen, now + 1) <=> link_session_expired(link, now + 1)
    BY <2>1, LinkAssumption
    DEF LapsedAt, Mirrors, link_session_expired, HeartbeatOffline, CtsOffline,
        Elapsed, Link, Seen
  <2> QED
    BY <2>1, <2>2, <2>3 DEF Mirrors, Link
<1>11. CASE UNCHANGED vars
  BY <1>11 DEF vars, SessionInv
<1> QED
  BY <1>1, <1>2, <1>3, <1>4, <1>5, <1>6, <1>7, <1>8, <1>9, <1>10, <1>11 DEF Next

\* The link always mirrors what really arrived, in every step of the session
\* layer (canview_uart_session_* and canview_uart_link_*).
THEOREM SessionInvariant == Spec => [](TypeOK /\ SessionInv)
  BY InitType, NextType, InitInv, NextInv, PTL DEF Spec

-----------------------------------------------------------------------------
\* Admission rests on events of the present session that really happened
\* and are recent: canview_uart_link_command_admission_allowed never says
\* yes on evidence of another boot or of the past.
THEOREM AdmissionRestsOnEvidence == Spec => []AdmissionHasEvidence
<1>1. TypeOK /\ SessionInv => AdmissionHasEvidence
  <2> SUFFICES ASSUME TypeOK, SessionInv,
                      link_command_admission_allowed(link, now)
               PROVE  /\ seen.hello /\ seen.ack /\ seen.boot = link.peer_boot_id
                      /\ seen.heartbeat
                      /\ now - seen.heartbeatAt < HeartbeatOnlineMs
                      /\ seen.snapshot /\ now - seen.snapshotAt < SnapshotMaxAgeMs
                      /\ seen.beatSinceSnapshot
                            => seen.heartbeatRev = seen.snapshotRev
                      /\ \/ seen.cts = "clear"
                         \/ seen.cts = "blocked" /\ now - seen.stalledAt < CtsStopMs
    BY DEF AdmissionHasEvidence
  <2>1. /\ link.hello_complete /\ link.hello_ack_complete
        /\ link.snapshot_valid /\ link.heartbeat_seen /\ link.cts_known
        /\ ~Elapsed(now, link.last_heartbeat, HeartbeatOnlineMs)
        /\ ~Elapsed(now, link.snapshot_time, SnapshotMaxAgeMs)
        /\ link.cts_blocked => ~Elapsed(now, link.cts_since, CtsStopMs)
    BY DEF link_command_admission_allowed, CtsSuspect
  <2>2. Mirrors(link, seen, now)
    BY <2>1 DEF SessionInv
  <2>3. /\ now \in Nat /\ link.last_heartbeat \in Nat
        /\ link.snapshot_time \in Nat /\ link.cts_since \in Nat
        /\ seen.cts \in {"unknown", "clear", "blocked"}
    BY DEF TypeOK, Link, Seen
  <2>4. /\ HeartbeatOnlineMs \in Nat /\ SnapshotMaxAgeMs \in Nat
        /\ CtsStopMs \in Nat
    BY LinkAssumption
  <2>5. now - link.last_heartbeat < HeartbeatOnlineMs
    BY <2>1, <2>3, <2>4 DEF Elapsed
  <2>6. now - link.snapshot_time < SnapshotMaxAgeMs
    BY <2>1, <2>3, <2>4 DEF Elapsed
  <2>7. link.cts_blocked => now - link.cts_since < CtsStopMs
    BY <2>1, <2>3, <2>4 DEF Elapsed
  <2> QED
    BY <2>1, <2>2, <2>3, <2>5, <2>6, <2>7 DEF Mirrors
<1> QED
  BY <1>1, SessionInvariant, PTL

\* After an outage of the offline time only HELLO brings admission back.
THEOREM OutageNeedsHello == Spec => []NoRevivalWithoutHello
<1>1. TypeOK /\ SessionInv => NoRevivalWithoutHello
  BY LinkAssumption
  DEF TypeOK, SessionInv, Mirrors, NoRevivalWithoutHello, Link, Seen,
      link_command_admission_allowed, link_session_expired,
      HeartbeatOffline, CtsOffline, CtsSuspect, Elapsed
<1> QED
  BY <1>1, SessionInvariant, PTL

\* While a session is up, plan, cache and replay hold only what came in it,
\* however the session before it ended and whatever was stored without one.
THEOREM StateStaysInSession == Spec => []NoFormerStateInSession
<1>1. SessionInv => NoFormerStateInSession
  BY DEF SessionInv, NoFormerStateInSession
<1> QED
  BY <1>1, SessionInvariant, PTL

\* A session ends by an outage, a heartbeat of another boot or a reset only.
THEOREM SessionsEndForCause == Spec => SessionEndsForCause
<1>1. TypeOK /\ SessionInv /\ [Next]_vars
        => [link.hello_complete /\ ~link'.hello_complete
              => seen.lapsed \/ ~seen'.hello]_vars
  <2> SUFFICES ASSUME TypeOK, SessionInv, Next,
                      link.hello_complete, ~link'.hello_complete,
                      ~seen.lapsed, seen'.hello
               PROVE  FALSE
    OBVIOUS
  <2> USE DEF TypeOK
  <2>1. /\ ~link_session_expired(link, now) /\ ~link_has_stale_session(link)
        /\ seen.boot = link.peer_boot_id
    BY DEF SessionInv, Mirrors, link_has_stale_session
  <2>2. ASSUME NEW b \in Boots, SessionNoteHello(b)
        PROVE  FALSE
    BY <2>2 DEF SessionNoteHello, note_hello, link_reset
  <2>3. ASSUME NEW b \in Boots, NEW r \in Revisions, SessionNoteHeartbeat(b, r)
        PROVE  FALSE
    <3> DEFINE l1 == [link EXCEPT !.heartbeat_seen = TRUE, !.last_heartbeat = now,
                                  !.snapshot_valid = @ /\ link.safety_revision = r]
    <3>1. b = link.peer_boot_id
      BY <2>3, <2>1 DEF SessionNoteHeartbeat, nothing_seen
    <3>2. link' = link_tick(l1, now)
      BY <2>3, <2>1, <3>1
      DEF SessionNoteHeartbeat, note_heartbeat, HeartbeatNeedsHello
    <3>3. /\ l1 \in Link /\ l1.hello_complete
          /\ l1.heartbeat_seen /\ l1.last_heartbeat = now
          /\ (l1.cts_known <=> link.cts_known)
          /\ (l1.cts_blocked <=> link.cts_blocked)
          /\ l1.cts_since = link.cts_since
      BY DEF Link
    <3>4. ~link_session_expired(l1, now)
      BY <2>1, <3>3, LinkAssumption
      DEF link_session_expired, HeartbeatOffline, CtsOffline, Elapsed
    <3> QED
      BY <3>2, <3>3, <3>4, TickKeeps
  <2>4. ASSUME NEW b \in Boots, LinkNoteHelloAck(b)
        PROVE  FALSE
    <3> DEFINE l1 == [link EXCEPT !.hello_ack_complete = TRUE]
    <3>1. link' = link_tick(l1, now)
      BY <2>4 DEF LinkNoteHelloAck, note_hello_ack
    <3>2. l1 \in Link /\ l1.hello_complete /\ ~link_session_expired(l1, now)
      BY <2>1 DEF Link, link_session_expired, HeartbeatOffline, CtsOffline
    <3> QED
      BY <3>1, <3>2, TickKeeps
  <2>5. ASSUME NEW b \in Boots, NEW r \in Revisions,
               LinkNoteSafetySnapshot(b, r)
        PROVE  FALSE
    <3> DEFINE l1 == [link EXCEPT !.snapshot_valid = TRUE, !.snapshot_time = now,
                                  !.safety_revision = r]
    <3>1. link' = link_tick(l1, now)
      BY <2>5 DEF LinkNoteSafetySnapshot, note_safety_snapshot
    <3>2. l1 \in Link /\ l1.hello_complete /\ ~link_session_expired(l1, now)
      BY <2>1 DEF Link, link_session_expired, HeartbeatOffline, CtsOffline
    <3> QED
      BY <3>1, <3>2, TickKeeps
  <2>6. ASSUME NEW blocked \in BOOLEAN, LinkSetCtsBlocked(blocked)
        PROVE  FALSE
    <3> DEFINE l1 == [link EXCEPT !.cts_known = TRUE, !.cts_blocked = blocked,
                                  !.cts_since = IF blocked /\ ~link.cts_blocked
                                                THEN now ELSE @]
    <3>1. ~CtsOffline(link, now)
      BY <2>1 DEF link_session_expired
    <3>2. link' = link_tick(l1, now)
      BY <2>6, <3>1 DEF LinkSetCtsBlocked, set_cts_blocked
    <3>3. /\ l1 \in Link /\ l1.hello_complete /\ l1.cts_known
          /\ (l1.cts_blocked <=> blocked)
          /\ l1.cts_since = IF blocked /\ ~link.cts_blocked THEN now
                            ELSE link.cts_since
          /\ (l1.heartbeat_seen <=> link.heartbeat_seen)
          /\ l1.last_heartbeat = link.last_heartbeat
      BY DEF Link
    <3>4. link.cts_blocked => link.cts_known
      BY DEF SessionInv, Mirrors
    <3>5. ~CtsOffline(l1, now)
      BY <3>1, <3>3, <3>4, LinkAssumption DEF CtsOffline, Elapsed
    <3>6. ~HeartbeatOffline(l1, now)
      BY <2>1, <3>3 DEF link_session_expired, HeartbeatOffline
    <3> QED
      BY <3>2, <3>3, <3>5, <3>6, TickKeeps DEF link_session_expired
  <2>7. CASE SessionTick
    BY <2>7, <2>1, TickKeeps DEF SessionTick
  <2>8. CASE SessionReset
    BY <2>8 DEF SessionReset, nothing_seen
  <2>9. CASE Store \/ AdmitCommand \/ Advance
    BY <2>9 DEF Store, AdmitCommand, Advance
  <2> QED
    BY <2>2, <2>3, <2>4, <2>5, <2>6, <2>7, <2>8, <2>9 DEF Next
<1> QED
  BY <1>1, SessionInvariant, PTL DEF Spec, SessionEndsForCause
=============================================================================
