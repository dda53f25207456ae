------------------------------ MODULE ConnMux ------------------------------
(***************************************************************************)
(* One terminal connection lent to a door and taken back (sshd/mux.go).    *)
(* A pump reads what the user types into a one-chunk slot; the interface   *)
(* and the doors, each through a port of its own, read the slot and write  *)
(* the screen, and only the active port gets either.                       *)
(*                                                                         *)
(* Port 0 is the interface, port k the k-th borrow.  A port's reader and   *)
(* writer may outlive its borrow: nothing interrupts them.  A key stands   *)
(* for a chunk.                                                            *)
(***************************************************************************)
EXTENDS Integers, Sequences

CONSTANTS MaxBorrows, MaxKeys   \* bounds

ASSUME MuxAssumption == MaxBorrows \in Nat \ {0} /\ MaxKeys \in Nat

VARIABLES
    active,    \* connMux.active
    borrows,   \* borrows so far
    pump,      \* "slot" (wait until it is empty), "read", "got" or "done"
    typed,     \* keys typed
    got,       \* the key the pump holds, before it takes the lock again
    pend,      \* connMux.pend, as a sequence of at most one key
    down,      \* connMux.err: the connection is gone
    shut,      \* connMux.closed
    taken,     \* the keys read from the slot, in order
    ended,     \* ports whose reader was told the borrow ended
    writer,    \* [port -> "idle", "locked" or "cleared"]
    drawn,     \* the active port has drawn since it became active
    spliced    \* a frame of another port landed after that

muxVars == <<active, borrows, pump, typed, got, pend, down, shut, taken, ended, writer, drawn, spliced>>
inVars == <<pump, typed, got, pend, down, taken, ended>>
outVars == <<writer, drawn, spliced>>

Ports == 0 .. MaxBorrows

MuxInit ==
    /\ active = 0 /\ borrows = 0 /\ shut = FALSE
    /\ pump = "slot" /\ typed = 0 /\ got = 0 /\ pend = <<>> /\ down = FALSE
    /\ taken = <<>> /\ ended = {}
    /\ writer = [p \in Ports |-> "idle"] /\ drawn = FALSE /\ spliced = FALSE

----------------------------------------------------------------------------
(* Lending. *)

Activate ==
    /\ ~shut /\ active = 0 /\ borrows < MaxBorrows
    /\ borrows' = borrows + 1 /\ active' = borrows + 1
    /\ drawn' = FALSE
    /\ UNCHANGED <<inVars, shut, writer, spliced>>

\* Whatever became of the door; the interface redraws.
Restore ==
    /\ active # 0
    /\ active' = 0 /\ drawn' = FALSE
    /\ UNCHANGED <<inVars, borrows, shut, writer, spliced>>

CloseMux ==
    /\ ~shut
    /\ shut' = TRUE
    /\ UNCHANGED <<inVars, outVars, active, borrows>>

----------------------------------------------------------------------------
(* Input. *)

\* Mutant: the next chunk is read whether or not the last one was consumed.
SlotFreeAlways == TRUE

SlotFree == pend = <<>>

PumpWaits ==
    /\ pump = "slot" /\ (SlotFree \/ shut)
    /\ pump' = IF shut THEN "done" ELSE "read"
    /\ UNCHANGED <<typed, got, pend, down, taken, ended, outVars, active, borrows, shut>>

\* A read of the connection: a key, or its end.
PumpReads(eof) ==
    /\ pump = "read" /\ (eof \/ typed < MaxKeys)
    /\ typed' = IF eof THEN typed ELSE typed + 1
    /\ got' = IF eof THEN 0 ELSE typed + 1
    /\ pump' = "got"
    /\ UNCHANGED <<pend, down, taken, ended, outVars, active, borrows, shut>>

PumpDelivers ==
    /\ pump = "got"
    /\ pend' = IF got = 0 THEN pend ELSE <<got>>
    /\ down' = (got = 0)
    /\ pump' = IF got = 0 \/ shut THEN "done" ELSE "slot"
    /\ got' = 0
    /\ UNCHANGED <<typed, taken, ended, outVars, active, borrows, shut>>

\* The active port takes the slot, even from a connection that has ended.
ReadPort(p) ==
    /\ p \notin ended /\ p =< borrows
    /\ active = p /\ pend # <<>>
    /\ taken' = Append(taken, pend[1]) /\ pend' = <<>>
    /\ UNCHANGED <<pump, typed, got, down, ended, outVars, active, borrows, shut>>

\* A reader that is not served any more is released.
ReadEnds(p) ==
    /\ p \notin ended /\ p =< borrows
    /\ \/ down /\ (active # p \/ pend = <<>>)
       \/ shut
       \/ active # p /\ p # 0
    /\ ~(active = p /\ pend # <<>>)
    /\ ended' = ended \cup {p}
    /\ UNCHANGED <<pump, typed, got, pend, down, taken, outVars, active, borrows, shut>>

----------------------------------------------------------------------------
(* Output: wmu is held from before the check until the frame is out. *)

Lockable == \A p \in Ports : writer[p] = "idle"

WriteLocks(p) ==
    /\ p =< borrows /\ writer[p] = "idle" /\ Lockable
    /\ writer' = [writer EXCEPT ![p] = "locked"]
    /\ UNCHANGED <<inVars, drawn, spliced, active, borrows, shut>>

\* A port that is not active discards its frame.
WriteChecks(p) ==
    /\ writer[p] = "locked"
    /\ writer' = [writer EXCEPT ![p] = IF active = p /\ ~shut THEN "cleared" ELSE "idle"]
    /\ UNCHANGED <<inVars, drawn, spliced, active, borrows, shut>>

\* The owner may have changed since the check.
WriteLands(p) ==
    /\ writer[p] = "cleared"
    /\ writer' = [writer EXCEPT ![p] = "idle"]
    /\ drawn' = (drawn \/ active = p)
    /\ spliced' = (spliced \/ (drawn /\ active # p))
    /\ UNCHANGED <<inVars, active, borrows, shut>>

MuxNext ==
    \/ Activate \/ Restore \/ CloseMux
    \/ PumpWaits \/ PumpDelivers \/ \E eof \in BOOLEAN : PumpReads(eof)
    \/ \E p \in Ports : ReadPort(p) \/ ReadEnds(p) \/ WriteLocks(p) \/ WriteChecks(p) \/ WriteLands(p)

----------------------------------------------------------------------------
(* Properties. *)

\* What the user typed reaches somebody once and in order, whoever the
\* connection is lent to in between (pump, Read): nothing is dropped while the
\* owner changes, and nothing is delivered twice.
TypedOnce ==
    /\ \A i \in DOMAIN taken : taken[i] = i
    /\ Len(taken) + Len(pend) + (IF got = 0 THEN 0 ELSE 1) = typed

\* "No frame is spliced and no stale frame lands after the new owner has started
\* drawing", although ownership changes without the write lock.
NoStaleFrame == ~spliced

\* The line is lent and taken back without a byte going astray either way.
LineIsSound == TypedOnce /\ NoStaleFrame

=============================================================================
