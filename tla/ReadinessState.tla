--------------------------- MODULE ReadinessState ---------------------------
(***************************************************************************)
(* The state word of a readiness node, bit by bit: ReadinessState of       *)
(* poll.rs with the flag sets Ready and PollOpt it packs.  A usize is the  *)
(* set of the positions of its 1 bits.                                     *)
(*                                                                         *)
(* ReadinessNode keeps the word as a record.  StateOf is the record a word *)
(* stands for, and ReadinessNodeProofs shows that every change poll.rs     *)
(* makes to the word is the change ReadinessNode makes to the record, and  *)
(* what becomes of flags that are wider than their field.                  *)
(***************************************************************************)
EXTENDS Integers

READINESS_SHIFT == 0
INTEREST_SHIFT == 4
POLL_OPT_SHIFT == 8
TOKEN_RD_SHIFT == 12
TOKEN_WR_SHIFT == 14
QUEUED_SHIFT == 16
DROPPED_SHIFT == 17

MASK_2 == 0..1
MASK_4 == 0..3

-----------------------------------------------------------------------------
(* The flags.  Ready::all has bits that MASK_4 does not have: those of     *)
(* LIO and PRI.                                                            *)

Ready_readable == {0}
Ready_writable == {1}
Ready_all == Ready_readable \cup Ready_writable \cup {2, 3, 5, 6}

is_edge(opt) == 0 \in opt
is_oneshot(opt) == 2 \in opt

-----------------------------------------------------------------------------
(* ReadinessState.                                                         *)

Shl(v, shift) == {b + shift : b \in v}

get(w, mask, shift) == {b \in mask : b + shift \in w}

\* val is not masked.
set(w, val, mask, shift) == (w \ Shl(mask, shift)) \cup Shl(val, shift)

readiness(w) == get(w, MASK_4, READINESS_SHIFT)
interest(w) == get(w, MASK_4, INTEREST_SHIFT)
poll_opt(w) == get(w, MASK_4, POLL_OPT_SHIFT)
effective_readiness(w) == readiness(w) \cap interest(w)

set_readiness(w, v) == set(w, v, MASK_4, READINESS_SHIFT)
set_interest(w, v) == set(w, v, MASK_4, INTEREST_SHIFT)
set_poll_opt(w, v) == set(w, v, MASK_4, POLL_OPT_SHIFT)
disarm(w) == set_interest(w, {})

is_queued(w) == QUEUED_SHIFT \in w
is_dropped(w) == DROPPED_SHIFT \in w
set_queued(w) == w \cup {QUEUED_SHIFT}
set_dequeued(w) == w \ {QUEUED_SHIFT}

\* A slot number, in two bits.
Number(bits) == (IF 0 \in bits THEN 1 ELSE 0) + (IF 1 \in bits THEN 2 ELSE 0)
Bits(n) == (IF n \in {1, 3} THEN {0} ELSE {}) \cup (IF n \in {2, 3} THEN {1} ELSE {})

token_read_pos(w) == Number(get(w, MASK_2, TOKEN_RD_SHIFT))
token_write_pos(w) == Number(get(w, MASK_2, TOKEN_WR_SHIFT))
set_token_write_pos(w, n) == set(w, Bits(n), MASK_2, TOKEN_WR_SHIFT)
update_token_read_pos(w) == set(w, Bits(token_write_pos(w)), MASK_2, TOKEN_RD_SHIFT)

-----------------------------------------------------------------------------
(* What the compare_exchange loops store.                                  *)

queue_if_ready(w) == IF effective_readiness(w) # {} THEN set_queued(w) ELSE w

\* RegistrationInner::set_readiness
SetReadinessNext(w, ready) == queue_if_ready(set_readiness(w, ready))

\* RegistrationInner::update
UpdateNext(w, pos, int, opt) ==
    queue_if_ready(set_poll_opt(set_interest(set_token_write_pos(w, pos), int), opt))

\* ReadinessQueue::poll
PollNext(w) ==
    LET ready == effective_readiness(w)
        opt == poll_opt(w)
        next == IF is_edge(opt)
                THEN IF is_oneshot(opt) /\ ready # {} THEN disarm(set_dequeued(w))
                                                      ELSE set_dequeued(w)
                ELSE IF ready = {} THEN set_dequeued(w) ELSE w
    IN  update_token_read_pos(next)

-----------------------------------------------------------------------------
(* The record a word stands for.  poll asks for edge, then for oneshot;    *)
(* without edge the registration is level-triggered, whatever level says.  *)

OptOf(bits) ==
    IF ~is_edge(bits) THEN "level" ELSE IF is_oneshot(bits) THEN "edgeOneshot" ELSE "edge"

StateOf(w) ==
    [readiness |-> readiness(w), interest |-> interest(w), opt |-> OptOf(poll_opt(w)),
     queued |-> is_queued(w), dropped |-> is_dropped(w),
     rd |-> token_read_pos(w), wr |-> token_write_pos(w)]

=============================================================================
