----------------------------- MODULE Resumption -----------------------------
(***************************************************************************)
(* TLS 1.3 resumption: ClusterTicketer issues and opens session tickets    *)
(* under keys derived from a cluster root, a context and an epoch, and     *)
(* early_data::evaluate decides whether a resumed request may be served    *)
(* from 0-RTT, last of all through the two-generation replay filter.       *)
(* Connections evaluate concurrently, one atomic word at a time, and the   *)
(* control-plane tick rotates the filter under them.                       *)
(*                                                                         *)
(* A ticket is named by what its key is derived from; a damaged ticket     *)
(* does not authenticate.  Early-data wiring is not in the corpus: a       *)
(* presentation is a call of evaluate.                                     *)
(***************************************************************************)
EXTENDS Integers, Sequences, SequencesExt, FiniteSets

CONSTANTS
  Configs,          \* the ticketers a node is given in turn: [primary, previous, context]
  Tickets,          \* [root, context, epoch, intact, sized]: what clients may bring
  MaxEpoch,
  SLOT_COUNT, ACCEPTED_EPOCHS,
  Threads,          \* connections that evaluate early data
  Facts,            \* EarlyDataFacts, with the identity in psk_identity
  Locate,           \* identity -> [base, masks]
  WORDS_PER_BLOCK, Words,
  EarlyEnabled, MaxBytes,
  RotateSecs, MaxTime,
  MaxPresentations

VARIABLES
  node,       \* [config, epoch, slots]: the ticketer and the epoch the clock reads
  resumed,    \* the last decrypt: [ticket, ok, epoch, config]
  gens,       \* the two generations: generation -> word -> set of bits
  current,
  rotated_at,
  rotation,   \* rotate_if_due: [pc, now, outgoing, word]
  thread,     \* check_and_insert, per connection
  flips,      \* how often current was flipped
  begun,      \* how many rotations began to clear
  admitted,   \* [id, at]: identities remembered, and flips when they were filed
  wrote,      \* identity -> flips when a word of it was last written
  presented   \* how many presentations were made

rvars == <<node, resumed, gens, current, rotated_at, rotation, thread, flips, begun,
           admitted, wrote, presented>>

None == "none"

------------------------------------------------------------------------------
(* ticket.rs                                                                *)

EmptyRing == [i \in 0 .. SLOT_COUNT - 1 |-> <<>>]
NoRings == [Primary |-> EmptyRing, Previous |-> EmptyRing]

derive(root, context, epoch) == <<root, context, epoch>>

\* A slot is filled once and never replaced: an epoch that finds another in
\* its slot is derived again.
AnyEpoch(slot, root, context, epoch) == slot
key_in(slot, root, context, epoch) ==
  IF slot # <<>> /\ slot[3] = epoch THEN slot ELSE derive(root, context, epoch)

\* One lookup of decrypt: the rings it leaves, and the keys it found.
epoch_key(acc, sel, root, context, epoch) ==
  LET index == epoch % SLOT_COUNT
  IN [slots |-> IF acc.slots[sel][index] = <<>>
                THEN [acc.slots EXCEPT ![sel][index] = derive(root, context, epoch)] ELSE acc.slots,
      keys |-> acc.keys \cup {key_in(acc.slots[sel][index], root, context, epoch)}]

Lookups(config, e) ==
  LET back == SetToSortSeq({b \in 0 .. ACCEPTED_EPOCHS - 1 : b <= e}, LAMBDA a, b : a < b)
      under(sel, root) == [i \in DOMAIN back |-> <<sel, root, e - back[i]>>]
  IN under("Primary", config.primary)
     \o (IF config.previous = None THEN <<>> ELSE under("Previous", config.previous))

Searched(config, e, slots) ==
  FoldLeft(LAMBDA acc, l : epoch_key(acc, l[1], l[2], config.context, l[3]),
           [slots |-> slots, keys |-> {}], Lookups(config, e))

NoAnswer == [at |-> None]
Name(t) == derive(t.root, t.context, t.epoch)

FilterStill == UNCHANGED <<gens, current, rotated_at, rotation, thread, flips, begun, admitted,
                           wrote, presented>>

\* encrypt: the ticket goes to a client, any of which may come back.
encrypt ==
  LET c == Configs[node.config]
  IN /\ node.config > 0
     /\ node' = [node EXCEPT !.slots = epoch_key([slots |-> @, keys |-> {}], "Primary", c.primary,
                                                 c.context, node.epoch).slots]
     /\ resumed' = NoAnswer /\ FilterStill

Decrypted(t, found, config) ==
  /\ node' = [node EXCEPT !.slots = IF t.sized THEN found.slots ELSE @]
  /\ resumed' = [ticket |-> t, epoch |-> node.epoch, config |-> config,
                 ok |-> t.sized /\ Name(t) \in found.keys /\ t.intact]
  /\ FilterStill

decrypt(t) ==
  /\ node.config > 0
  /\ Decrypted(t, Searched(Configs[node.config], node.epoch, node.slots), Configs[node.config])

\* A reload builds another ticketer (new, with_previous_root); both rings are new.
Reconfigure ==
  /\ node.config < Len(Configs)
  /\ node' = [node EXCEPT !.config = @ + 1, !.slots = NoRings]
  /\ resumed' = NoAnswer /\ FilterStill

\* The wall clock reads another epoch, earlier ones included.
SetClock(e) ==
  /\ node.config > 0 /\ e # node.epoch
  /\ node' = [node EXCEPT !.epoch = e] /\ resumed' = NoAnswer /\ FilterStill

------------------------------------------------------------------------------
(* early_data.rs and replay.rs                                              *)

\* evaluate up to the filter.
precondition(f) ==
  IF ~EarlyEnabled THEN "Disabled"
  ELSE IF f.client_auth_enforced THEN "ClientAuth"
  ELSE IF f.method = "Other" THEN "Method"
  ELSE IF f.has_body_framing THEN "Body"
  ELSE IF f.route = "Deny" THEN "RoutePolicy"
  ELSE IF f.has_query /\ f.route # "AllowQuery" THEN "Query"
  ELSE IF f.bytes_received > MaxBytes THEN "TooLarge"
  ELSE IF f.psk_identity = "short" THEN "NoPskIdentity" ELSE None

Idle == [pc |-> "idle", verdict |-> None]

TicketsStill == UNCHANGED <<node, resumed>>

Present(t, f) ==
  /\ thread[t].pc = "idle" /\ presented < MaxPresentations
  /\ presented' = presented + 1
  /\ thread' = [thread EXCEPT ![t] =
       IF precondition(f) # None THEN [pc |-> "idle", verdict |-> precondition(f), facts |-> f]
       ELSE [pc |-> "current", verdict |-> None, facts |-> f, id |-> f.psk_identity,
             known |-> admitted, since |-> flips]]
  /\ TicketsStill /\ UNCHANGED <<gens, current, rotated_at, rotation, flips, begun, admitted, wrote>>

Cell(id, w) == Locate[id].base + w
Mask(id, w) == Locate[id].masks[w]

\* current_index.
LoadCurrent(t) ==
  /\ thread[t].pc = "current"
  /\ thread' = [thread EXCEPT ![t] = [pc |-> "other", cur |-> current, filed |-> flips] @@ @]
  /\ TicketsStill
  /\ UNCHANGED <<gens, current, rotated_at, rotation, flips, begun, admitted, wrote, presented>>

\* other_index, which loads current again.
LoadOther(t) ==
  /\ thread[t].pc = "other"
  /\ thread' = [thread EXCEPT ![t] =
                  [pc |-> "probe", gen |-> 1 - current, last |-> FALSE, word |-> 1, all |-> TRUE] @@ @]
  /\ TicketsStill
  /\ UNCHANGED <<gens, current, rotated_at, rotation, flips, begun, admitted, wrote, presented>>

Refused(th) == [pc |-> "idle", verdict |-> "Replay", facts |-> th.facts, id |-> th.id,
                known |-> th.known, since |-> th.since, begun |-> begun]
Accepted(th) == [Refused(th) EXCEPT !.verdict = "Accept"]

\* block_has_all: every word of the block is loaded, the other generation's
\* first, then the current one's.
Probed(th, all) ==
  IF th.word < WORDS_PER_BLOCK THEN [th EXCEPT !.word = @ + 1, !.all = all]
  ELSE IF all THEN Refused(th)
  ELSE IF ~th.last THEN [th EXCEPT !.gen = th.cur, !.last = TRUE, !.word = 1, !.all = TRUE]
  ELSE [th EXCEPT !.pc = "insert", !.word = 1]

Probe(t) ==
  /\ thread[t].pc = "probe"
  /\ thread' = [thread EXCEPT ![t] =
       Probed(@, @.all /\ Mask(@.id, @.word) \subseteq gens[@.gen][Cell(@.id, @.word)])]
  /\ TicketsStill
  /\ UNCHANGED <<gens, current, rotated_at, rotation, flips, begun, admitted, wrote, presented>>

\* block_insert_all: one fetch_or per word.
Insert(t) ==
  LET th == thread[t]
      done == th.word = WORDS_PER_BLOCK
  IN /\ th.pc = "insert"
     /\ gens' = [gens EXCEPT ![th.cur][Cell(th.id, th.word)] = @ \cup Mask(th.id, th.word)]
     /\ wrote' = [wrote EXCEPT ![th.id] = flips]
     /\ admitted' = IF done THEN admitted \cup {[id |-> th.id, at |-> th.filed]} ELSE admitted
     /\ thread' = [thread EXCEPT ![t] = IF done THEN Accepted(th) ELSE [th EXCEPT !.word = @ + 1]]
     /\ TicketsStill
     /\ UNCHANGED <<current, rotated_at, rotation, flips, begun, presented>>

Rest == [pc |-> "rest"]
Saturating(a, b) == IF a < b THEN 0 ELSE a - b

\* rotate_if_due, from the control-plane tick: nothing unless a period passed.
Tick(now) ==
  /\ rotation.pc = "rest" /\ Saturating(now, rotated_at) >= RotateSecs
  /\ rotation' = [pc |-> "clear", now |-> now, outgoing |-> 1 - current, word |-> 1]
  /\ begun' = begun + 1
  /\ TicketsStill
  /\ UNCHANGED <<gens, current, rotated_at, thread, flips, admitted, wrote, presented>>

ClearWord ==
  /\ rotation.pc = "clear"
  /\ gens' = [gens EXCEPT ![rotation.outgoing][rotation.word] = {}]
  /\ rotation' = IF rotation.word < Words THEN [rotation EXCEPT !.word = @ + 1]
                 ELSE [rotation EXCEPT !.pc = "flip"]
  /\ TicketsStill
  /\ UNCHANGED <<current, rotated_at, thread, flips, begun, admitted, wrote, presented>>

Flip ==
  /\ rotation.pc = "flip"
  /\ current' = 1 - current /\ flips' = flips + 1
  /\ rotated_at' = rotation.now /\ rotation' = Rest
  /\ TicketsStill
  /\ UNCHANGED <<gens, thread, begun, admitted, wrote, presented>>

Identities == DOMAIN Locate

Init ==
  /\ node = [config |-> IF Configs = <<>> THEN 0 ELSE 1, epoch |-> 0, slots |-> NoRings]
  /\ resumed = NoAnswer
  /\ gens = [g \in 0 .. 1 |-> [w \in 1 .. Words |-> {}]]
  /\ current = 0 /\ rotated_at = 0 /\ rotation = Rest
  /\ thread = [t \in Threads |-> Idle]
  /\ flips = 0 /\ begun = 0 /\ admitted = {} /\ presented = 0
  /\ wrote = [id \in Identities |-> -9]

Next ==
  \/ encrypt \/ Reconfigure
  \/ \E t \in Tickets : decrypt(t)
  \/ \E e \in 0 .. MaxEpoch : SetClock(e)
  \/ \E t \in Threads :
       \/ \E f \in Facts : Present(t, f)
       \/ LoadCurrent(t) \/ LoadOther(t) \/ Probe(t) \/ Insert(t)
  \/ \E now \in 0 .. MaxTime : Tick(now)
  \/ ClearWord \/ Flip

------------------------------------------------------------------------------
\* A ticket opens exactly under the configuration it was sealed for: its root
\* is the node's root or the one before, its context is the node's own, and
\* its epoch is this one or one of the two before.  No history of lookups,
\* clock steps or full slots changes the answer.
OpensItsOwn ==
  resumed # NoAnswer =>
    resumed.ok =
      (/\ resumed.ticket.sized /\ resumed.ticket.intact
       /\ resumed.ticket.root \in {resumed.config.primary, resumed.config.previous}
       /\ resumed.ticket.context = resumed.config.context
       /\ resumed.ticket.epoch \in resumed.epoch - ACCEPTED_EPOCHS + 1 .. resumed.epoch)

Verdicts == {t \in Threads : thread[t].pc = "idle" /\ thread[t].verdict # None}

\* Only a request that may run twice is served early, and what any earlier
\* condition refused has left nothing in the filter.
OnlyRepeatable ==
  \A t \in Verdicts :
    LET f == thread[t].facts
        repeatable == /\ f.method \in {"Get", "Head"} /\ ~f.has_body_framing /\ ~f.client_auth_enforced
                      /\ f.route # "Deny" /\ (f.has_query => f.route = "AllowQuery")
    IN IF thread[t].verdict \in {"Accept", "Replay"} THEN repeatable
       ELSE ~repeatable \/ ~EarlyEnabled \/ f.bytes_received > MaxBytes \/ f.psk_identity = "short"

\* An identity admitted is refused to every call that begins once it is filed,
\* until the generation it was filed in is cleared, which is the second
\* rotation after the flip it was filed under.  So it is admitted twice only
\* by calls that overlap or a rotation apart.
Remembered ==
  \A t \in Verdicts :
    thread[t].verdict = "Accept" =>
      \A a \in thread[t].known : a.id = thread[t].id => thread[t].begun >= a.at + 2

\* A refusal is never made up: every bit of it was written for some identity,
\* and within the last three rotations.  Clearing a generation under a probe
\* or an insert only ever forgets.
NeverInvented ==
  \A t \in Verdicts :
    thread[t].verdict = "Replay" =>
      \A w \in 1 .. WORDS_PER_BLOCK : \A b \in Mask(thread[t].id, w) :
        \E id \in Identities :
          /\ wrote[id] + 2 >= thread[t].since
          /\ Locate[id].base = Locate[thread[t].id].base /\ b \in Mask(id, w)

\* What tickets, early-data verdicts and the replay filter promise together.
ResumptionSound == OpensItsOwn /\ OnlyRepeatable /\ Remembered /\ NeverInvented
=============================================================================
