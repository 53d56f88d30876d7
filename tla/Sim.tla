-------------------------------- MODULE Sim --------------------------------
(***************************************************************************)
(* The SIM reader (os/drivers/sim.c): one controller for two slots.  A slot   *)
(* is powered at 1.8 V (class C) and then at 3 V (class B), its answer to     *)
(* reset is read and parsed, and T=0 commands are exchanged with it.          *)
(*                                                                         *)
(* The card is the one of ISO/IEC 7816-3 that the driver counts on, with the  *)
(* emulator's (sc6530_sim.c) as one of its behaviours: it sends a character   *)
(* when it likes, may stop at any time, and may be too slow for the driver.   *)
(***************************************************************************)
EXTENDS Integers, Sequences, SequencesExt

CONSTANTS
  SimCards,  \* what is in the slots: NoCard, or a record as Describes says
  NoCard,
  Commands,  \* the commands: bytes "to" or "from" the card, and how many
  Nulls,     \* the NULLs after which an exchange is given up (100)
  MaxFifo    \* bound: the characters that wait in the controller

VARIABLES
  sim,    \* the driver: where it is, active, held, and what the calls under way keep
  dev,    \* each slot's supply, the clock, the slot selected, the received characters
  cards,  \* each slot's card: what it is, does, has to send, has taken and told
  last    \* what the last call returned

simvars == <<sim, dev, cards, last>>

Slot == {0, 1}
NoSlot == 2

\* A character: its kind, the interface characters it announces, its value, and
\* whether it is in the inverse convention.
Char(k, y, v) == [k |-> k, y |-> y, v |-> v, inv |-> FALSE]
-----------------------------------------------------------------------------
(* The answer to reset *)

\* The card's: TS, T0, the characters announced level by level, the historical
\* bytes, and a check character unless only T=0 is offered.
Announces(c, i) ==
  (IF i < Len(c.protocols) THEN {"D"} ELSE {})
    \cup (IF i = 0 \/ (c.classes # {} /\ c.protocols[i] = 15) THEN {"A"} ELSE {})

Level(c, i) ==
  (IF "A" \in Announces(c, i)
   THEN <<Char("i", {}, IF i = 0 THEN {"A"} ELSE c.classes)>> ELSE <<>>)
    \o (IF "D" \in Announces(c, i)
        THEN <<Char("i", Announces(c, i + 1), {c.protocols[i + 1]})>> ELSE <<>>)

Check(c) == IF \E i \in DOMAIN c.protocols : c.protocols[i] # 0 THEN 1 ELSE 0

\* The characters of level i and all after it.
Levels(c) ==
  LET from[i \in 0 .. Len(c.protocols) + 1] ==
        IF i > Len(c.protocols) THEN [j \in 1 .. c.hist + Check(c) |-> Char("i", {}, {})]
        ELSE Level(c, i) \o from[i + 1]
  IN  from

AtrOf(c) ==
  LET Plain == <<Char(IF c.ts = "bad" THEN "bad" ELSE "ts", {}, {}),
                 Char("i", Announces(c, 0), {})>> \o Levels(c)[0]
  IN  [i \in DOMAIN Plain |-> [Plain[i] EXCEPT !.inv = c.ts = "inverse"]]

Describes(c) ==
  /\ c.ts \in {"direct", "inverse", "bad"}
  /\ c.works \subseteq {"B", "C"}            \* the classes it answers at
  /\ c.protocols \in Seq({0, 1, 15})         \* T of each TD
  /\ c.classes \subseteq {"A", "B", "C"}     \* its class indicator, {} for none
  /\ c.classes # {} => c.protocols # <<>> /\ Last(c.protocols) = 15
  /\ c.hist \in Nat                          \* historical bytes
  /\ Len(AtrOf(c)) <= 33                     \* SIM_ATR_MAX, of which ISO/IEC 7816-3 has TS and 32

ASSUME SimAssumption ==
  /\ \A both \in SimCards : \A c \in {both[0], both[1]} \ {NoCard} : Describes(c)
  /\ \A m \in Commands : m.kind \in {"to", "from"} /\ m.len \in Nat
  /\ Nulls \in Nat \ {0}

\* sim_atr_parse(): todo holds the interface characters of the level that are still to come.
Step(a, ch) ==
  IF a.todo = {} THEN [a EXCEPT !.hist = @ - 1]
  ELSE IF "A" \in a.todo
  THEN [a EXCEPT !.todo = @ \ {"A"}, !.classes = IF a.t15 /\ @ = {} THEN ch.v ELSE @]
  ELSE [a EXCEPT !.todo = ch.y, !.protocols = @ \cup (ch.v \ {15}),
                 !.t15 = 15 \in ch.v, !.tck = @ \/ ch.v # {0}]

\* hist counts down the historical bytes, which T0 announces.
Parsed(raw, hist) ==
  LET after[i \in 2 .. Len(raw)] ==
        IF i = 2 THEN [todo |-> raw[2].y, protocols |-> {}, classes |-> {},
                       t15 |-> FALSE, tck |-> FALSE, hist |-> hist]
        ELSE Step(after[i - 1], raw[i])
  IN  after

Parse(raw, hist) ==
  IF Len(raw) < 2 THEN [protocols |-> {}, classes |-> {}, complete |-> FALSE]
  ELSE LET end == Parsed(raw, hist)[Len(raw)]
       IN  [protocols |-> IF end.todo = {} /\ end.protocols = {} THEN {0} ELSE end.protocols,
            classes |-> end.classes,
            complete |-> end.todo = {} /\ end.hist + (IF end.tck THEN 1 ELSE 0) <= 0]
-----------------------------------------------------------------------------
(* The card *)

NoCmd == [kind |-> "none", len |-> 0]
Off(c) == [is |-> c, st |-> "off", out |-> <<>>, cmd |-> NoCmd, did |-> 0, got |-> <<>>]

\* What comes of a reset at class c.
AfterReset(s, c) ==
  LET is == cards[s].is
  IN  IF is # NoCard /\ c \in is.works THEN [Off(is) EXCEPT !.st = "idle", !.out = AtrOf(is)]
      ELSE Off(is)

Sends(s, chars) ==
  [i \in DOMAIN chars |-> [chars[i] EXCEPT !.inv = cards[s].is.ts = "inverse"]]

CardMay(s, st) ==
  /\ cards[s].st = st /\ cards[s].out = <<>>
  /\ UNCHANGED <<sim, dev, last>>

CardChar(s) ==
  /\ cards[s].out # <<>> /\ dev.clock /\ dev.sel = s /\ Len(dev.rx) < MaxFifo
  /\ cards' = [cards EXCEPT ![s].out = Tail(@)]
  /\ dev' = [dev EXCEPT !.rx = Append(@, Head(cards[s].out))]
  /\ UNCHANGED <<sim, last>>

CardNull(s) ==
  /\ CardMay(s, "cmd")
  /\ cards' = [cards EXCEPT ![s].out = Sends(s, <<Char("null", {}, {})>>)]

Bytes(from, n) == [i \in 1 .. n |-> Char("byte", {}, {from + i})]

\* INS, for all the bytes that are left, or its complement, for one.
CardAck(s) ==
  /\ CardMay(s, "cmd") /\ cards[s].did < cards[s].cmd.len
  /\ \E k \in {"all", "one"} :
       LET c == cards[s]
           n == IF k = "one" THEN 1 ELSE c.cmd.len - c.did
           ack == <<Char(k, {}, {})>>
       IN  cards' = [cards EXCEPT ![s] =
             IF c.cmd.kind = "to" THEN [c EXCEPT !.st = "take", !.out = Sends(s, ack)]
             ELSE [c EXCEPT !.out = Sends(s, ack \o Bytes(c.did, n)), !.did = @ + n]]

\* The status: at the end, or at once.
CardStatus(s) ==
  /\ CardMay(s, "cmd")
  /\ cards' = [cards EXCEPT ![s].st = "idle",
                 ![s].out = Sends(s, <<Char("sw1", {}, {}), Char("sw2", {}, {})>>)]

\* Characters for the card; it takes a command when it waits for one.
Takes(c, conv, chars, m) ==
  IF c.st = "off" \/ conv # (c.is.ts = "inverse") THEN c
  ELSE IF m # NoCmd /\ c.st = "idle" /\ c.out = <<>>
  THEN [c EXCEPT !.st = "cmd", !.cmd = m, !.did = 0, !.got = <<>>]
  ELSE IF m = NoCmd /\ c.st = "take"
  THEN [c EXCEPT !.st = "cmd", !.did = @ + Len(chars), !.got = @ \o chars]
  ELSE [c EXCEPT !.st = "idle", !.out = IF @ = <<>> THEN <<Char("sw1", {}, {})>> ELSE @]

\* It is pulled out or breaks off.
CardStops(s) ==
  /\ cards[s].st # "off"
  /\ cards' = [cards EXCEPT ![s] = Off(@.is)]
  /\ UNCHANGED <<sim, dev, last>>
-----------------------------------------------------------------------------
(* Activation *)

\* Outside a call only this is kept.
Rests(active, conv, clean) ==
  [pc |-> "out", active |-> active, conv |-> conv, clean |-> clean, held |-> active # NoSlot,
   slot |-> NoSlot, cls |-> "any", mode |-> "none", raw |-> <<>>, cmd |-> NoCmd, done |-> 0,
   want |-> 0, nulls |-> 0, got |-> <<>>]

Returned == [op |-> "none", r |-> "ok", asked |-> "any", cls |-> "none", mode |-> "none", atr |-> Parse(<<>>, 0), got |-> <<>>, done |-> 0]
Returns1(op, r) == last' = [Returned EXCEPT !.op = op, !.r = r]

SimInit ==
  /\ sim = Rests(NoSlot, FALSE, FALSE)
  /\ dev = [supply |-> [s \in Slot |-> "off"], clock |-> FALSE, sel |-> 0, rx |-> <<>>]
  /\ cards \in {[s \in Slot |-> Off(both[s])] : both \in SimCards}
  /\ last = Returned

Resting == sim.pc = "out"

\* power_down()
Darkened(s) == [dev EXCEPT !.supply[s] = "off", !.clock = FALSE]

\* power_up(), up to RST high: the supply, the clocks, the slot, the direct convention.
PowerUp(s, c, asked, mode) ==
  /\ sim' = [Rests(s, FALSE, FALSE) EXCEPT !.pc = "atr", !.slot = s, !.cls = asked, !.mode = mode]
  /\ dev' = [dev EXCEPT !.supply[s] = c, !.clock = TRUE, !.sel = s, !.rx = <<>>]
  /\ cards' = [cards EXCEPT ![s] = AfterReset(s, c)]

\* sim_activate_class(); the active slot itself is powered down first.
Activate(s, cls) ==
  /\ Resting
  /\ IF sim.active \notin {NoSlot, s}
     THEN Returns1("activate", "busy") /\ UNCHANGED <<sim, dev, cards>>
     ELSE PowerUp(s, IF cls = "any" THEN "C" ELSE cls, cls, "scan") /\ last' = Returned

\* sim_deactivate()
Deactivate(s) ==
  /\ Resting /\ Returns1("deactivate", "ok")
  /\ IF s = sim.active
     THEN /\ sim' = Rests(NoSlot, FALSE, FALSE) /\ dev' = Darkened(s)
          /\ cards' = [cards EXCEPT ![s] = Off(@.is)]
     ELSE UNCHANGED <<sim, dev, cards>>

\* sim_getc(), in the convention of the controller.
Heard == [Head(dev.rx) EXCEPT !.inv = @ # sim.conv]
Hears == dev.rx # <<>> /\ dev' = [dev EXCEPT !.rx = Tail(@)]

AtrChar ==
  /\ sim.pc = "atr" /\ Hears
  /\ sim' = [sim EXCEPT !.raw = Append(@, Heard)]
  /\ UNCHANGED <<cards, last>>

Supplied == dev.supply[sim.slot]
HistOf(s) == IF cards[s].is = NoCard THEN 0 ELSE cards[s].is.hist
Atr == Parse(sim.raw, HistOf(sim.slot))
ValidTs == sim.raw # <<>> /\ sim.raw[1].k = "ts"

\* The call returns with the slot powered; an inverse answer switches the controller.
AtrTaken ==
  /\ sim' = Rests(sim.slot, sim.raw[1].inv, Atr.complete)
  /\ last' = [Returned EXCEPT !.op = "activate", !.asked = sim.cls, !.cls = Supplied,
                         !.mode = sim.mode, !.atr = Atr]
  /\ UNCHANGED <<dev, cards>>

GivenUp ==
  /\ sim' = Rests(NoSlot, FALSE, FALSE) /\ dev' = Darkened(sim.slot)
  /\ cards' = [cards EXCEPT ![sim.slot] = Off(@.is)]
  /\ Returns1("activate", IF sim.raw = <<>> THEN "nocard" ELSE "badatr")

Again(c, mode) == PowerUp(sim.slot, c, sim.cls, mode) /\ UNCHANGED last

\* 300 ms without the first byte, or 50 ms without the next: the rest of power_up()
\* and of activate_locked().
AtrEnd ==
  /\ sim.pc = "atr" /\ dev.rx = <<>>
  /\ CASE sim.mode = "scan" /\ ~ValidTs ->
            IF sim.cls = "any" /\ Supplied = "C" THEN Again("B", "scan") ELSE GivenUp
       [] sim.mode = "scan" /\ ValidTs ->
            IF sim.cls = "any" /\ Supplied = "C" /\ Atr.classes # {} /\ "C" \notin Atr.classes
            THEN Again("B", "indicated") ELSE AtrTaken
       [] sim.mode = "indicated" -> IF ValidTs THEN AtrTaken ELSE Again("C", "back")
       [] sim.mode = "back" -> IF ValidTs THEN AtrTaken ELSE GivenUp
-----------------------------------------------------------------------------
(* T=0 *)

\* The end of an exchange; a failed one leaves the card anywhere in its command.
EndsWith(r) ==
  /\ sim' = Rests(sim.active, sim.conv, sim.clean /\ r # "timeout")
  /\ last' = [Returned EXCEPT !.op = "apdu", !.r = r, !.got = sim.got, !.done = sim.done]

\* sim_apdu(): the FIFOs are reset and the header is sent.
Apdu(s, m) ==
  /\ Resting
  /\ IF s # sim.active
     THEN Returns1("apdu", "notactive") /\ UNCHANGED <<sim, dev, cards>>
     ELSE /\ sim' = [sim EXCEPT !.pc = "t0", !.slot = s, !.cmd = m]
          /\ dev' = [dev EXCEPT !.rx = <<>>]
          /\ cards' = [cards EXCEPT ![s] = Takes(@, sim.conv, <<>>, m)]
          /\ last' = Returned

Next1(pc) == sim' = [sim EXCEPT !.pc = pc]

\* The next procedure byte.
Null ==
  /\ sim.pc = "t0" /\ Hears /\ Heard.k = "null" /\ ~Heard.inv
  /\ IF sim.nulls + 1 = Nulls THEN EndsWith("timeout")
     ELSE sim' = [sim EXCEPT !.nulls = @ + 1] /\ UNCHANGED last
  /\ UNCHANGED cards

Status1 ==
  /\ sim.pc = "t0" /\ Hears /\ Heard.k = "sw1" /\ ~Heard.inv
  /\ Next1("sw2") /\ UNCHANGED <<cards, last>>

Status2 ==
  /\ sim.pc = "sw2" /\ Hears /\ EndsWith("status")
  /\ UNCHANGED cards

\* Mutant: the complement of INS is taken for INS.
AllThatIsLeft(k) == sim.cmd.len - sim.done

\* What a procedure byte asks for: all the bytes that are left, or the next.
Portion(k) ==
  LET left == sim.cmd.len - sim.done IN IF k = "all" \/ left = 0 THEN left ELSE 1

Ack ==
  /\ sim.pc = "t0" /\ Hears /\ Heard.k \in {"all", "one"} /\ ~Heard.inv
  /\ LET n == Portion(Heard.k)
     IN  IF sim.cmd.kind = "to"
         THEN /\ sim' = [sim EXCEPT !.done = @ + n]
              /\ cards' = [cards EXCEPT ![sim.slot] =
                             Takes(@, sim.conv, [i \in 1 .. n |-> sim.done + i], NoCmd)]
         ELSE sim' = [sim EXCEPT !.pc = IF n = 0 THEN "t0" ELSE "bytes", !.want = n] /\ UNCHANGED cards
  /\ UNCHANGED last

NoProcedureByte ==
  /\ sim.pc = "t0" /\ Hears /\ (Heard.k \notin {"null", "sw1", "all", "one"} \/ Heard.inv)
  /\ EndsWith("proto") /\ UNCHANGED cards

Byte ==
  /\ sim.pc = "bytes" /\ Hears
  /\ sim' = [sim EXCEPT !.got = Append(@, Heard.v), !.done = @ + 1, !.want = @ - 1,
                        !.pc = IF sim.want = 1 THEN "t0" ELSE @]
  /\ UNCHANGED <<cards, last>>

\* No byte in time.
Silent ==
  /\ sim.pc \in {"t0", "sw2", "bytes"} /\ dev.rx = <<>>
  /\ EndsWith("timeout") /\ UNCHANGED <<dev, cards>>
-----------------------------------------------------------------------------
SimCall ==
  \E s \in Slot :
    \/ \E cls \in {"any", "B", "C"} : Activate(s, cls)
    \/ Deactivate(s)
    \/ \E m \in Commands : Apdu(s, m)

SimCard ==
  \E s \in Slot : CardChar(s) \/ CardNull(s) \/ CardAck(s) \/ CardStatus(s) \/ CardStops(s)

SimNext ==
  \/ SimCall \/ SimCard \/ AtrChar \/ AtrEnd
  \/ Null \/ Status1 \/ Status2 \/ Ack \/ NoProcedureByte \/ Byte \/ Silent

SimSpec == SimInit /\ [][SimNext]_simvars
-----------------------------------------------------------------------------
\* What the answer to reset of card c says.
Says(c) ==
  LET offered == {c.protocols[i] : i \in DOMAIN c.protocols} \ {15}
  IN  [protocols |-> IF offered = {} THEN {0} ELSE offered, classes |-> c.classes,
       complete |-> TRUE]

\* Between calls a slot is supplied and clocked, and the CPU held, exactly while it is
\* the active one; an activation that succeeded has read from the card, at the class it
\* reports, what the card says when all of it came, and leaves a card that says it
\* does not take 1.8 V at 1.8 V only after 3 V failed.  And as long as nothing timed
\* out since then, an exchange ends with the card's own status, and the bytes that
\* passed are those the card sent and took.
CardServed ==
  Resting =>
    /\ \A s \in Slot : dev.supply[s] # "off" <=> s = sim.active
    /\ dev.clock = sim.held /\ (sim.held <=> sim.active # NoSlot)
    /\ last.op = "activate" /\ last.r = "ok" =>
         LET c == cards[sim.active].is
         IN  /\ last.cls = dev.supply[sim.active] /\ last.cls \in c.works /\ c.ts # "bad"
             /\ last.atr.complete => last.atr = Says(c)
             /\ last.asked = "any" /\ last.cls = "C" /\ last.atr.complete /\ c.classes # {}
                  => "C" \in c.classes \/ last.mode = "back"
    /\ last.r \in {"status", "proto"} /\ sim.clean =>
         LET c == cards[sim.active]
         IN  /\ last.r = "status"
             /\ c.st # "off" =>
                  /\ c.st = "idle" /\ last.done = c.did
                  /\ IF c.cmd.kind = "to" THEN c.got = [i \in 1 .. last.done |-> i]
                     ELSE last.got = [i \in 1 .. last.done |-> {i}]
=============================================================================
