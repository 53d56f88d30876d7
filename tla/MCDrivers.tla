----------------------------- MODULE MCDrivers -----------------------------
(***************************************************************************)
(* Ten parts that share no state, checked in one run: which of them moves is  *)
(* chosen at the start, the others stay in one initial state.                 *)
(***************************************************************************)
EXTENDS DiskCache, SdCard, Keys, Rtc, Calendar, Heap, CpuFreq, Tickless, Dsp, Sim

VARIABLE part

DriverParts ==
  {"disk", "sd", "keys", "rtc", "calendar", "heap", "clock", "tick", "dsp", "sim"}

MCStarts == {<<364, 86398>>, <<50000, 3599>>}
MCTimes  == {<<366, 23370>>}
MCYears  == {1980, 1983, 1984, 1999, 2000, 2001, 2026, 2096, 2098, 2099}

\* SIM cards: one of the inverse convention that wants 3 V, one that says it does and
\* takes 1.8 V too, one whose answer makes no sense; a plain one in each slot.
Alone == {
  [ts |-> "inverse", works |-> {"B"}, protocols |-> <<0, 15>>, classes |-> {"A", "B"}, hist |-> 0],
  [ts |-> "direct", works |-> {"B", "C"}, protocols |-> <<1, 15>>, classes |-> {"A", "B"}, hist |-> 1],
  [ts |-> "bad", works |-> {"C"}, protocols |-> <<>>, classes |-> {}, hist |-> 0]}
Plain == [ts |-> "direct", works |-> {"B", "C"}, protocols |-> <<>>, classes |-> {}, hist |-> 1]
MCCards == {(0 :> c) @@ (1 :> NoCard) : c \in Alone} \cup {[s \in Slot |-> Plain]}
MCCommands == {[kind |-> "to", len |-> 2], [kind |-> "from", len |-> 2]}

diskvars == vars
parts == <<part, diskvars, sdvars, keyvars, rtcvars, calvars, heapvars, freqvars, tickvars,
           dspvars, simvars>>

\* What an idle part shows does not matter: it starts as some fixed state.
DiskIdle ==
  /\ card = [s \in Sector |-> 0] /\ lo = 0 /\ hi = 0 /\ first = 0 /\ count = 0
  /\ buf = [i \in Place |-> 0] /\ away = FALSE /\ fetch = NoFetch
RtcIdle ==
  /\ hw = FieldsOf(NoTime) /\ new = <<>> /\ some = Fields /\ passed = 0 /\ acks = TRUE
  /\ setting = [on |-> FALSE, t |-> NoTime, at |-> 0]
  /\ setter = IdleSetter /\ reader = IdleReader
CalIdle == date = [year |-> 1980, month |-> 1, day |-> 1] /\ dayNo = 0 /\ wday = 2

PartsInit ==
  /\ part \in DriverParts
  /\ IF part = "disk" THEN Init ELSE DiskIdle
  /\ SdInit /\ KeysInit /\ HeapInit /\ FreqInit /\ TickInit /\ DspInit /\ SimInit
  /\ IF part = "rtc" THEN RtcInit ELSE RtcIdle
  /\ IF part = "calendar" THEN CalInit ELSE CalIdle
  /\ part # "sim" => \A s \in Slot : cards[s].is = Plain

\* Part p moves, the others do not.
Still(p, v) == IF part = p THEN TRUE ELSE UNCHANGED v
Only(p) ==
  /\ part = p /\ UNCHANGED part
  /\ Still("disk", diskvars) /\ Still("sd", sdvars) /\ Still("keys", keyvars)
  /\ Still("rtc", rtcvars) /\ Still("calendar", calvars) /\ Still("heap", heapvars)
  /\ Still("clock", freqvars) /\ Still("tick", tickvars)
  /\ Still("dsp", dspvars) /\ Still("sim", simvars)

PartsNext ==
  \/ Only("disk") /\ Next
  \/ Only("sd") /\ SdNext
  \/ Only("keys") /\ KeysNext
  \/ Only("rtc") /\ RtcNext
  \/ Only("calendar") /\ NextDay
  \/ Only("heap") /\ HeapNext
  \/ Only("clock") /\ FreqNext
  \/ Only("tick") /\ TickNext
  \/ Only("dsp") /\ DspNext
  \/ Only("sim") /\ SimNext

\* The fairness of SdCard, CpuFreq and Tickless; part never changes.
PartsSpec ==
  /\ PartsInit /\ [][PartsNext]_parts
  /\ WF_sdvars(Only("sd") /\ Driver) /\ WF_sdvars(Only("sd") /\ (Move \/ BlockFails))
  /\ WF_freqvars(Only("clock") /\ Switch) /\ WF_freqvars(Only("clock") /\ Governor)
  /\ WF_tickvars(Only("tick") /\ Pass) /\ WF_tickvars(Only("tick") /\ IdleThread)
  /\ WF_tickvars(Only("tick") /\ Handler) /\ WF_tickvars(Only("tick") /\ pending /\ Irq)
=============================================================================
