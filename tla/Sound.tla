------------------------------- MODULE Sound -------------------------------
(***************************************************************************)
(* Sound: playback and recording on DMA (os/drivers/pcm.c), the codec and    *)
(* its users (os/drivers/audio.c), and the player and recorder of the ui     *)
(* thread on a ring buffer (os/apps/wavio.c).                                *)
(*                                                                         *)
(* Three actors: the ui thread, the DMA interrupt, and the END thread, which *)
(* follows the headset jack.  What runs with interrupts off or with the      *)
(* codec's mutex held is one step.  Samples are counted in units of half a   *)
(* plane; a plane is what one DMA block plays.                               *)
(***************************************************************************)
EXTENDS Integers

CONSTANTS
  FileSizes,  \* the files there are to play, in units
  RingSize,   \* RING_BYTES, in units
  Chunk,      \* what refill() reads and drain() writes at a time, in units
  MaxTaken,   \* bound: the units of a recording
  MaxMoves,   \* bound: times the plug goes in or out
  MaxOrders,  \* bound: what the user and the alarm ask for
  Spoils      \* bound: DMA errors

ASSUME SoundAssumption ==
  /\ FileSizes \subseteq Nat /\ RingSize \in Nat /\ Chunk \in 1 .. RingSize
  /\ {MaxTaken, MaxMoves, MaxOrders, Spoils} \subseteq Nat

VARIABLES
  ui,      \* the ui thread: where it is, and what it does after wav_stop()
  wav,     \* playing, recording, tone, file_eof, data_bytes and total_bytes
  ring,    \* head and tail
  play,    \* running, completed, eof, draining; the units in the plane
  rec,     \* rec_running, and the source asked for
  dma,     \* each channel: off, busy, done or failed
  vbc,     \* the bits of VBC_CTRL that are set
  line,    \* the DMA interrupt's line is enabled
  codec,   \* initialized, recording_on, fm_routed, hs_powered, the route's source;
           \* `cut': the END thread has closed it between the halves of audio_play()
  bias,    \* bias_users
  jack,    \* the plug: in or not; hs_state; the END thread in hs_power(false)
  heard,   \* the units of the file each channel has played
  spoilt,  \* a DMA error has ended a recording since the last clean stop
  orders   \* what is left to ask for

pcmvars   == <<play, rec, dma, vbc, line>>
soundvars == <<ui, wav, ring, pcmvars, codec, bias, jack, heard, spoilt, orders>>

Stereo == {"left", "right"}

At(place)        == ui.at = place
Go(place)        == ui' = [ui EXCEPT !.at = place]
Used             == ring.head - ring.tail
Least(a, b)      == IF a < b THEN a ELSE b
-----------------------------------------------------------------------------
(* The PCM driver *)

\* irq_update()
IrqUpdate(p, r) == line' = (p \/ r)

\* What rec_hw_stop() leaves of VBC_CTRL: the enable bit is shared.
RecBits == IF play.running THEN vbc \ {"rec"} ELSE vbc \ {"rec", "on"}

play_hw_stop ==
  /\ vbc' = vbc \ (IF rec.running THEN {"play"} ELSE {"play", "on"})
  /\ dma' = [ch \in DOMAIN dma |-> IF ch \in Stereo THEN "off" ELSE dma[ch]]
  /\ play' = [play EXCEPT !.running = FALSE, !.completed = {}]
  /\ IrqUpdate(FALSE, rec.running)

rec_hw_stop ==
  /\ rec' = [rec EXCEPT !.running = FALSE]
  /\ dma' = [dma EXCEPT !["rec"] = "off"]
  /\ vbc' = RecBits
  /\ IrqUpdate(play.running, FALSE)

\* Mutant: fill() gives silence at the end of the file, too.
FillNeverEnds(eof) == [units |-> IF wav.tone \/ eof THEN 0 ELSE Least(Used, 2), eof |-> FALSE]

\* fill_plane() on fill(): the units of the file that fit, then silence while
\* more of it is to come, and the end after it.
Fill(eof) ==
  IF wav.tone \/ eof THEN [units |-> 0, eof |-> eof]
  ELSE [units |-> Least(Used, 2), eof |-> Used < 2 /\ wav.eof]

\* fill_plane() and arm_stereo(); draining once a plane holds no more of the file.
ArmStereo(p) ==
  LET f == Fill(p.eof) IN
  /\ play' = [running |-> TRUE, completed |-> {}, eof |-> f.eof, units |-> f.units,
              draining |-> p.running /\ f.eof /\ f.units = 0]
  /\ ring' = [ring EXCEPT !.tail = @ + f.units]
  /\ dma' = [ch \in DOMAIN dma |-> IF ch \in Stereo THEN "busy" ELSE dma[ch]]

\* Mutant: one channel is enough.
EitherDone(completed) == completed # {}

BothDone(completed) == completed = Stereo

\* dma_isr() without rec_irq(): the channels that have ended are acknowledged.
PlayIsr ==
  LET ended     == {ch \in Stereo : dma[ch] \in {"done", "failed"}}
      completed == play.completed \cup {ch \in Stereo : dma[ch] = "done"}
      error     == \E ch \in Stereo : dma[ch] = "failed"
      acked     == [ch \in DOMAIN dma |-> IF ch \in ended THEN "off" ELSE dma[ch]]
  IN /\ ended # {}
     /\ \/ /\ ~error /\ ~BothDone(completed)
           /\ play' = [play EXCEPT !.completed = completed] /\ dma' = acked
           /\ UNCHANGED <<ring, vbc, line>>
        \/ (error \/ (BothDone(completed) /\ play.draining)) /\ play_hw_stop /\ UNCHANGED ring
        \/ ~error /\ BothDone(completed) /\ ~play.draining /\ ArmStereo(play) /\ UNCHANGED <<vbc, line>>
     /\ UNCHANGED <<rec, spoilt>>

\* rec_irq(): the other bank is armed, then sink() takes this one, or drops it
\* when the ring is full.
RecIsr ==
  \/ /\ dma["rec"] = "failed" /\ rec_hw_stop /\ spoilt' = TRUE
     /\ UNCHANGED <<play, ring>>
  \/ /\ dma["rec"] = "done"
     /\ dma' = [dma EXCEPT !["rec"] = "busy"]
     /\ ring' = IF RingSize - Used < 1 THEN ring ELSE [ring EXCEPT !.head = @ + 1]
     /\ UNCHANGED <<play, rec, vbc, line, spoilt>>

Isr ==
  /\ line /\ (PlayIsr \/ RecIsr)
  /\ UNCHANGED <<ui, wav, codec, bias, jack, heard, orders>>

\* A block ends.  Without the codec's clocks nothing asks for samples.
BlockEnds(ch) ==
  /\ dma[ch] = "busy" /\ codec.on /\ "on" \in vbc
  /\ (IF ch = "rec" THEN "rec" ELSE "play") \in vbc
  /\ ch = "rec" => ring.head < MaxTaken
  /\ dma' = [dma EXCEPT ![ch] = "done"]
  /\ heard' = IF ch \in Stereo THEN [heard EXCEPT ![ch] = @ + play.units] ELSE heard
  /\ UNCHANGED <<ui, wav, ring, play, rec, vbc, line, codec, bias, jack, spoilt, orders>>

BlockFails(ch) ==
  /\ dma[ch] = "busy" /\ orders.spoils > 0
  /\ dma' = [dma EXCEPT ![ch] = "failed"]
  /\ orders' = [orders EXCEPT !.spoils = @ - 1]
  /\ UNCHANGED <<ui, wav, ring, play, rec, vbc, line, codec, bias, jack, heard, spoilt>>
-----------------------------------------------------------------------------
(* The codec *)

Nobody(c) == ~c.fm /\ ~c.rec /\ ~c.hs /\ ~play.running /\ ~rec.running

\* codec_init() clears the bits of VBC_CTRL when it powers the codec up.
PowerOn(c) ==
  /\ codec' = [c EXCEPT !.on = TRUE, !.cut = @ /\ play.running]
  /\ vbc' = IF codec.on THEN vbc ELSE {}

\* audio_power(false), for the users that are left
PowerOff(c) ==
  IF codec.on /\ Nobody(c)
  THEN /\ codec' = [c EXCEPT !.on = FALSE, !.cut = At("start")]
       /\ bias' = {} /\ vbc' = vbc \ {"play", "on"}
  ELSE /\ codec' = c /\ UNCHANGED <<bias, vbc>>

\* Mutant: the microphone's supply goes with the recording.
BiasAfterAll == {}

BiasAfter == bias \ {"rec"}

\* audio_record_route_off()
RouteOff ==
  /\ codec' = [codec EXCEPT !.rec = FALSE]
  /\ bias' = IF codec.rec /\ codec.source = "mic" THEN BiasAfter ELSE bias
-----------------------------------------------------------------------------
(* The END thread: audio_headset_tick() *)

Headset(hs) == jack' = [jack EXCEPT !.state = hs]

\* hs_power(true) and the bias, once the plug has settled
HsPower ==
  /\ jack.in /\ jack.state = "settle" /\ ~jack.letting
  /\ Headset("bias") /\ PowerOn([codec EXCEPT !.hs = TRUE])
  /\ bias' = bias \cup {"hook"}
  /\ UNCHANGED <<ui, wav, ring, play, rec, dma, line, heard, spoilt, orders>>

\* The line reads like a microphone's, and the buttons are enabled.
HsReady ==
  /\ jack.in /\ jack.state = "bias"
  /\ Headset("buttons")
  /\ UNCHANGED <<ui, wav, ring, pcmvars, codec, bias, heard, spoilt, orders>>

\* The plug has no microphone, or is out: the bias goes, and hs_powered with it.
HsLetsGo ==
  /\ ~jack.letting
  /\ \/ jack.in /\ jack.state = "bias" /\ jack' = [jack EXCEPT !.state = "plain", !.letting = codec.hs]
     \/ ~jack.in /\ jack.state # "out" /\ jack' = [jack EXCEPT !.state = "out", !.letting = codec.hs]
  /\ bias' = bias \ {"hook"}
  /\ codec' = [codec EXCEPT !.hs = FALSE]
  /\ UNCHANGED <<ui, wav, ring, pcmvars, heard, spoilt, orders>>

\* The rest of hs_power(false): audio_power(false), whatever the ui thread is doing.
HsPowerOff ==
  /\ jack.letting
  /\ jack' = [jack EXCEPT !.letting = FALSE]
  /\ PowerOff(codec)
  /\ UNCHANGED <<ui, wav, ring, play, rec, dma, line, heard, spoilt, orders>>

Plug ==
  /\ jack.moves > 0
  /\ jack' = [jack EXCEPT !.in = ~@, !.moves = @ - 1]
  /\ UNCHANGED <<ui, wav, ring, pcmvars, codec, bias, heard, spoilt, orders>>

HsSees ==
  /\ jack.in /\ jack.state = "out" /\ ~jack.letting /\ Headset("settle")
  /\ UNCHANGED <<ui, wav, ring, pcmvars, codec, bias, heard, spoilt, orders>>

EndThread == HsSees \/ HsPower \/ HsReady \/ HsLetsGo \/ HsPowerOff
-----------------------------------------------------------------------------
(* The ui thread: wav_stop() *)

Quiet == UNCHANGED <<jack, heard, orders>>

\* An order: each begins with wav_stop().  Only the alarm sounds over the radio.
Ask(then) ==
  /\ At("idle") /\ orders.left > 0
  /\ then \in {"play", "mic", "fm_on"} => ~codec.fm
  /\ then \in {"fm", "fm_off"} => codec.fm
  /\ then = "fm_on" => ~wav.playing /\ ~wav.recording
  /\ ui' = [at |-> "stop", then |-> then]
  /\ orders' = [orders EXCEPT !.left = @ - 1]
  /\ UNCHANGED <<wav, ring, pcmvars, codec, bias, jack, heard, spoilt>>

\* audio_play_stop(), and playing = false
StopPlaying ==
  /\ At("stop")
  /\ Go(IF wav.recording THEN "stop_rec" ELSE "close")
  /\ IF play.running THEN play_hw_stop ELSE UNCHANGED <<play, dma, vbc, line>>
  /\ wav' = [wav EXCEPT !.playing = FALSE]
  /\ codec' = [codec EXCEPT !.cut = FALSE]
  /\ UNCHANGED <<ring, rec, bias, spoilt>> /\ Quiet

\* audio_record_stop(): only a recording that still runs leaves the route.
StopRecording ==
  /\ At("stop_rec")
  /\ IF rec.running THEN rec_hw_stop /\ Go("route_off") /\ UNCHANGED wav
     ELSE /\ UNCHANGED <<rec, dma, vbc, line>> /\ Go("drain")
          /\ wav' = [wav EXCEPT !.recording = FALSE]
  /\ UNCHANGED <<ring, play, codec, bias, spoilt>> /\ Quiet

LeaveRoute ==
  /\ At("route_off") /\ Go("drain")
  /\ RouteOff /\ spoilt' = FALSE
  /\ wav' = [wav EXCEPT !.recording = FALSE]
  /\ UNCHANGED <<ring, pcmvars>> /\ Quiet

\* What drain() waits for: a whole block while recording, else anything.
Due == Used >= IF wav.recording THEN Chunk ELSE 1

DrainEnds == Go(IF wav.recording THEN "pumped" ELSE "header")

\* A turn of drain(): the block leaves the ring, then it is written; a failure
\* ends the loop, and the block is lost.
Drain ==
  /\ At("drain")
  /\ \/ /\ Due
        /\ LET n == Least(Used, Chunk) IN
           /\ ring' = [ring EXCEPT !.tail = @ + n]
           /\ \/ wav' = [wav EXCEPT !.total = @ + n] /\ UNCHANGED ui
              \/ wav' = [wav EXCEPT !.failed = TRUE] /\ DrainEnds
     \/ ~Due /\ DrainEnds /\ UNCHANGED <<wav, ring>>
  /\ UNCHANGED <<pcmvars, codec, bias, spoilt>> /\ Quiet

\* The rest of wav_stop(), with audio_power(false) unless the radio plays.
Close ==
  /\ ui.at \in {"close", "header"} /\ Go("stopped")
  /\ wav' = [wav EXCEPT !.tone = FALSE]
  /\ ring' = [head |-> 0, tail |-> 0]
  /\ IF codec.fm THEN UNCHANGED <<codec, bias, vbc>> ELSE PowerOff(codec)
  /\ UNCHANGED <<play, rec, dma, line, spoilt>> /\ Quiet
-----------------------------------------------------------------------------
(* The ui thread: what follows wav_stop(), and wav_pump() *)

After(then) == At("stopped") /\ ui.then = then

OpenFile(size) ==
  /\ After("play") /\ Go("refill")
  /\ wav' = [wav EXCEPT !.eof = FALSE, !.left = size]
  /\ UNCHANGED <<ring, pcmvars, codec, bias, spoilt>> /\ Quiet

\* A turn of refill(); a read error is the end of the file.
Refill ==
  /\ At("refill")
  /\ LET n    == Least(wav.left, Chunk)
         room == ~wav.eof /\ RingSize - Used >= Chunk
     IN \/ /\ room /\ n > 0 /\ UNCHANGED ui
           /\ wav' = [wav EXCEPT !.left = @ - n] /\ ring' = [ring EXCEPT !.head = @ + n]
        \/ room /\ wav' = [wav EXCEPT !.eof = TRUE] /\ UNCHANGED <<ui, ring>>
        \/ ~room /\ Go(IF ui.then = "play" THEN "power" ELSE "pumped") /\ UNCHANGED <<wav, ring>>
  /\ UNCHANGED <<pcmvars, codec, bias, spoilt>> /\ Quiet

Tone ==
  /\ After("tone") /\ Go("power")
  /\ wav' = [wav EXCEPT !.tone = TRUE]
  /\ UNCHANGED <<ring, pcmvars, codec, bias, spoilt>> /\ Quiet

NewRecording ==
  /\ (After("mic") \/ After("fm")) /\ Go("power")
  /\ wav' = [wav EXCEPT !.total = 0, !.failed = FALSE]
  /\ UNCHANGED <<ring, pcmvars, codec, bias, spoilt>> /\ Quiet

\* audio_power(true) in audio_play() and audio_record()
Power ==
  /\ At("power") /\ Go(IF ui.then \in {"mic", "fm"} THEN "route" ELSE "start")
  /\ PowerOn(codec)
  /\ UNCHANGED <<wav, ring, play, rec, dma, line, bias, spoilt>> /\ Quiet

\* audio_record_route()
Route ==
  /\ At("route") /\ Go("start_rec")
  /\ IF codec.rec THEN UNCHANGED <<codec, bias, vbc>>
     ELSE /\ PowerOn([codec EXCEPT !.rec = TRUE, !.source = ui.then])
          /\ bias' = IF ui.then = "mic" THEN bias \cup {"rec"} ELSE bias
  /\ UNCHANGED <<wav, ring, play, rec, dma, line, spoilt>> /\ Quiet

Idle == ui' = [at |-> "idle", then |-> "idle"]

\* The part of audio_play() with interrupts off, and playing = true
StartPlaying ==
  /\ At("start") /\ Idle
  /\ ArmStereo([running |-> FALSE, eof |-> FALSE])
  /\ vbc' = vbc \cup {"on", "play"}
  /\ IrqUpdate(TRUE, rec.running)
  /\ wav' = [wav EXCEPT !.playing = TRUE]
  /\ heard' = [ch \in Stereo |-> 0]
  /\ UNCHANGED <<rec, codec, bias, jack, spoilt, orders>>

\* The part of audio_record() with interrupts off, and recording = true
StartRecording ==
  /\ At("start_rec") /\ Idle
  /\ rec' = [running |-> TRUE, source |-> ui.then]
  /\ dma' = [dma EXCEPT !["rec"] = "busy"]
  /\ vbc' = vbc \cup {"on", "rec"}
  /\ IrqUpdate(play.running, TRUE)
  /\ wav' = [wav EXCEPT !.recording = TRUE]
  /\ UNCHANGED <<ring, play, codec, bias, spoilt>> /\ Quiet

\* audio_fm_route(true) in fm_on()
FmOn ==
  /\ After("fm_on") /\ Idle
  /\ PowerOn([codec EXCEPT !.fm = TRUE])
  /\ UNCHANGED <<wav, ring, play, rec, dma, line, bias, spoilt>> /\ Quiet

\* audio_fm_route(false) and audio_power(false) in fm_off()
FmOff ==
  /\ After("fm_off") /\ Idle
  /\ PowerOff([codec EXCEPT !.fm = FALSE])
  /\ UNCHANGED <<wav, ring, play, rec, dma, line, spoilt>> /\ Quiet

Rest ==
  /\ After("idle") /\ Idle
  /\ UNCHANGED <<wav, ring, pcmvars, codec, bias, spoilt>> /\ Quiet

\* wav_pump(), in the screen's tick
Pump ==
  /\ At("idle") /\ (wav.playing \/ wav.recording)
  /\ Go(IF wav.playing /\ ~wav.tone THEN "refill" ELSE IF wav.recording THEN "drain" ELSE "pumped")
  /\ UNCHANGED <<wav, ring, pcmvars, codec, bias, spoilt>> /\ Quiet

\* Played to the end.
Pumped ==
  /\ At("pumped") /\ Go(IF wav.playing /\ ~play.running THEN "stop" ELSE "idle")
  /\ UNCHANGED <<wav, ring, pcmvars, codec, bias, spoilt>> /\ Quiet

Ui ==
  \/ StopPlaying \/ StopRecording \/ LeaveRoute \/ Drain \/ Close
  \/ (\E size \in FileSizes : OpenFile(size)) \/ Refill \/ Tone \/ NewRecording
  \/ Power \/ Route \/ StartPlaying \/ StartRecording \/ FmOn \/ FmOff \/ Rest
  \/ Pump \/ Pumped
-----------------------------------------------------------------------------
SoundInit ==
  /\ ui = [at |-> "idle", then |-> "idle"]
  /\ wav = [playing |-> FALSE, recording |-> FALSE, tone |-> FALSE, eof |-> FALSE,
            left |-> 0, total |-> 0, failed |-> FALSE]
  /\ ring = [head |-> 0, tail |-> 0]
  /\ play = [running |-> FALSE, completed |-> {}, eof |-> FALSE, draining |-> FALSE, units |-> 0]
  /\ rec = [running |-> FALSE, source |-> "mic"]
  /\ dma = [ch \in Stereo \cup {"rec"} |-> "off"]
  /\ vbc = {} /\ line = FALSE
  /\ codec = [on |-> FALSE, rec |-> FALSE, fm |-> FALSE, hs |-> FALSE, source |-> "mic",
             cut |-> FALSE]
  /\ bias = {}
  /\ jack = [in |-> FALSE, moves |-> MaxMoves, state |-> "out", letting |-> FALSE]
  /\ heard = [ch \in Stereo |-> 0]
  /\ spoilt = FALSE
  /\ orders = [left |-> MaxOrders, spoils |-> Spoils]

DmaBlocks == \E ch \in Stereo \cup {"rec"} : BlockEnds(ch)

SoundNext ==
  \/ Ui \/ EndThread \/ Isr \/ Plug \/ DmaBlocks
  \/ \E then \in {"idle", "play", "tone", "mic", "fm", "fm_on", "fm_off"} : Ask(then)
  \/ \E ch \in Stereo \cup {"rec"} : BlockFails(ch)

SoundSpec == SoundInit /\ [][SoundNext]_soundvars
-----------------------------------------------------------------------------
\* Whatever uses the codec finds it powered, and when nothing does any more it is
\* off (unless a recording was ended by a DMA error, which leaves recording_on);
\* the microphone has its supply while the headset's buttons or a recording rely on
\* it; the enable bit and the interrupt's line follow the streams.  One playback is
\* excepted: one that begins after the END thread has closed the codec between
\* audio_play()'s power-up and its start (`cut'), of which PoweredWhileUsed speaks.
CodecFollows ==
  /\ (play.running /\ ~codec.cut) \/ rec.running \/ codec.fm \/ codec.hs => codec.on
  /\ At("idle") /\ ~wav.playing /\ ~wav.recording /\ ~codec.fm /\ ~codec.hs
       /\ ~jack.letting /\ ~spoilt => ~codec.on
  /\ jack.state = "buttons" => "hook" \in bias
  /\ rec.running /\ ~spoilt /\ rec.source = "mic" => "rec" \in bias
  /\ ~codec.cut => ("on" \in vbc) = (play.running \/ rec.running)
  /\ line = (play.running \/ rec.running)

\* The codec is "off only when nothing uses it" (os/audio.h:19).  The END thread breaks
\* this: pcm_busy() is false until audio_play() has started its stream, so a headset
\* that is unplugged in the middle of it takes the codec away.
PoweredWhileUsed == play.running \/ rec.running \/ codec.fm \/ codec.hs => codec.on

\* A file that ends by itself has been played whole, on both channels; and when a
\* recording's header is written the file holds all that was taken, unless a write
\* failed.
PlayedWhole ==
  [][/\ At("header") /\ ~wav.failed => wav.total = ring.head
     /\ Isr /\ play.running /\ play.draining /\ ~play'.running /\ ~(\E ch \in Stereo : dma[ch] = "failed")
        => \A ch \in Stereo : heard[ch] = ring.head]_soundvars

\* A file does not play for ever, unless its codec was closed as it began (`cut'):
\* then nothing asks for samples, and it stands still until the next stop.
FileEnds == []<>(codec.cut \/ ~(wav.playing /\ ~wav.tone))
=============================================================================
