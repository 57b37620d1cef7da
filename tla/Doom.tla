-------------------------------- MODULE Doom --------------------------------
(***************************************************************************)
(* examples/doom.rs: doomgeneric's hooks on the kit.  Each tick of the     *)
(* game asks for key events until there are none, which samples the stick  *)
(* and the buttons once, and then draws its frame in bands of rows, scaled *)
(* up to the panel.  Both sit on drivers that may be slow, busy or silent. *)
(*                                                                         *)
(* The state is one record: where the program is, its statics, the frame   *)
(* of the game, the rows of the panel it has drawn so far, and the         *)
(* converter.                                                              *)
(***************************************************************************)
EXTENDS Integers, Sequences

CONSTANTS DoomH,      (* rows of the game's frame                           *)
          PanelH,     (* rows of the panel                                  *)
          Band,       (* rows per blit                                      *)
          Level,      (* where the stick is, as the deadzone tells it       *)
          PollLimit,  (* ADC_POLL_LIMIT                                     *)
          ReadyBudget (* READY_BUDGET_MS over READY_POLL_MS                 *)

DoomAssumption ==
    /\ {DoomH, PanelH, Band} \subseteq Nat \ {0}
    /\ Level \subseteq {"low", "mid", "high"}
    /\ {PollLimit, ReadyBudget} \subseteq Nat

VARIABLE app

Axis == <<1, 0>>                        (* AXIS_MOVE, AXIS_TURN             *)
None == [channel |-> -1, level |-> "mid"]

(* The six keys in the order DG_GetKey reports them.                       *)
Keys == <<"up", "down", "left", "right", "fire", "use">>

(* XMAP and YMAP: the source row of an output row.                         *)
ymap == [y \in 0..PanelH - 1 |-> (y * DoomH) \div PanelH]

Blank == [y \in 0..PanelH - 1 |-> << >>]

Init ==
    app = [at |-> "ready", waited |-> 0, want |-> {}, told |-> {}, in_burst |-> FALSE,
           axis |-> 1, polls |-> 0, sample |-> None, listening |-> FALSE, queued |-> None,
           converting |-> -1, left |-> FALSE, misread |-> FALSE,
           frame |-> 0, y |-> 0, line |-> << >>, drawn |-> Blank]

At(l) == app.at = l
Set(f) == app' = [x \in DOMAIN app |-> IF x \in DOMAIN f THEN f[x] ELSE app[x]]

(* The fields of f, and those of g that f does not name.                   *)
With(f, g) == [x \in DOMAIN f \cup DOMAIN g |-> IF x \in DOMAIN f THEN f[x] ELSE g[x]]

-----------------------------------------------------------------------------
(* wait_ready: the panel refuses everything until its init sequence ends,  *)
(* and the program gives up beyond the budget.                             *)
WaitReady ==
    /\ At("ready")
    /\ \/ Set([at |-> "tick"])
       \/ app.waited > ReadyBudget /\ Set([at |-> "returned"])
       \/ app.waited <= ReadyBudget /\ Set([waited |-> app.waited + 1])

-----------------------------------------------------------------------------
(* DG_GetKey: the inputs are sampled on the first call of a burst; each    *)
(* call tells the game one key that changed, and the last that none did.   *)
GetKey ==
    /\ At("tick") /\ ~app.in_burst
    /\ Set([at |-> "subscribe", axis |-> 1, want |-> {}])

Changed == {i \in 1..6 : (Keys[i] \in app.want) # (Keys[i] \in app.told)}

TellKey ==
    /\ At("tick") /\ app.in_burst /\ Changed # {}
    /\ LET k == Keys[CHOOSE i \in Changed : \A j \in Changed : i <= j]
       IN  Set([told |-> IF k \in app.want THEN app.told \cup {k} ELSE app.told \ {k}])

EndBurst ==
    /\ At("tick") /\ app.in_burst /\ Changed = {}
    /\ Set([in_burst |-> FALSE, want |-> {}, at |-> "draw"])

-----------------------------------------------------------------------------
(* read_axis_bounded: subscribe, command, poll a bounded number of times,  *)
(* and unsubscribe whatever happened.                                      *)
Subscribe ==
    /\ At("subscribe")
    /\ Set([at |-> "command", listening |-> TRUE, sample |-> None, polls |-> 0])

Command ==
    /\ At("command")
    /\ IF app.converting = -1
       THEN \/ Set([at |-> "poll", converting |-> Axis[app.axis]])
            \/ Set([at |-> "end"])                (* refused                *)
       ELSE Set([at |-> "end"])                   (* Busy                   *)

(* Wrong on purpose: what Adc::read_single_sample_sync does.               *)
GivesUpNever == app.sample # None

GivesUp == app.sample # None \/ app.polls = PollLimit

Poll ==
    /\ At("poll")
    /\ IF GivesUp THEN Set([at |-> "end"])
       ELSE Set([polls |-> IF app.polls < PollLimit THEN app.polls + 1 ELSE PollLimit,
                 sample |-> IF app.queued # None THEN app.queued ELSE app.sample,
                 queued |-> None])

(* A sample moves the keys of its axis, an error leaves them released.     *)
Pressed(axis, level) ==
    CASE level = "high" -> IF axis = 1 THEN {"up"} ELSE {"right"}
      [] level = "low" -> IF axis = 1 THEN {"down"} ELSE {"left"}
      [] OTHER -> {}

(* Wrong on purpose: the scope ends without unsubscribing.                 *)
UnsubscribedNot == [listening |-> TRUE, queued |-> app.queued]

(* Unsubscribing drops a queued upcall.                                    *)
Unsubscribed == [listening |-> FALSE, queued |-> None]

EndRead ==
    /\ At("end")
    /\ Set(With(Unsubscribed,
           [sample |-> None,
            left |-> app.converting # -1,
            misread |-> /\ app.sample # None /\ app.sample.channel # Axis[app.axis]
                        /\ ~app.left,
            want |-> app.want \cup (IF app.sample = None THEN {}
                                    ELSE Pressed(Axis[app.axis], app.sample.level)),
            axis |-> 2,
            at |-> IF app.axis = 1 THEN "subscribe" ELSE "buttons"]))

(* read_button: an error reads as released.                                *)
ReadButtons ==
    /\ At("buttons")
    /\ \E down \in SUBSET {"fire", "use"} :
          Set([want |-> app.want \cup down, in_burst |-> TRUE, at |-> "tick"])

(* The converter answers whoever is subscribed by then.                    *)
Convert ==
    /\ app.converting # -1
    /\ \E level \in Level :
          Set([converting |-> -1,
               queued |-> IF app.listening
                          THEN [channel |-> app.converting, level |-> level] ELSE app.queued])

-----------------------------------------------------------------------------
(* The game has drawn another frame into its buffer.  DG_DrawFrame looks   *)
(* the palette up pixel by pixel and starts with the first band.           *)
DrawFrame ==
    /\ At("draw")
    /\ Set([frame |-> 1 - app.frame, y |-> 0, at |-> "band"])

Rows == IF PanelH - app.y < Band THEN PanelH - app.y ELSE Band
Pixels(src) == <<src, app.frame>>

(* Wrong on purpose: the line built last is not forgotten with the band.   *)
BuiltKept(r) ==
    IF r > 0 THEN ymap[app.y + r - 1] ELSE IF app.line = << >> THEN -1 ELSE app.line[1]

(* The source row that LINE holds before row r of the band: none, for the  *)
(* first.                                                                  *)
Built(r) == IF r > 0 THEN ymap[app.y + r - 1] ELSE -1

(* The lines of a band: each is built when its source row is not the one   *)
(* built last, and copied to the stage.                                    *)
Lines[r \in 0..Rows - 1] ==
    IF ymap[app.y + r] # Built(r) THEN Pixels(ymap[app.y + r])
    ELSE IF r = 0 THEN app.line ELSE Lines[r - 1]

(* One band, then set_write_frame and write, either of which may be        *)
(* refused and end the frame.                                              *)
DrawBand ==
    /\ At("band") /\ app.y < PanelH
    /\ \/ Set([line |-> Lines[Rows - 1], y |-> app.y + Rows,
               drawn |-> [y \in 0..PanelH - 1 |->
                             IF y \in app.y..app.y + Rows - 1 THEN Lines[y - app.y]
                             ELSE app.drawn[y]]])
       \/ Set([line |-> Lines[Rows - 1], at |-> "tick", y |-> 0, drawn |-> Blank])

EndFrame ==
    /\ At("band") /\ app.y >= PanelH
    /\ Set([at |-> "tick", y |-> 0, drawn |-> Blank])

Program == WaitReady \/ GetKey \/ TellKey \/ EndBurst \/ Subscribe \/ Command \/ Poll
           \/ EndRead \/ ReadButtons \/ DrawFrame \/ DrawBand \/ EndFrame
Next == Program \/ Convert

Fairness == WF_app(Program)
Spec == Init /\ [][Next]_app /\ Fairness

-----------------------------------------------------------------------------
(* A frame drawn to its end covers the panel: every row shows its source   *)
(* row of this frame, whatever an earlier one left half drawn and in the   *)
(* line buffer (doom.rs:657).                                              *)
FrameIsWhole ==
    At("band") /\ app.y >= PanelH =>
        \A y \in 0..PanelH - 1 : app.drawn[y] = Pixels(ymap[y])

(* A sample is taken for the axis it was asked of, unless the read before  *)
(* ended with a conversion still going on (doom.rs:484).  That one's answer *)
(* may find the listener of this read, of the other axis, registered, and  *)
(* then this read leaves its own conversion going on in turn.              *)
MisreadOnlyAfterLeaving == ~app.misread

(* "A frame loop must not contain a wait that cannot end" (doom.rs:480):   *)
(* the game draws again and again, though the converter never answers.     *)
Draws == At("draw") \/ At("returned")
GameGoesOn == []<>Draws
=============================================================================
