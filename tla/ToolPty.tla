-------------------------------- MODULE ToolPty --------------------------------
(***************************************************************************)
(* tool_pty_run of src/tools/tool_pty.c: one external tool in a            *)
(* pseudo-terminal.  The program takes the terminal, forks the tool and    *)
(* then serves both sides in a loop of poll, read and waitpid: what comes  *)
(* out of the PTY goes to an artifact file, byte for byte, and through     *)
(* tool_pty_stream_byte to the page.  Around it act the tool (it writes,   *)
(* closes its terminal, stops, leaves a background process behind, ends)   *)
(* and the operating system (calls fail, poll is interrupted).             *)
(*                                                                         *)
(* A tool that has closed its terminal does not open it again, and the     *)
(* operator types no more than the PTY takes, so that a write to the       *)
(* master does not block.                                                  *)
(***************************************************************************)
EXTENDS Integers, Sequences, SequencesExt

CONSTANTS
    Scripts,       \* what tools may write, each as a sequence of tokens
    Width,         \* KUI_MAX_SCROLL_COLS - 1
    PtyCapacity,   \* bytes the PTY holds
    ReadSize,      \* sizeof(output_buffer)
    IdleLimit,     \* silent polls after which the drain ends: 10
    Stamps,        \* what tool_pty_now_ns may say
    Directories,   \* the artifact names a directory may hold already
    Attempts,      \* TOOL_PTY_ARTIFACT_COLLISION_LIMIT
    MaxStops,      \* bound: how often the tool is stopped
    MaxKeys,       \* bound: keystrokes
    MaxFaults      \* bound: failing calls

\* A token is a byte, or an escape sequence; byte values are named for what they do.
TokenBytes(t) ==
    CASE t = "sgr"   -> <<"esc", "[", "0", "x">>
      [] t = "title" -> <<"esc", "]", "esc", "\\">>
      [] t = "bell"  -> <<"esc", "]", "bel">>
      [] OTHER       -> <<t>>
Tokens == {"x", "y", "cr", "nl", "sgr", "title", "bell"}

ASSUME ScriptsAssumption == Scripts \subseteq Seq(Tokens)
\* The first silent poll of the drain may have begun before the tool wrote its last and
\* ended: one is not enough.
ASSUME SizesAssumption ==
    /\ Width \in Nat \ {0} /\ PtyCapacity \in Nat \ {0} /\ ReadSize \in Nat \ {0}
    /\ IdleLimit \in Nat \ {0, 1} /\ Attempts \in Nat \ {0}
ASSUME DirectoriesAssumption == Directories \subseteq SUBSET (Stamps \X (0 .. Attempts - 1))
ASSUME BoundsAssumption == MaxStops \in Nat /\ MaxKeys \in Nat /\ MaxFaults \in Nat

VARIABLES
    pc,        \* where tool_pty_run is
    files,     \* the directory of the target: artifact name -> bytes
    file,      \* artifact_path
    intact,    \* artifact_write_valid
    fds,       \* artifact_fd and master_fd, while open
    tty,       \* isatty(STDIN_FILENO)
    terminal,  \* its mode
    winch,     \* whose SIGWINCH handler is installed
    busy,      \* processing and churning of the interface
    child,     \* the tool
    attached,  \* the tool has its terminal open
    holder,    \* a background process of the tool has it open
    script,    \* what the tool writes
    sent,      \* how much of it was written to the PTY
    got,       \* how much of that was read
    mark,      \* what had been sent when the tool ended
    stream,    \* TOOL_PTY_STREAM, and the lines it has committed
    ready,     \* what poll reported
    childDone, masterDone, waitValid, idle,
    refused,   \* a keystroke could not be written
    result,    \* what the last run returned
    before,    \* the directory when it was called
    stops, keys, faults

terminals == <<tty, terminal, winch, busy>>
tool      == <<child, attached, holder, sent, mark, stops>>
loop      == <<ready, childDone, masterDone, waitValid, idle, refused>>
reading   == <<files, intact, got, stream>>
vars == <<pc, file, fds, terminals, tool, script, loop, reading, result, before, keys,
          faults>>

NoFile == <<0, 0>>
EmptyStream == [line |-> << >>, overwrite |-> FALSE, escape |-> "none", page |-> << >>]
Output(s) == FlattenSeq([i \in DOMAIN s |-> TokenBytes(s[i])])

Init ==
    /\ pc = "idle" /\ file = NoFile /\ intact = TRUE /\ fds = {}
    /\ files \in {[f \in old |-> <<"old">>] : old \in Directories}
    /\ tty \in BOOLEAN /\ terminal = "cooked" /\ winch = "interface" /\ busy = {}
    /\ child = "none" /\ attached = FALSE /\ holder = FALSE
    /\ script \in Scripts /\ sent = 0 /\ got = 0 /\ mark = 0
    /\ stream = EmptyStream
    /\ ready = {} /\ childDone = FALSE /\ masterDone = FALSE /\ waitValid = TRUE
    /\ idle = 0 /\ refused = FALSE
    /\ result = "none" /\ before = files
    /\ stops = 0 /\ keys = 0 /\ faults = 0

Fault == faults < MaxFaults /\ faults' = faults + 1

-------------------------------------------------------------------------------
(* tool_pty_stream_byte: the page shows the output as lines.               *)

StreamCommit(s) ==
    [s EXCEPT !.line = << >>, !.overwrite = FALSE, !.page = Append(@, s.line)]

StreamPush(s, b) ==
    LET fresh == IF s.overwrite THEN [s EXCEPT !.line = << >>, !.overwrite = FALSE] ELSE s
        room  == IF Len(fresh.line) >= Width THEN StreamCommit(fresh) ELSE fresh
    IN  [room EXCEPT !.line = Append(@, b)]

\* Mutant: an operating system command ends at the first escape.
EscapeNext_EndsAtEsc(state, b) ==
    CASE state = "seen"    -> IF b = "[" THEN "csi" ELSE IF b = "]" THEN "osc" ELSE "none"
      [] state = "csi"     -> IF b \in {"x", "y", "[", "]", "\\"} THEN "none" ELSE "csi"
      [] state = "osc"     -> IF b \in {"bel", "esc"} THEN "none" ELSE "osc"
      [] OTHER             -> "none"

\* Where an escape sequence stands after one more byte; 0x40 to 0x7E end a CSI.
EscapeNext(state, b) ==
    CASE state = "seen"    -> IF b = "[" THEN "csi" ELSE IF b = "]" THEN "osc" ELSE "none"
      [] state = "csi"     -> IF b \in {"x", "y", "[", "]", "\\"} THEN "none" ELSE "csi"
      [] state = "osc"     -> IF b = "bel" THEN "none" ELSE IF b = "esc" THEN "osc_esc" ELSE "osc"
      [] state = "osc_esc" -> IF b = "\\" THEN "none" ELSE IF b = "esc" THEN "osc_esc" ELSE "osc"

\* One byte; backspace, which rubs out one byte of the line, is left out.
StreamByte(s, b) ==
    CASE s.escape # "none" -> [s EXCEPT !.escape = EscapeNext(@, b)]
      [] s.escape = "none" /\ b = "esc" -> [s EXCEPT !.escape = "seen"]
      [] s.escape = "none" /\ b = "cr"  -> [s EXCEPT !.overwrite = TRUE]
      [] s.escape = "none" /\ b = "nl"  ->
            IF s.overwrite /\ s.line = << >> THEN [s EXCEPT !.overwrite = FALSE]
            ELSE StreamCommit(s)
      [] s.escape = "none" /\ b = "bel" -> s
      [] OTHER -> StreamPush(s, b)

StreamBuffer(s, bytes) == FoldLeft(StreamByte, s, bytes)

-------------------------------------------------------------------------------
(* Setup.  Every failure takes back what was done before it.               *)

\* The names tool_pty_artifact_open finds free.
FreeNames(stamp) == {<<stamp, n>> : n \in 0 .. Attempts - 1} \ DOMAIN files

Without(f) == [g \in DOMAIN files \ {f} |-> files[g]]

\* The first free name is created; none free, or another error, and nothing was done.
OpenArtifact ==
    /\ pc = "idle" /\ result = "none"
    /\ UNCHANGED <<terminals, tool, script, loop, intact, got, stream, before, keys>>
    /\ \/ \E stamp \in Stamps :
            /\ FreeNames(stamp) # {}
            /\ LET f == CHOOSE g \in FreeNames(stamp) :
                            \A h \in FreeNames(stamp) : g[2] <= h[2]
               IN  /\ file' = f
                   /\ files' = [g \in DOMAIN files \cup {f} |->
                                   IF g = f THEN << >> ELSE files[g]]
            /\ fds' = {"artifact"} /\ pc' = "master" /\ UNCHANGED <<result, faults>>
       \/ /\ Fault \/ (UNCHANGED faults /\ \E stamp \in Stamps : FreeNames(stamp) = {})
          /\ result' = "ABNORMAL" /\ UNCHANGED <<pc, files, file, fds>>

\* The early returns: the artifact is closed and unlinked.
Abandon ==
    /\ pc' = "idle" /\ result' = "ABNORMAL" /\ fds' = {} /\ files' = Without(file)

OpenMaster ==
    /\ pc = "master"
    /\ UNCHANGED <<file, terminals, tool, script, loop, intact, got, stream, before, keys>>
    /\ \/ /\ fds' = fds \cup {"master"} /\ pc' = "raw"
          /\ UNCHANGED <<files, result, faults>>
       \/ Fault /\ Abandon

\* tool_pty_terminal_raw; without a terminal there is nothing to change.
TerminalRaw ==
    /\ pc = "raw"
    /\ UNCHANGED <<file, tty, winch, busy, tool, script, loop, intact, got, stream, before,
                   keys>>
    /\ \/ /\ terminal' = IF tty THEN "raw" ELSE terminal
          /\ pc' = "arm" /\ UNCHANGED <<files, fds, result, faults>>
       \/ tty /\ Fault /\ Abandon /\ UNCHANGED terminal

\* The resize handler, which may not be installed, and the state of the interface.
Arm ==
    /\ pc = "arm" /\ pc' = "fork" /\ busy' = {"processing", "churning"}
    /\ \/ winch' = "tool" /\ UNCHANGED faults
       \/ Fault /\ UNCHANGED winch
    /\ UNCHANGED <<file, fds, tty, terminal, tool, script, loop, reading, result, before,
                   keys>>

\* Mutant: the failed fork forgets the terminal.
Restore_Partly == winch' = "interface" /\ busy' = {} /\ UNCHANGED <<tty, terminal>>

\* The terminal, the signal and the interface are given back.
Restore ==
    /\ winch' = "interface" /\ busy' = {} /\ UNCHANGED tty
    /\ terminal' = IF tty THEN "cooked" ELSE terminal

Fork ==
    /\ pc = "fork"
    /\ UNCHANGED <<file, holder, sent, mark, stops, script, loop, intact, got, stream, before,
                   keys>>
    /\ \/ /\ child' = "running" /\ attached' = TRUE /\ pc' = "poll"
          /\ UNCHANGED <<files, fds, terminals, result, faults>>
       \/ Fault /\ Abandon /\ Restore /\ UNCHANGED <<child, attached>>

-------------------------------------------------------------------------------
(* The tool and its background process.  Both hold the slave side.         *)

SlaveOpen == attached \/ holder
PtyFill == sent - got
Started == pc \in {"poll", "serve", "wait"}

\* Everything but the tool.
Others == <<pc, file, fds, terminals, script, loop, reading, result, before, keys, faults>>

\* One byte more, from the tool or from what it left behind; the PTY blocks when full.
Writes ==
    /\ Started
    /\ (attached /\ child = "running") \/ holder
    /\ sent < Len(Output(script)) /\ PtyFill < PtyCapacity
    /\ sent' = sent + 1
    /\ UNCHANGED <<Others, child, attached, holder, mark, stops>>

ToolSpawns ==
    /\ Started /\ child = "running" /\ attached /\ ~holder /\ holder' = TRUE
    /\ UNCHANGED <<Others, child, attached, sent, mark, stops>>

ToolCloses ==
    /\ Started /\ child = "running" /\ attached /\ attached' = FALSE
    /\ UNCHANGED <<Others, child, holder, sent, mark, stops>>

ToolStops ==
    /\ Started /\ child = "running" /\ stops < MaxStops
    /\ child' = "stopped" /\ stops' = stops + 1
    /\ UNCHANGED <<Others, attached, holder, sent, mark>>

ToolEnds ==
    /\ Started /\ child = "running"
    /\ child' = "exited" /\ attached' = FALSE /\ mark' = sent
    /\ UNCHANGED <<Others, holder, sent, stops>>

HolderEnds ==
    /\ Started /\ holder /\ holder' = FALSE
    /\ UNCHANGED <<Others, child, attached, sent, mark, stops>>

-------------------------------------------------------------------------------
(* The loop.                                                               *)

Readable == PtyFill > 0 \/ ~SlaveOpen

\* A key is waiting; stdin is polled only while the tool is not reaped.
KeyTyped == tty /\ ~childDone /\ keys < MaxKeys

\* poll: what is ready, a timeout, an interruption, or an error, which hangs up the tool.
Poll ==
    /\ pc = "poll"
    /\ UNCHANGED <<file, fds, terminals, attached, holder, sent, script, childDone, masterDone,
                   idle, refused, reading, result, before, stops>>
    /\ \/ /\ \E key \in IF KeyTyped THEN BOOLEAN ELSE {FALSE} :
                LET now == {m \in {"master"} : Readable} \cup {k \in {"stdin"} : key}
                IN  /\ ready' = IF now = {} THEN {"timeout"} ELSE now
                    /\ keys' = IF key THEN keys + 1 ELSE keys
          /\ pc' = "serve" /\ UNCHANGED <<child, mark, waitValid, faults>>
       \/ /\ Fault /\ ready' = {} /\ pc' = "serve"
          /\ UNCHANGED <<child, mark, waitValid, keys>>
       \/ /\ Fault /\ ready' = {} /\ waitValid' = FALSE /\ pc' = "finish"
          /\ \/ UNCHANGED <<child, mark>>
             \/ ~childDone /\ child = "running" /\ child' = "exited" /\ mark' = sent
          /\ UNCHANGED keys

\* tool_pty_write_all on the artifact: all of it, or a part and never anything again.
Saved(bytes) ==
    \/ /\ intact /\ files' = [files EXCEPT ![file] = @ \o bytes]
       /\ UNCHANGED <<intact, faults>>
    \/ /\ intact /\ Fault /\ intact' = FALSE
       /\ \E n \in 0 .. Len(bytes) - 1 :
            files' = [files EXCEPT ![file] = @ \o SubSeq(bytes, 1, n)]
    \/ ~intact /\ UNCHANGED <<files, intact, faults>>

\* One read of the master: up to ReadSize bytes, to the artifact and to the page.
ReadMaster ==
    LET n == IF PtyFill < ReadSize THEN PtyFill ELSE ReadSize
        bytes == SubSeq(Output(script), got + 1, got + n)
    IN  /\ got' = got + n /\ Saved(bytes)
        /\ stream' = StreamBuffer(stream, bytes)

\* What poll reported is served: the key is written to the master, which fails only when
\* nobody has the slave open, then the master is read; its end is EIO or no bytes.
Serve ==
    /\ pc = "serve" /\ pc' = "wait"
    /\ \E refuses \in IF "stdin" \in ready /\ ~SlaveOpen THEN BOOLEAN ELSE {FALSE} :
         LET end == "master" \in ready /\ PtyFill = 0
         IN  /\ refused' = (refused \/ refuses)
             /\ masterDone' = (masterDone \/ refuses \/ end)
    /\ IF "master" \in ready /\ PtyFill > 0 THEN ReadMaster
       ELSE UNCHANGED <<reading, faults>>
    /\ UNCHANGED <<file, fds, terminals, tool, script, ready, childDone, waitValid, idle,
                   result, before, keys>>

\* Mutant: the drain ends with the tool.
Drain_None(done) ==
    /\ masterDone' = (masterDone \/ done) /\ UNCHANGED idle

\* Mutant: the drain ends only when nobody holds the PTY.
Drain_Unlimited(done) ==
    IF ~done \/ masterDone THEN UNCHANGED <<masterDone, idle>>
    ELSE idle' = 0 /\ UNCHANGED masterDone

\* After the tool was reaped the rest is drained, until the PTY was silent for IdleLimit
\* polls in a row.
Drain(done) ==
    IF ~done \/ masterDone THEN UNCHANGED <<masterDone, idle>>
    ELSE /\ idle' = IF ready = {"timeout"} THEN idle + 1 ELSE 0
         /\ masterDone' = (idle' >= IdleLimit)

\* The end of one turn: waitpid, the drain, and the condition of the loop.
Turn(done) ==
    /\ childDone' = done /\ Drain(done)
    /\ pc' = IF done /\ masterDone' THEN "finish" ELSE "poll"

\* waitpid with WNOHANG and WUNTRACED: nothing, a stopped tool, which is continued, the
\* end of the tool, or an error.
Wait ==
    /\ pc = "wait"
    /\ ready' = {}
    /\ UNCHANGED <<file, fds, terminals, attached, holder, sent, mark, stops, script, refused,
                   reading, result, before, keys>>
    /\ \/ /\ childDone \/ child = "running"
          /\ Turn(childDone) /\ UNCHANGED <<child, waitValid, faults>>
       \/ /\ ~childDone /\ child = "stopped"
          /\ child' = "running" /\ Turn(FALSE) /\ UNCHANGED <<waitValid, faults>>
       \/ /\ ~childDone /\ child = "exited"
          /\ child' = "reaped" /\ Turn(TRUE) /\ UNCHANGED <<waitValid, faults>>
       \/ /\ ~childDone /\ Fault /\ waitValid' = FALSE
          /\ Turn(TRUE) /\ UNCHANGED child

\* After the loop: a tool that was hung up is killed and waited for, the partial line is
\* committed, everything is given back, and the artifact is flushed and closed.
Finish ==
    /\ pc = "finish" /\ pc' = "idle"
    /\ child' = IF childDone THEN child ELSE "reaped"
    /\ attached' = FALSE /\ holder' = FALSE
    /\ stream' = IF stream.line # << >> THEN StreamCommit(stream) ELSE stream
    /\ Restore /\ fds' = {}
    /\ \/ UNCHANGED <<intact, faults>>
       \/ Fault /\ intact' = FALSE
    /\ result' = IF waitValid THEN "NORMAL" ELSE "ABNORMAL"
    /\ UNCHANGED <<file, files, sent, mark, stops, script, loop, got, before, keys>>

Program ==
    \/ OpenMaster \/ TerminalRaw \/ Arm \/ Fork \/ Poll \/ Serve \/ Wait \/ Finish

Done == pc = "idle" /\ result # "none" /\ UNCHANGED vars

Next ==
    \/ OpenArtifact \/ Program
    \/ Writes \/ ToolSpawns \/ ToolCloses \/ ToolStops \/ ToolEnds \/ HolderEnds
    \/ Done

\* The program runs on, and the tool ends some time; a process it left in the background
\* need not.
Spec ==
    Init /\ [][Next]_vars /\ WF_vars(Program) /\ WF_vars(ToolEnds)

-------------------------------------------------------------------------------
(* What a run of a tool promises.                                          *)

TypeOK ==
    /\ pc \in {"idle", "master", "raw", "arm", "fork", "poll", "serve", "wait", "finish"}
    /\ file \in (Stamps \X (0 .. Attempts - 1)) \cup {NoFile}
    /\ fds \subseteq {"artifact", "master"} /\ busy \subseteq {"processing", "churning"}
    /\ terminal \in {"cooked", "raw"} /\ winch \in {"interface", "tool"}
    /\ child \in {"none", "running", "stopped", "exited", "reaped"}
    /\ 0 <= got /\ got <= sent /\ sent <= Len(Output(script)) /\ PtyFill <= PtyCapacity
    /\ mark <= sent /\ idle \in 0 .. IdleLimit
    /\ result \in {"none", "NORMAL", "ABNORMAL"}

\* "The raw PTY artifact is always captured at full rate": the artifact is what the tool
\* wrote, from the first byte and without a gap, and once the run has returned NORMAL and
\* gave no warning it lacks nothing the tool wrote before it ended, even when the tool
\* ended with its output still in the PTY or a background process kept the PTY open.  The
\* exception is a keystroke refused by the master, which ends the reading.
OutputIsComplete ==
    /\ file # NoFile /\ file \in DOMAIN files =>
         /\ IsPrefix(files[file], SubSeq(Output(script), 1, got))
         /\ intact => Len(files[file]) = got
    /\ result = "NORMAL" /\ ~refused => got >= mark

\* Whatever failed and wherever the run stopped: the terminal, the signal handler and the
\* interface are as before, no descriptor is left open, no child is left behind unless it
\* could not be collected, and there is one artifact more exactly when the tool was started;
\* even when the clock stands still or is set back, no artifact of an earlier run was
\* overwritten, appended to or unlinked.
EverythingIsGivenBack ==
    result # "none" =>
        /\ terminal = "cooked" /\ winch = "interface" /\ busy = {} /\ fds = {}
        /\ child \in {"none", "reaped"} \/ (childDone /\ ~waitValid)
        /\ result = "NORMAL" => child = "reaped"
        /\ DOMAIN files = DOMAIN before \cup (IF child = "none" THEN {} ELSE {file})
        /\ \A f \in DOMAIN before : files[f] = before[f]

\* Reference for the page, by the tokens.  A text is cut into lines of the width.
Pieces(s, sep) ==
    LET cuts == SetToSortSeq({i \in DOMAIN s : s[i] = sep} \cup {0, Len(s) + 1}, <)
    IN  [k \in 1 .. Len(cuts) - 1 |-> SubSeq(s, cuts[k] + 1, cuts[k + 1] - 1)]

Cut(text) ==
    [i \in 1 .. (Len(text) + Width - 1) \div Width |->
        SubSeq(text, (i - 1) * Width + 1, IF i * Width < Len(text) THEN i * Width
                                          ELSE Len(text))]

\* One line of output: of a text that a carriage return and more text followed only what
\* is on its last line is overwritten.
Shown(row, ended) ==
    LET texts == SelectSeq(Pieces(row, "cr"), LAMBDA t : t # << >>)
        blank == ended /\ row = << >>
    IN  IF texts = << >> THEN (IF blank THEN << << >> >> ELSE << >>)
        ELSE FlattenSeq([i \in DOMAIN texts |->
                IF i < Len(texts) THEN Front(Cut(texts[i])) ELSE Cut(texts[i])])

ReferencePage(tokens) ==
    LET rows == Pieces(SelectSeq(tokens, LAMBDA t : t \notin {"sgr", "title", "bell"}), "nl")
    IN  FlattenSeq([i \in DOMAIN rows |-> Shown(rows[i], i < Len(rows))])

\* "Stream commits ... preserve every complete line": wherever the reads cut the output,
\* also inside an escape sequence, the page shows every line once and in order, with a
\* long one cut and none lost; escape sequences leave no trace, and what a carriage
\* return overwrites is gone.
PageShowsOutput ==
    LET whole == {n \in 0 .. Len(script) : Len(Output(SubSeq(script, 1, n))) <= got}
        tokens == SubSeq(script, 1, CHOOSE n \in whole : \A m \in whole : m <= n)
        open == IF stream.line = << >> THEN << >> ELSE <<stream.line>>
    IN  stream.page \o open = ReferencePage(tokens)

\* A call returns whatever the tool does before it ends, stopping included, and whatever
\* it leaves behind: a silent process that keeps the PTY open does not hold it up.
RunReturns == pc = "master" ~> pc = "idle"
===============================================================================
