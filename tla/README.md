# A verification project for kaminowaku

kaminowaku is an interactive network reconnaissance shell in C. It keeps projects and
targets on disk, pings and scans targets through one raw-packet handle (NOSIX), runs
external tools in a pseudo-terminal, and interprets scripts ("books") that talk to a
target. This directory holds TLA+ models of its concurrent and stateful core, the TLC
configurations that check them, and TLAPS proofs. The code is the reference: paths below
are relative to the repository, and `PROJECT.json` gives the lines behind every definition.

## 1. Inventory

Everything runs on one command thread, with two exceptions: the renderer thread of the
terminal interface, and the worker threads of an ICMP scan session. All network traffic
goes through one NOSIX handle that the loaded project owns. State outlives the process in
text files: `.ports` (append only), petals (one per target), project and profile files,
book output.

| Component | State it keeps | Operations | What makes it correct |
|---|---|---|---|
| TCP and UDP port scan (`network/scan/ports/kportscan*.c`) | plan, pending table of 65536 entries, next port, summary, petal, `.ports` | scan a target, TCP leg, UDP leg: stage a window, reset the capture, send, receive, expire, enrich, write the petal | one verdict per port and leg; a leg reported normal is complete; OPEN only on the host's answer to this leg, as far as the number of a SYN can tell; a petal that was written agrees with the verdicts |
| Banner enrichment (`kbanner.c`) | ports read back from `.ports`, connections | load open ports, probe, store | it takes the ports this leg found open |
| Selection and display (`kportselect.c`, `kportdisplay.c`, policy, filter) | a table folded from `.ports` | has open port, display, observed mode | filter and table agree; old evidence is not shown as current; a SYN+ACK is not lost, by the limit of the table neither |
| Port specifications (`kportspec.c`) | a set of ports | parse | parse is exact on ranges and refuses the rest |
| UI event queue (`ui/ui_events.c`) | ring of 64, closed flag, mutex, two conditions | post, post and close, wait next, reset | one ordered channel; no lost wakeup; nothing behind STOP |
| Terminal interface (`ui/kui.c`) | renderer thread, acknowledgements on callers' stacks, fork bracket | enter, exit, fork prepare and parent, synchronous and asynchronous call | a synchronous call is a barrier; an acknowledgement outlives its event |
| Scrollback and wrap index (`ui_screen.c`, `ui_wrap_index.c`, `ui_text.c`) | ring of lines, wrapped row counts | append, scroll, resize | row arithmetic agrees with the lines kept |
| Keyboard input (`kio.c`, `kio_escape.c`) | escape-sequence automaton, history | read byte, timeout | a partial sequence is not executed nor waited on for ever |
| Interactive guard (`kui_guard.c`, `cmd_guard.c`) | input lock, progress display | begin, end around each turn of the interpreter | never locked at a prompt |
| Worker pool (`kworker.c`) | bounded job queue, stop flag, mutex, condition, threads | open, dispatch, close, cancel, destroy | a job has one fate; nothing touches a freed pool |
| ICMP scan session (`kscan.c`, `kscan_dispatch.c`) | targets, staged and outstanding counts, ready and event queues, pending list, capture memory | open, refill, build, transmit, retire, close | counters are exact; a target is retired once; the session ends |
| ICMPv6 records (`kscan6.c`) | outcome in the petal | record | encoding is total |
| Wire layer (`kwire.h`, `kwire_deadline.h`) | layer in use, deadline | send, fall back, time left | layer 3 only when layer 2 has no route; no deadline passes twice |
| Ping (`ksping.c`, `ksping6.c`) | probe identity, last result | ping, record | a reply is to this probe |
| Name resolution (`kresolve.c`) | servers, search domain | resolve | answers match the question; fallback ends |
| Interfaces (`interfaces.c`) | none | print | - |
| Scan command (`cmd_scan.c`) | what runs next (`f_type`), the caller of help, the hand-over between new, load and unload | one case per command and per prompt | a prompt is what it looks like; a refused command changes nothing |
| Projects and NOSIX (`projects.c`) | active project, target list and count, handle | new, load, unload, open, reopen | the list is the project; the runtime has the profile displayed |
| Targets and petals (`targets.c`, `tlib.c`) | target directories with petal and `.ports`, the petal of the context | add, delete, prune, enter, set | pruning fails closed; the petal in memory is the one on disk |
| Profiles (`profile.c`, `gprofile.c`) | settings | load, set, parse | a failed change is rolled back; limits are kept |
| External tools (`tools.c`, `tool_exec.c`) | registry | add, find, run | - |
| Tool PTY (`tool_pty.c`) | child, PTY, terminal modes, artifact | fork, poll loop, reap, restore | all output drained; child reaped; terminal restored |
| Book session (`book_session.c`, `book_tls.c`, `book_native.c`, `book_audit.c`) | limits, capture, termination reason | open, send, receive, close | one termination reason; limits are hard |
| Book output and persistence (`book_output.c`, `book_persist.c`) | staged output, lock, files | stage, commit | all or nothing |
| Book modules (`book_module.c`, `book_exec.c`, `book_args.c`, ...) | import graph | import, run | no cycle, each module once |
| Book language (`book_lexer.c`, `book_parser.c`, `book_runtime.c`, `book_stdlib.c`) | scopes, budgets | lex, parse, evaluate | budgets bound every script |
| Main loop and commands (`kaminowaku.c`, `main.c`, ...) | the command line and its tokens | read a line, run a turn, exit | turns without input follow one another until a prompt |

How they interact. A command calls down: `cmd_scan` resolves, pings, then calls
`kportscan_run`, which calls `kbanner_enrich_tcp` after each TCP leg and writes the petal
through `tlib`; the readers of `.ports` meet the scanner only through the file. Anything
that prints posts an event to the renderer and waits for its acknowledgement. A fork (tool
PTY) is bracketed by stopping and restarting the renderer. A scan session owns a worker
pool; workers and session thread share two result queues, two flags and two counters.

The hard behaviours are thus: replies lost, late, duplicated or belonging to an earlier probe;
calls that fail half way through a batch; a wall clock used as an order; the lost wakeups and
stack lifetimes of the event queue; pool shutdown with jobs in flight; result queues whose push
must never fail; files that must change all at once. `PROJECT.json` lists 39 of them under
`hazards`, each at its line; one (a late frame of an earlier connection decides which local port
a session believes it has) is modelled without a promise to check it against. On the outer side,
commands hand over to one another through one variable, in contexts of their own, over files
each of which may be damaged by itself; and an external tool may stop, end early, or leave a
process on its terminal, while the program reads its output. A ping or a query tells its answer
from older ones by numbers that wrap around and begin anew with every process.

## 2. Modules

| Module | Models | Composition |
|---|---|---|
| `PortScan` | a scan of one target, repeated; replies on the wire; petal, petal file and `.ports` | - |
| `PortDisplay` | both readers of `.ports` | extends `PortScan`, the writer |
| `MCPortScan` | plans and address sets for TLC | extends `PortDisplay` |
| `UiChannel` | abstract: one ordered channel of events | - |
| `Kui` | queue, conditions, calls, renderer, fork bracket | implements `UiChannel` |
| `KWorker` | the worker pool | - |
| `KScan` | the scan session | extends `KWorker`: every queue and thread action is the pool's own |
| `BookOutput` | abstract: what a reader of a book's output file may find | - |
| `Book` | one target's book sessions: capture, network calls, TLS overlay, evidence gate, scan mark, output commit | implements `BookOutput` |
| `ToolPty`, `MCToolPty` | the run of one external tool in a pseudo-terminal; scripts for TLC | - |
| `Shell`, `MCShell` | main loop, guard, command dispatch, projects, targets, profile and runtime; symmetry for TLC | - |
| `Probe`, `MCProbe` | ping and resolution on the wire layer: numbers, retries, capture file, answers late, repeated or lost; the DNS servers for TLC | - |
| `Viewport`, `MCViewport` | the page: ring of lines, wrap index, view, screen and banner caches, prompt; sizes and lines for TLC | - |
| `PortScanProofs`, `KuiProofs`, `BookProofs`, `ShellProofs`, `ProbeProofs`, `ToolPtyProofs`, `ViewportProofs` | theorems | extend `PortDisplay`, `Kui`, `Book`, `Shell`, `Probe`, `ToolPty`, `Viewport` |
| `KScanProofs` | theorems about the pool and the session | extends `KScan` and, through it, `KWorker` |

**PortScan.** `phase` is where the scanning thread is in `kportscan_scan_target` and the
leg it runs (`fill`, `send`, `receive`, `expire`, `enrich`); `leg` is the position in the
order IPv4/TCP, IPv4/UDP, IPv6/TCP, IPv6/UDP. `pend` is `PENDING`, `nextPort` is
`NEXT_PORT`, `status` is `RETURN_STATUS`. `rows` is every verdict in order; those with
`kept` are the lines of `.ports` (an append may fail, the code reports it and goes on).
`petal` is the target in memory, `disk` its file or `Unreadable`, `shared` tells a scan in
target context, which uses the active petal, from one in project context, which reads a copy
and passes over a target whose file it cannot read (`PassOver`). `at` is the monotonic clock
(`mono`) when the probe of a port was staged: the sequence number of its SYN is a constant, the
port, and the low 16 bits of that time (`Sequence`, with `SeqCycle` for 2^16). `air` is what
hosts sent and the capture may still deliver. One action per step: `Fill` stages a window
and resets the capture; `ProbeSent`, `ProbeFails`, `RouteFails` are the outcomes of one
probe (a frame whose evidence write failed may still be answered); `ReceiveReply` is one
frame through the matchers; `ReceiveEnds` is the deadline; `ExpireProbe` the timeout of one
probe. The four legs share these actions, and `TcpLeg` and `UdpLeg` are the two C
functions. `Finalize` is the whole of `kportscan_tcp_finalize` and `_udp_finalize`. The petal is
written with the four outcomes of `targets_write_petal_data` (`WritePetal`): written, left as it
was, cut short and reported, and cut short with a success reported, when the flush fails.
`Enrich` may end anywhere in `.ports`: a read error ends the file early, and without memory, the
file, the destination or the time of the leg's start nothing is connected to.

Abstractions: a reply is its family, protocol, port, kind and the time its probe was staged;
which leg that was (`leg`) is for the properties only, and no guard looks at it. `Gaps` bounds
how far the monotonic clock goes on from one batch to the next. The port number a probe is sent
from is not part of a reply, so an RST or UDP answer to an earlier leg may be taken for this
one's, as the code would when the source port is the same. Clock reads do not fail, and an
append to `.ports` writes its line or nothing. Banners are not read; `enriched` is the set of
ports a connection is tried to.

**PortDisplay.** `HasOpenTcpPorts` is the fold of `kportselect`, `Display` that of
`kportdisplay` with its policy, the render pass (`Rendered`) and the limit of the table
(`Printed`, `TableLimit` for the 512 rows of `KPORTDISPLAY_TABLE_LIMIT`): beyond it only TCP
ports with a SYN+ACK get their row. What the render pass leaves is OPEN or ERROR, which have one
priority, so the order of the rows is protocol, port, family (`Before`). Both readers only
read, so they are operators evaluated in every state the scanner reaches. The detail blocks
under the table are not modelled.

**Kui.** A critical section is one action and ends at the unlock or at
`pthread_cond_wait`; waiters sleep in `"space"` and `renderer = "sleep"`, a signal wakes
any one waiter, a spurious wakeup any time. `Post` is one pass through the loop of
`ui_events_post_wait` or `ui_events_post_and_close`. `Begin` is the queue path of
`kui_post_event_sync`, `BeginDirect` the path without a renderer. `BeginStop`, `Post`,
`Acknowledged`, `Join` are `kui_render_thread_stop`, entered from `kui_fork_prepare` or
`kui_exit`; `ForkParent` restarts, and may fail to. `Workers` are producers other than the
command thread. The program has none today; the queue is written and commented for them
("A worker may wait for space"), so the runs include some, under the contract of
`ui_events_reset` that producers are joined first (`ProducersJoined`).

**KWorker.** `pool` is how far its owner is, `thread` what each thread does, `fate` a
history variable: what became of each job. Actions are the functions of `kworker.h` and the
iterations of `kworker_thread`.

**KScan.** `main` is the position in `kscan_session_run_tx` and the functions it calls; a
worker's `build` is its position in `kscan_worker_build`, whose three looks at `CANCELLING`
are separate steps. `staged`, `outstanding`, `capture`, `blocked`, `locked`, `fatal`,
`cancelling` are the fields of the same names. All transactions have one size, so
`CaptureTotal` is in transactions. `Complete` takes the reads of `kscan_session_complete` in one
step. The code makes them one after the other, and nothing is lost by that: `STAGED_TARGETS`,
which only the session thread changes, is read last and is above zero as long as a target is
with a worker or its result in a queue (`StagedIsExact`), so a look that mixes two moments can
only find the session not complete. The command path of this commit pings hosts without
opening a session; the session is modelled as the library it is.

**Book.** `pc` is where `books_run_one` stands, from `books_session_prepare` (`idle`,
`header`, `prepared`) through the program (`lua` and the places inside its calls: `open`,
`opened`, `io`, `shaken`), `book_runtime_destroy` (`destroy`), the evidence gate (`gate`,
`evidence`), `books_session_finalize` (`close`, `closed`), the scan mark (`mark`) and
`book_output_commit` (`commit`). `drain` is `books_session_capture_drain`, one read of
libnosix per step, and `ret` the caller it goes back to. `s` holds the fields of
`BOOK_SESSION` the control depends on: `term` is its termination, `active` is
`capture_active`, `pcap` says `pcap_fd` is open, `stream`, `dgram` and `tls` are its
transports, `conn` and `local` the port it was opened to and the local port it learned,
`acted` is `network_actions > 0`, `staged` the number of staged records. `runtime` is
`BOOK_CAPTURE_RUNTIME_BYTES`. The Lua program is any sequence of native calls; between two
of them the interpreter may find its deadline passed or fail by itself. A network call is
split where the code reads the clock again: admitted (`OpenTcp`, `Io`), then counted and
made (`TcpOpened`, `Moved`), then drained. `Arrive`, `Expire` and `Crash` are the
environment and may come between any two steps.

Abstractions: a frame is traffic of this connection, of an earlier one to the same target
and port, ARP, ICMP or NDP about the target, or none of these; the parsing of frames is left
out. A write to the PCAP file fails whole or in part (`seen.torn`). A result file is
the session it comes from, its number of records and whether all of it is there. A crash is
the end of the process together with the loss of what was not synced: content that was not
synced may be cut, a rename that was not followed by a directory sync may be undone. The
temporary file carries process and session number in its name, so what a crash leaves
of one is never opened again and the model forgets it. The directory entry of a PCAP file
is not synced by the code, and nothing is claimed of it after a crash. `INTERRUPTED` is in
the type and in `Finalized` as in the code, which never arrives there with no termination;
`BOOK_TERM_TRANSPORT_ERROR` is never set and is left out. The loops over targets and books
around `books_run_one`, and the commands that print `.out` files, are not modelled.

**ToolPty.** `pc` is where `tool_pty_run` stands: the set-up (`OpenArtifact`, `OpenMaster`,
`TerminalRaw`, `Arm`, `Fork`, each with the failure that takes back what was done before
it), one turn of its loop (`Poll`, `Serve`, `Wait`) and the end (`Finish`). `childDone`,
`masterDone`, `waitValid`, `idle` and `intact` are the locals of these names; `stream` is
`TOOL_PTY_STREAM` with the lines it committed. The environment is the tool and the kernel:
the tool writes byte by byte until the PTY is full, closes its terminal, stops, ends, and
may leave a background process that keeps the PTY open and writes on. What a tool writes is
one of a few scripts of tokens; escape bytes are symbols, and the classes of
`tool_pty_stream_byte` decide on them as the code decides on values. The reference for the
page, `ReferencePage`, is written over whole lines and knows nothing of states.

Abstractions: backspace, window sizes and the render interval are left out. The operator
types no more than the PTY takes (a write to the master blocks when its input queue is
full), and a tool that closed its terminal does not open it again.

**Shell.** `ftype` is `f_type`, and one turn of the main loop is one action: `Read` are the
turns at a prompt, which take any line, `Execute` those that run a command. `line` keeps
the tokens over the turns, as `cmd_tokens` does, because `new` hands over to `unload`, which
hands back to `new`. `then` stands for `unload_from_new` and `unload_from_load`, `caller`
is `help_caller_state_manager`, `list` the nodes behind the anchor of
`active_project_flower` and `rest` where a loop over them has got to: `NetworkOne` and
`PruneOne` are one target each, and the process may end between two of them. `disk` is the
tree of project and target directories. A petal file is what it says of the two families,
or `Unreadable`; `WritePetal` has the four outcomes of `targets_write_petal_data`, with the
flush whose failure is not seen among them. `PingTarget`, `ResolveTarget`, `ScanTarget` and
`BookTarget` are what a network command makes of the record of one target, whatever happens
on the wire: `PortScan` and `Book` model two of them from the inside. `answers` is a history
variable: from where a reply was recorded for a target. In the context of a target the same
commands work on the petal in memory (`InContext`); `unsaved` remembers that the user was
told it could not be written.

Abstractions: identifiers of targets (64 random characters) do not repeat. `nosix_close`
releases the handle, and a failed `nosix_reopen` keeps the old runtime or leaves none.
Commands refused for their arguments are `Other`. Scan times, URL, MAC and note fields are
left out; a block added by CIDR is a sequence of single additions. `.ports` is whether it
holds a received frame.

**Probe.** `pc` is where the command stands: `send`, `receive` and `record` in a ping;
`query`, `listen` and `apply` in a resolution, whose loops over families, servers and
attempts are the fields of `job` (`NextAsked` is how they advance). `echo` holds
`KSPING4_SEQUENCE` and `KSPING6_SEQUENCE`, `dns` holds `DNS_ID` and `DNS_SOURCE_PORT`, and
they wrap around at `EchoNumbers`, `DnsNumbers` and `DnsPorts`. `probe` is the request at
hand, and `Matches` what the receive loops compare of a frame with it. `pcap` is the active
capture file: the link type of its header, its frames, those of its siblings, and whether a
write to it failed. `air` forgets nothing: an answer may be captured whenever it carries the
numbers waited for, again, or never. `Restart` ends the process at any point and begins
another, with the numbers at zero.

Abstractions: hosts and servers answer `MaxAnswers` requests, each with one of all possible
answers. Frames that match nothing are read and skipped by the code and are no steps. A
deadline may pass at any time. A failure to send is one, whatever its reason. Targets
without an address, host names that are addresses, and the runtime being offline send
nothing and are in `Shell`, as is the petal's file.

**Viewport.** One event of the renderer is one action (`Kui` shows that they are handled one
at a time and in order), and `todo` are the events the command thread has decided to post:
what `read_line`, the main loop and a command's output make of a key, a line or a turn.
`ring`, `base`, `index`, `offset`, `maxOff`, `frame`, `layout`, `prompt`, `saved` are
`KUI_SCROLLBACK`, `KUI_RING_BASE_STYLE`, `KUI_WRAP_INDEX`, `view_offset`, `KUI_VIEW_MAX_OFF`
and the variables named beside their declarations. `RenderPage` is `kui_render_page_owned`
from the size of the terminal to the prompt, `RenderSmall` its two early returns. The
terminal is `phys`, what each of its rows shows: a page sends only the rows that differ from
`screen.current`, the banner from its own copy, the prompt from its own. `log`, every line
ever output, is what `TrueRows` wraps anew for `ScreenIsTrue`; `place` is the row the reader
put at the top, for `ViewStays`. A scroll sets `view_offset` before the page is rendered, so
when that page is the first at a new size, the anchor of the old one is read at the offset the
reader just chose (`ResizeAnchor(off)`), and that row is the place (`Sought`).

Abstractions: a line is a kind: the bytes its rows begin with at each width, and the colour
it leaves behind. Where text wraps and which SGR sequences accumulate is data. A page whose
rows cannot be allocated, or whose write fails, leaves rows of which nothing is known. A
text is short enough for `ui_screen_set`. `UI_EVENT_CLEAR` has no caller. A terminal resized
and resized back between two pages is left out (the code does not notice it).

Integers are naturals where they cannot wrap in the bounds the code sets (ports are looped
over as `uint32_t`, counters are at most 65536 per leg).

## 3. What TLC checks

Every property has a mutant in `PROJECT.json`: a plausible bug in a mapped definition
(`..._Overwrites`, `..._Early`, ...) under which TLC finds it violated in the same run.

| Run | Instance | Shows |
|---|---|---|
| `portscan_leg` | ports 1..3, window 2, one scan, one failing call; TCP {1,2,3}, UDP {1,3} or both protocols | `VerdictOnce`, `NormalLegIsComplete`, `ScanFinishes` |
| `portscan_rescan` | one TCP port, IPv4 and IPv6, two scans, a sequence number that repeats after two batches, one failing call | `OpenReachesPetal`, `OpenIsProven`, `EnrichesThisLeg` |
| `portdisplay` | one port over TCP or UDP and one family or the other, two scans, a table of one row, one clock step back, one failing call | `SelectMatchesDisplay`, `SynAckStaysOnDisplay`, `PlainOpenIsCurrent` |
| `kui` | command thread and one worker, queue of 2, four calls, one failing call | `ProgramOrder`, `SyncIsBarrier`, `AckOutlivesEvent`, `CallsReturn`, and `ChannelSpec`: `Kui` implements `UiChannel` |
| `kscan` | two workers, two targets, batch 2, pending 2, memory for 1, one failing call | `StagedIsExact`, `CaptureIsExact`, `RetiredOnce`, `SessionOutlivesWorkers`, `SessionEnds`, and of the pool under it `FateIsFinal` |
| `book` | two sessions, three calls survived, one record, PCAP budgets of two units for a session and three for the process (the header and a packet record are one unit each), drains of two reads, one frame waiting, one crash | `LedgerIsExact`, `TeardownComesFirst`, `EvidenceComesFirst`, `CaptureGatesNetwork`, and `OutputPromise`: `Book` implements `BookOutput` |
| `book_evidence` | the same | `NetworkedResultHasEvidence` is violated |
| `book_scan` | the same | `ScanPersistedFirst` is violated |
| `toolpty` | six scripts, page two wide, PTY of two bytes, reads of one, drain of two polls, an artifact of an earlier run under the first name, one stop, one key, one failing call; with a terminal and without | `OutputIsComplete`, `EverythingIsGivenBack`, `PageShowsOutput`, `RunReturns` |
| `shell` | two projects, two targets, IPv4 and IPv6, two profiles, one failing call | `ListIsProject`, `PromptIsTrue`, `RuntimeFollowsProfile`, `AnswersAreKept` |
| `probe` | one target, one address, two servers, one retry, three values of each number, one answer, one restart, one failing call; four pings, two resolutions, or two pings and a resolution | `RecordIsProven`, `EvidenceIsComplete`, `FallbackIsComplete` |
| `viewport` | terminals too small, low, and wide; a ring of two lines, one of which wraps to four rows or three; banners of one row and three; five events | `ScreenIsTrue`, `ViewStays` |

Why the bounds are enough for the cases that matter. `portscan_leg`: three ports through a
window of two is one full window and one partial one, and the UDP plan has a gap, so the fill
loop ends both by window and by bound. `portscan_rescan`: the replies of one leg meet the same
port in the next leg of the other family and of the next scan; a number that has two values
comes round between the same leg of two scans, so that an old SYN+ACK is both refused and taken;
the one failing call is a petal write in each of its three ways, an enrichment that stops
anywhere, or a lost line. `portdisplay`: two lines per slot in either order of time, which is
all a fold compares, and two slots, so that a full table leaves one out or has it exempted.
`kui`: a full queue, a stop behind queued events, a restart and calls after it fit in four
calls. `kscan`: capture memory smaller than the pending limit, so that deferral and
`CAPTURE_BLOCKED` happen. `viewport`: five events fill the ring, turn it over once, and leave
one for a resize or a command. `book`: three calls and the one that ends the program are open,
TLS handshake, a record and one too many, or open, exchange, close; the budgets are met by the
second record of a session and by the second session; a session abandoned in its setup, one that
commits and a crash fit in two sessions. `toolpty`: a script longer than the PTY, the page and a
read; a line that is cut, one that is overwritten, blank lines, and both kinds of escape
sequence, split by every read (the real sizes are 4096, 4095 and 10 polls; nothing in the code
depends on them but the comparisons). `shell`: two targets give a loop with a target before and
one after the one at hand, two projects one to leave and one to come to, two families the one
that failed and the one that answered; projects and targets are interchangeable and declared
symmetric. `probe`: three values of a number, zero being skipped, repeat after two pings and
after six queries, and four pings and eight queries of one resolution pass that, so that an
answer of the cycle before is met; one answer is enough to be late, repeated or from another
kind of link, since it stays in `air`. `MaxFaults` lets any one call fail at any place; two
failures in one run would add combinations of paths each of which already leads to a close or to
one more ERROR verdict. A third target, one more than the batch holds, was checked once: 1 152
252 states, all six properties, too long for a run of minutes.

`CHECK_DEADLOCK` is on in the runs of scanner, interface and session: their final states
(`Done`, `Closed`) stutter explicitly, so any other stop is an error. It is off
for `Book`, where the operator may give no further command after the last session. In
`Shell` every prompt takes a line, and in `ToolPty` and `Probe` the end (`Done`) stutters.

### Where the code does not do what it says

- `book_evidence`: docs/BOOK_LANGUAGE_V1.md:1082 says that a networked Book cannot publish
  a successful result without packet evidence. A network call reads the session's clock
  twice. When the deadline passes in between (`book_session.c:848` admits,
  `book_session.c:728` does not count) the call is made and no action is counted; a program
  that ends before the interpreter looks at the clock again is complete with no network
  action, the evidence gate is skipped, and the result is published over a header-only
  PCAP. What does hold, `EvidenceComesFirst`, is about counted actions.
- `book_scan`: the comment at `books.c:476` says that a complete Book must not publish when
  the scan metadata could not be persisted. `targets_write_petal_data` (`tlib.c:54`)
  rewrites the petal in place and looks at `fwrite` only; a failed flush or close is
  reported as success, and the output is committed over a petal that is cut short.

Not runs, because they are about what the code does and no text says otherwise, or the text
is a hint: met while modelling, and the models contain them.

- `tool_pty.c`: a key that the master refuses sets `master_done`. When the tool still has
  output in the PTY, the loop ends without reading it, once the tool is reaped, and returns
  `NORMAL`; `OutputIsComplete` names the exception. A blank line that ends in CR LF is not
  committed, although the comment at `tool_pty.c:376` says that every complete line is
  preserved. While the tool lives with its terminal closed, the loop polls a hung-up master
  without pause. A background process that keeps writing holds the loop; a silent one does
  not.
- `targets.c:605`: the node of a target is linked before `mkdir`. When that fails the node
  has no directory, is met and skipped by every loop, cannot be deleted, and is kept by an
  `unload` when the project has no targets, so that it turns up in the next project.
  `ListIsProject` counts it separately (`Ghosts`).
- README.md:408 says that `targets del -n` deletes only after `NOSIX_ERR_NEIGHBOR`; a failed
  layer 3 fallback counts as well (`targets_neighbor_filter.h:19`, and the comment at
  `targets.c:794` says so). README.md:410 says that an untested family preserves the target;
  a `set` or a `resolve` that replaces an address keeps the state recorded for the old one
  (`tlib.c:193`), so an old failure prunes an address that was never tried. Targets whose
  port data holds received packets are preserved unless `.ports` cannot be opened, which
  counts as no received packet (`kportdisplay.c:740`).
- Deleting the last target by name leaves `active_project_has_targets` set, so ping and scan
  run over nothing instead of saying so.
- A profile loaded while the runtime is offline does not bring it back; the project must be
  loaded again.

- `kwire.h:645`: the capture file of a command is opened for one kind of link and keeps it
  from its first frame on. A query that goes out over a tunnel after one went out over
  Ethernet is sent, and then reported as a system error: its answer is not waited for, and
  it counts as an attempt (`Write`). Frames received over the other kind of link do find a
  sibling file. After a torn write the queries that follow are appended behind the torn
  record (`pcap.torn`, which `EvidenceIsComplete` excepts).
- `ksping.c`, `kresolve.c`: the numbers of echo requests and queries begin at one in every
  process, with the same ICMP identifier, so that a late answer to the process before can be
  recorded for this one (`Repeated`, which `RecordIsProven` excepts).

- `kui.c:1003` says that a resize preserves the first visible line and its byte. Over a
  window too small for the page it does, unless lines are evicted or a command is entered
  meanwhile: `KUI_SAVED_ANCHOR` counts lines from a head that moves on, and no event resets
  it (`place` is `Lost`, which `ViewStays` excepts). A prompt lost to a failed write is
  drawn again only when something is typed (`drawn`). In a terminal two rows taller than its
  banner a progress line puts the page onto the banner's last row, and the banner's copy is
  not told (`BannerAssumption` leaves that size out).

### Fairness

- `PortScan`: weak fairness of `ScanStep`. The scanning thread is scheduled, and nothing
  makes replies arrive. The receive loop compares the clock with its deadline on every turn,
  so it ends whatever it is handed. In the model a frame that matches nothing and is
  captured again changes no variable, so it cannot count as progress; every other delivery
  uses up a reply or a probe, and `ReceiveEnds` is what remains.
- `Kui`: weak fairness of the renderer, of `Join`, and of each producer inside a call: a
  thread that holds or can take the mutex runs. No fairness for making calls.
- `KScan`, and the pool's threads in it: threads are scheduled, jobs return (a build job has no unbounded wait
  of its own), the owner joins once it asked for the stop, and time passes while a deadline
  or the transmit interval is awaited.
- `ToolPty`: weak fairness of `Program`, one thread with no lock to wait for, and of
  `ToolEnds`: `RunReturns` is about tools that end some time, whatever they do before. None
  for the background process, which may keep the PTY open for ever.
- `Shell`, `Probe`, `Viewport`: none. Their properties are safety; that a command comes back to a prompt rests on
  the network commands' own deadlines (`ScanFinishes`).

### Assumptions a reader should know

- One process owns the files; another kaminowaku on the same project is not modelled.
- `Kui`: producers other than the command thread are joined before a reset (contract in
  `ui_events.c`).
- Only the administrator or a time daemon sets the clock back; `EnrichesThisLeg` and
  `PlainOpenIsCurrent` are claimed only while that did not happen, and would not hold
  otherwise.
- `PortScan`: the monotonic clock goes on between two batches (`CycleAssumption`: every gap is
  at least one). A petal that was cut short is told by its length (`UnreadableAssumption`), as
  `targets_read_petal_data` does.
- `OpenIsProven` names what the code cannot exclude: an answer to an earlier SYN of the same
  port is taken for this leg's when the two SYNs are whole cycles of the number apart
  (`CameRound`). `OpenReachesPetal` says nothing of a file that cannot be read; a scan whose
  verdicts are in a petal that was cut short has them in `.ports` only.
- `Viewport`: the rows of a line begin at byte 0 and each at a later byte than the one before
  (`StartAssumption`), as the loop of `kui_line_wrap_rows` makes them; a banner has a row
  (`BannerAssumption`).
- `Book`: libnosix may hand over a frame of an earlier connection to the same target and
  port after a new one was opened; a file renamed and not followed by a directory sync may
  be the old or the new one after a crash, never a mixture.

## 4. What is proved

For every value of the constants, under the named assumptions beside their declarations:

| Theorem | Module | States |
|---|---|---|
| `TypeCorrect` | `PortScanProofs` | `Spec => []TypeOK` |
| `OneVerdict` | `PortScanProofs` | `Spec => []VerdictOnce` |
| `LegIsComplete` | `PortScanProofs` | `Spec => NormalLegIsComplete` |
| `OpenProven` | `PortScanProofs` | `Spec => OpenIsProven` |
| `OpenOnDisk` | `PortScanProofs` | `Spec => []OpenReachesPetal` |
| `EnrichesRightPorts` | `PortScanProofs` | `Spec => EnrichesThisLeg` |
| `ReadersMatch` | `PortScanProofs` | `Spec => []SelectMatchesDisplay` |
| `SynAckStays`, `PlainOpenIsLast` | `PortScanProofs` | `Spec => []SynAckStaysOnDisplay`, `Spec => []PlainOpenIsCurrent` |
| `FreedPoolIsQuiet` | `KScanProofs` | `PoolSpec => []GoneIsQuiet` |
| `OneFate` | `KScanProofs` | `PoolSpec => FateIsFinal` |
| `ScanTypeCorrect` | `KScanProofs` | `Spec => []TypeOK` |
| `BatchIsEnough`, `CaptureBounded` | `KScanProofs` | `Spec => []StagedIsExact`, `Spec => []CaptureIsExact` |
| `EachRetiredOnce` | `KScanProofs` | `Spec => []RetiredOnce` |
| `FreedSessionIsQuiet`, `BuildHasOneFate` | `KScanProofs` | `Spec => []SessionOutlivesWorkers`, `Spec => FateIsFinal` |
| `TypeCorrect` | `BookProofs` | `Spec => []TypeOK` |
| `Ledger`, `TransportIsOne` | `BookProofs` | `Spec => []LedgerIsExact`, `Spec => []OneTransport` |
| `GateHolds` | `BookProofs` | `Spec => CaptureGatesNetwork` |
| `TeardownFirst`, `EvidenceFirst` | `BookProofs` | `Spec => TeardownComesFirst`, `Spec => EvidenceComesFirst` |
| `OutputKept` | `BookProofs` | `Spec => OutputPromise`: `Book` implements `BookOutput` |
| `TypeCorrect` | `KuiProofs` | `Spec => []TypeOK` |
| `CallsHandledInOrder`, `AcknowledgedIsHandled` | `KuiProofs` | `Spec => []ProgramOrder`, `Spec => []SyncIsBarrier` |
| `AcksLive` | `KuiProofs` | `Spec => []AckOutlivesEvent` |
| `ImplementsChannel` | `KuiProofs` | `Spec => ChannelSpec`: `Kui` implements `UiChannel` |
| `RuntimeIsProfile` | `ShellProofs` | `Spec => []RuntimeFollowsProfile` |
| `PromptTrue` | `ShellProofs` | `Spec => []PromptIsTrue` |
| `AnswersKept` | `ShellProofs` | `Spec => AnswersAreKept` |
| `ListTrue` | `ShellProofs` | `Spec => []ListIsProject` |
| `ProbeInvariant` | `ProbeProofs` | `Spec => []ProbeInv` |
| `FallbackComplete` | `ProbeProofs` | `Spec => []FallbackIsComplete` |
| `RecordProven`, `EvidenceComplete` | `ProbeProofs` | `Spec => RecordIsProven`, `Spec => EvidenceIsComplete` |
| `GivenBack` | `ToolPtyProofs` | `Spec => []EverythingIsGivenBack` |
| `OutputComplete` | `ToolPtyProofs` | `Spec => []OutputIsComplete` |
| `TypeCorrect` | `ToolPtyProofs` | `Spec => []TypeOK` |
| `ScreenTrue`, `ViewKept` | `ViewportProofs` | `Spec => []ScreenIsTrue`, `Spec => []ViewStays` |
| `StoreCorrect`, `PageCorrect`, `PlaceCorrect` | `ViewportProofs` | their invariants: `Spec => []BaseInv`, `Spec => [](BaseInv /\ PageInv)`, `Spec => []PlaceInv` |

*The scanner.* `VerdictOnce` is not inductive: nothing in it prevents a second verdict for a
probe that is still in the pending table. `VerdictInv` adds `RowsOfPast` (no row belongs to a
leg that has not begun), `PendingIsExact` (the planned ports below `NEXT_PORT` that are neither
staged nor sent are exactly those with a verdict in this leg, and those staged or sent have
none) and `BatchInStep` (which probe states each phase can meet). Its preservation is one lemma
over the actions, resting on `FinalizeOnce`: a verdict for a port that has none keeps every
part. `NormalLegIsComplete` then follows from `PendingIsExact` at the one place a normal leg is
left. `OpenIsProven` is about numbers that repeat. `AirIsPast` says that every answer on the
wire is to a probe of the past, and that one to an earlier leg is to a probe staged before that
of its port in the running window; it is kept because staging a batch moves the clock on
(`StageAllTimes`) and a new leg begins with no probe staged. A SYN+ACK that the matcher takes
has the number of the probe in flight, and `SameNumber` is the arithmetic: two times with the
same remainder are equal or whole cycles apart. For `OpenReachesPetal`, `OpenInMemory` says the
same of the petal in memory throughout the scan; `OnDisk` says that a readable file carries the
stamp of a scan that ended, so that what the running scan appends to `.ports` is not yet claimed
of it, and a write that fails leaves a file for which nothing new is claimed. The enrichment
tells the lines of its leg from those of earlier ones by their time: `TimesAreLegs` says that,
while the clock was never set back, the lines of the running leg are of its family and protocol
and not older than `TCP_SCAN_START_NS`, and all others are older. It holds only because time
passes with every line (`FinalizeAppends`) and with every leg that begins.

*The readers of the results.* What a reader holds after `n` lines is the value at `n` of a
recursive function, and `SelectionRows` and `TableRows` give what one line does to one slot of
it: a fold over the lines exists (`FoldExists`), and what each line keeps holds after all
(`ByLines`), both by the least number for which they fail. The rest is one relation per
property, kept by every line. `ReadersAgree`: the slots of filter and table have the same time
and state, or are both still empty; needed because each skips out-of-date lines by its own slot.
`SynAckStays`: a slot has its SYN+ACK from the line on, and what it shows as OPEN was received.
`PlainOpenIsLast`: a slot is what the last line of its port says. The limit of the table comes
after the fold: a slot that is OPEN over TCP is one with a SYN+ACK and is exempt (`OpenSlot`,
`OpenIsPrinted`), and `PlainOpenIsLast` has the rows counted (`RowsCounted`) for a UDP slot that
is not. Of the scanner they need `LinesAreTrue`: over TCP only a SYN+ACK is OPEN, a line counts
as received unless it is a timeout or an error, and while the clock was never set back the order
of the file is the order of the times.

*The pool.* `GoneIsQuiet` rests on `PoolInv`: `QueueIsExact` and `HandsAreExact` tie a
job's fate to the one place or the one hand it is in, and `OwnerIsInStep` says that no
thread ends while the queue has a job. Cancelling keeps both because the queue is emptied
under the lock that wakes the threads.

*The scan session.* Every step of the session is one of the pool's or leaves the pool alone
(`PoolMoves`), so `PoolInv` carries over. `ScanInv` adds where a target may be. `Making` are
those whose job is queued or at work, `Made` those whose job handed over its result, and a
result is at one place only: `READY_QUEUE`, the hand of the session thread, `EVENT_QUEUE`,
the pending list, or retired (`OnePlace`); until something fails it is at one of them
(`NoneLost`). `STAGED_TARGETS` is the number of those that are staged (`StagedCount`),
`BUILD_OUTSTANDING` that of the jobs queued or running (`JobsAreCounted`), and the session
leaves its loop unfailed only when all of it is empty (`CloseIsComplete`), whatever the
workers do between that look and the close. `StagedIsExact` needs one thing more: the event
of a failed send stays in its queue after its target was unstaged, so the count alone does
not bound that queue; there is at most one, and it is taken up in the round that made it
(`UnstagedIsLast`). Each step then moves one target, or one prefix of the pending list, from
one place to the next, and the counts follow from the cardinalities. The proof uses only
that the queues have `BATCH_LIMIT` places (`BatchAssumption`).

*The book session.* The promises speak of the moment of the rename or of a network call;
they hold because of what each earlier place has made sure of, although any drain on the
way may turn the session into a failed one and any caller may be the one it returns to.
`BookInv` says so place by place: `RouteInv` (who calls a drain), `TransportInv` and
`CaptureInv` (what is still open where), `TermInv` (a lost record stays visible, evidence
was judged), `OutInv` (every output a crash may bring back is whole and, until the rename,
older than this session), `WireInv` and `BytesInv` (the PCAP and the two budgets). `In(S)`
is the common form: at a place of S, or in a call or drain that returns there. For
`OutputKept`, only `Rename`, `Published` and `Crash` touch the output, and they map to
`Publish`, `Settle` and `Crash`; `Publish` needs the new result to be newer than every
survivor, which is `OutInv`.

*The interface.* None of the three invariants is inductive. `KuiInv` says where an event may
be while its caller waits: STOP is the last event of a queue, and nothing is queued and
nobody is in a call once the thread has ended or where none runs (`StopIsLast`); what a
producer posts is its own, and from the moment the command thread wants to stop the renderer
until it has joined it, it is in that one call (`CallsAreOwn`, `MainStops`); the events of a
caller are in the order of its calls in what was handled, in the queue, at the renderer and
from each to the next, and the call it is in comes after them all (`EventsInOrder`,
`CallsComeLater`); an event somebody waits for is the very call its caller is in, and it has
not been acknowledged (`AcksAreExact`). `SyncIsBarrier` then follows at the one step that
acknowledges: whatever else the caller had in the queue would be both later and earlier than
its call. For `ImplementsChannel` the channel is the renderer's event and the queue behind
it (`Pending`). `PendingAppended` and `PendingFolded` carry a post from the end of the queue
to the end of the channel, `TakeIsInner` shows that taking moves nothing, and `StopIsLast`
that the channel is empty whenever it is reopened or skipped. The proof assumes no bound on
how often the renderer is stopped and started.

*The shell.* `RuntimeFollowsProfile` is inductive as it stands. The other two are not:
between two prompts `f_type`, the caller of `help` and the context go separate ways, and a
prune in one process looks at petals an earlier one wrote. `ShellInv` says which turns a
context may meet and where `help` goes back to (`ContextInv`), when the guard is closed
(`GuardInv`), that the line is still the one the command was found in after `unload` ran for
`new` or `load` (`LineInv`), and that what was answered can still be read in the target's
petal, unless that is damaged (`DiskInv`), and in the petal of the context (`MemoryInv`).
Each network command keeps the last two for one target, whatever its write does
(`PingKeeps`, `ResolveKeeps`, `ScanKeeps`, `BookKeeps`); `AnswersKept` then is what a prune
may skip over (`PrunedUnanswered`).

*The list of targets.* `ListIsProject` speaks of a prompt; `ListInv` says what holds in every
turn. Without a project nothing but nodes without a directory hangs on the list and nothing
is counted; with one the list is what `ListIsProject` says (`NodesInv`). That `new` and
`load` end with a list of their own rests on two facts about the hand-over: a name is only
asked for when no project is loaded (`AskingInv`), and all that has a directory of what a
prune has still before it is on the list (`RestInv`), so that each target deleted is counted
off once. Directories are finite (`FiniteInv`), without which the count would mean nothing.
The lemmas before the steps are about lists without repetition: what unlinking a node,
linking one and reading a directory do to its elements and its length.

*ping and resolve.* The code tells answers apart by their numbers and nothing else; the
promise is that this goes wrong only after a whole cycle. `NumberInv` says which number the
n-th request of a process has (`Nth`: zero is skipped, the rest repeats), `AirInv` that every
answer is to a request that was made, `CurrentInv` that the request at hand is the last of
its kind. `MatchedAnswer` then is arithmetic: an answer with the same numbers is to the same
request, or to one of another process, or the two differ by a multiple of each cycle
(`SameNth`). What was found or is about to be recorded keeps that origin until the step that
writes it (`ProvenInv`), and its frames stay in the capture file (`EvidenceInv`, `LinkInv`).
`AskedInv` counts the attempts: the servers before the one at hand were asked as often as
the profile says, and the family before is settled. `CameAsked` shows that for the three ways
a query goes on. `FallbackIsComplete` is what is left of it when the last family is through;
for the two action properties `RecordedBy` and `AppliedBy` show that one step each writes
results and addresses. `ServersAssumption` says that the profile has at most two servers, as
its two fields do; the proof uses only that there are finitely many.

*The tools.* `EverythingIsGivenBack` is about the end of a run; `GivenInv` says what is taken
at each place of it: the directory is that of the call and the artifact, whose name was free
(`FilesInv`), the terminal, the handler and the interface are taken one after the other and
each way out gives back what was taken so far (`TerminalsInv`, `AbandonGives`), and a loop
that ends unfailed has reaped the tool (`ChildInv`). `OutputIsComplete` says two things. The
artifact is a beginning of the output because adjacent reads join (`AdjacentReads`) and a
write that fails leaves a beginning of what was read (`PartOfRead`, `SavedExtends`). That
NORMAL lacks nothing depends on why the reading ended, and the reasons are those of
`DrainInv`: the end of the PTY was seen, and a terminal that is closed stays closed
(`ReadyInv`), or the PTY was silent twice after the tool was reaped. Once is not enough: the
poll may have timed out just before the tool wrote its last and ended, and TLC shows the loss
with `IdleLimit = 1`. The code waits for ten; `SizesAssumption` asks for two.

*The page.* Four invariants, each resting on those before it. `BaseInv` is about the store:
the ring holds the last lines of `log` and `base` the colour of the others (`RingInv`), and
the wrap index, which is brought up to date in three ways and dropped in none of them when it
is merely old, has the counts of the lines it stands for (`IndexTrue`): as many evictions as
the head moved happened since, and the ring has not gone round. From it the rows the code
finds through the index are the rows of `log` wrapped anew (`RowsOf`, `Sums`, `Locate` and
the lemmas about them), whatever was evicted. `PageInv` is about the terminal: a row of
`screen.current` is what the terminal shows, or unknown, or under the prompt, as long as the
page was painted at this size (`CacheInv`); a page without a fault is in the cache and on the
terminal (`FreshInv`), and a prompt once drawn is still there (`DrawnInv`). `CacheInv` is
what lets a commit skip a row (`CommitIs`, `PaintedIs`), and the exception for the prompt's
row is why `Moves` must name that row when the prompt leaves it. `ScreenIsTrue` follows.
`PlaceInv` says where the reader's place is kept: at the top of the page (`AtTop`: the row
begins with the place's byte, and `view_offset` rows are under the view) or, while the window
is too small for one, in `KUI_SAVED_ANCHOR` (`SavedBy`). Output moves the offset along with
the place, eviction may hide it, and then the place becomes the oldest row that shows
(`Settled`); a resize goes from row to anchor and from anchor to row, and nothing is lost on
the way because an anchor is a line and a byte, which no width changes, and the row that
holds the byte is unique: the rows' first bytes are in order. The proof assumes no bound on
the ring, the lines, the sizes or the events.

That the output is a sequence at all is a proof about a recursive function: `FlattenIsSeq`
does the induction by the least number for which the claim fails, which exists by `WFMin` of
`WellFoundedInduction`, a theorem about sets and not about operators. The folds of
`PortDisplay` are treated alike.

TLC checked `VerdictInv`, `OpenInMemory`, `AirIsPast`, `OnDisk`, `TimesAreLegs`, `LinesAreTrue`,
`BookInv`, `KuiInv`, `ScanInv`, `ShellInv`, `ListInv`, `ProbeInv`, `GivenInv`, `OutInv`, the
parts of `PoolInv` and those of `BaseInv`, `PageInv` and `PlaceInv` as invariants before they
were proved. No run lists `TypeOK`: those of `PortScan`, `Kui`, `KScan`, `Book` and `ToolPty`
are proved, that of `Probe` is part of `ProbeInv`, and TLC checked the others once, beside the
other invariants of their runs. `GoneIsQuiet` and `FateIsFinal` are proved of the pool with any
client (`PoolSpec`), and `FateIsFinal` again under the session that uses it, as the run checks
it.

Only model-checked: the violations of section 3, `PageShowsOutput` of `ToolPty`, and all
liveness. Every other property of a run is a theorem. The prover handles neither liveness under
fairness nor `ENABLED`. `PageShowsOutput` compares a fold over the bytes with a page made of
whole lines; a proof would need a theory of cutting lines that is longer than the model.

## 5. Not modelled, and why

Wording and packet bytes: no property is about them. Interfaces print
what the system reports. `kportscan`'s plan parser, the pacing of writes and the PCAP bytes
are left out of the models; the first is planned with `kportspec`. Counters the UI keeps for
diagnostics, and history and completion of the input line, change nothing that is promised.
Vendored and generated code is outside the project. That a book session ends is not
checked: the interpreter's budgets, which it rests on, come with the interpreter's model.

## 6. Plan

In this order; the components marked not modelled or partly in `PROJECT.json` are reached by
it.

1. `ToolPty` composed with the fork bracket of `Kui`.
2. Pure algorithms against reference definitions: `kportspec` parsing, the escape automaton
   of `kio_escape`, CIDR blocks, `kwire` deadlines.
3. Book modules' import graph; budgets of the interpreter.
