---------------------------- MODULE TerminalView ----------------------------
(***************************************************************************)
(* A shell in a container: the component Terminal with its web socket and  *)
(* its uploads, and the handler WebTerminal with its goroutines: the one   *)
(* that reads the page's messages for the shell, the one that writes what  *)
(* the shell puts out, and the one that watches the reads.                 *)
(*                                                                         *)
(* wsRef is set once and for all: when the effect runs again it has closed *)
(* the socket and opens no other, so the terminal stays dead.  The handler *)
(* gives up on a page that it has not heard of for thirty minutes, and the *)
(* page sends a heartbeat every twenty seconds; thirty minutes are two     *)
(* ticks of the clock here.                                                *)
(***************************************************************************)
EXTENDS Naturals, Sequences

CONSTANTS
  Shells,     \* containers, with their pod, that a terminal may be opened in
  Files,      \* names of files to upload
  MaxUploads, \* bound on the uploads
  MaxReruns,  \* bound on how often what the terminal is opened in changes
  MaxOutputs  \* bound on what the shell puts out

Timeout == 2

VARIABLES
  props,     \* the container the page wants a shell in
  reruns,    \* how often that has changed
  termSock,  \* the socket: its state and the container it was opened for
  beating,   \* the heartbeat's timer is set
  silent,    \* the page is frozen, or the network holds back what it sends
  sent,      \* messages on the way to the handler
  stream,    \* the handler: "none", "made", "open", "failing", "over"
  reader,    \* its reads: "none", "reading", "replying", "parting", "ended"
  output,    \* its writes: "idle", "appending", "sending", "ended"
  watching,  \* the goroutine that watches the reads runs
  quiet,     \* ticks since its timer was set
  timedOut,  \* timeoutCh is closed
  crashed,   \* the process panicked
  recorded,  \* outputs in the recording
  saved,     \* the recording has been stored
  stored,    \* outputs in what was stored
  displayed, \* history: outputs sent over the open socket
  typed,     \* history: containers that got input, with the one wanted then
  lull,      \* history: ticks since a message arrived, and the longest lull
  uploads    \* uploadingFiles, the newest first, and whether each is done

browser   == << props, reruns, beating, silent, uploads >>
timer     == << watching, quiet, timedOut >>
recording == << recorded, saved, stored, displayed >>
handler   == << stream, reader, output, timer, crashed, recording >>
termHist  == << typed, lull >>
termVars  == << browser, termSock, sent, handler, termHist >>

Connected  == termSock.st = "open"
Disconnect ==
  termSock' = IF Connected THEN [termSock EXCEPT !.st = "closing"] ELSE termSock

TermInit ==
  /\ props \in Shells /\ reruns = 0
  /\ termSock = [st |-> "connecting", of |-> props]
  /\ beating = FALSE /\ silent = FALSE /\ sent = << >>
  /\ stream = "none" /\ reader = "none" /\ output = "idle"
  /\ watching = FALSE /\ quiet = 0 /\ timedOut = FALSE /\ crashed = FALSE
  /\ recorded = 0 /\ saved = FALSE /\ stored = 0 /\ displayed = 0
  /\ typed = {} /\ lull = [now |-> 0, most |-> 0]
  /\ uploads = << >>

-----------------------------------------------------------------------------
(* The page.                                                               *)

(* onopen: a resize and the first heartbeat.                               *)
TermOpens ==
  /\ termSock.st = "connecting" /\ termSock' = [termSock EXCEPT !.st = "open"]
  /\ beating' = TRUE /\ sent' = << "resize", "heartbeat" >>
  /\ UNCHANGED << props, reruns, silent, uploads, handler, termHist >>

Heartbeat ==
  /\ beating /\ Connected /\ ~silent /\ sent = << >>
  /\ sent' = << "heartbeat" >>
  /\ UNCHANGED << browser, termSock, handler, termHist >>

(* onData of the terminal that belongs to the socket.                      *)
Type ==
  /\ Connected /\ ~silent /\ sent = << >>
  /\ sent' = << "input" >> /\ typed' = typed \cup { << termSock.of, props >> }
  /\ UNCHANGED << browser, termSock, handler, lull >>

(* Mutant: the cleanup leaves the socket to its own terminal.              *)
TermRerunQuietly ==
  /\ reruns < MaxReruns /\ reruns' = reruns + 1 /\ props' \in Shells
  /\ UNCHANGED << termSock, beating, silent, uploads, sent, handler, termHist >>

(* What the effect depends on changes: the cleanup closes the socket; the  *)
(* next run finds wsRef set and leaves its terminal without one.           *)
TermRerun ==
  /\ reruns < MaxReruns /\ reruns' = reruns + 1 /\ props' \in Shells
  /\ beating' = FALSE
  /\ termSock' = IF termSock.st \in { "connecting", "open" }
                 THEN [termSock EXCEPT !.st = "closing"] ELSE termSock
  /\ UNCHANGED << silent, uploads, sent, handler, termHist >>

(* onclose and onerror: no attempt to connect again.                       *)
TermCloses ==
  /\ termSock.st = "closing" /\ termSock' = [termSock EXCEPT !.st = "closed"]
  /\ beating' = FALSE
  /\ UNCHANGED << props, reruns, silent, uploads, sent, handler, termHist >>

(* Frozen, or held back by the network, and back again.                    *)
Silence ==
  /\ silent' = ~silent
  /\ UNCHANGED << props, reruns, beating, uploads, termSock, sent, handler, termHist >>

-----------------------------------------------------------------------------
(* The handler itself.                                                     *)

(* The deployment, the pod or the right to it is missing: the error is     *)
(* written to the socket.                                                  *)
Refuse ==
  /\ ~crashed /\ stream = "none" /\ termSock.st # "connecting"
  /\ stream' = "failing"
  /\ UNCHANGED << browser, termSock, sent, reader, output, timer, crashed, recording, termHist >>

(* NewWebTerminal: the watcher runs from here on, and nobody reads yet.    *)
Make ==
  /\ ~crashed /\ stream = "none" /\ termSock.st # "connecting"
  /\ stream' = "made" /\ watching' = TRUE
  /\ UNCHANGED << browser, termSock, sent, reader, output, quiet, timedOut, crashed,
                  recording, termHist >>

NextRead == IF timedOut THEN "parting" ELSE "reading"

(* Handle, or HandleDebug once its container is loaded.                    *)
Start ==
  /\ ~crashed /\ stream = "made" /\ output = "idle"
  /\ stream' = "open" /\ reader' = NextRead
  /\ UNCHANGED << browser, termSock, sent, output, timer, crashed, recording, termHist >>

(* No debugger, no terminal state, no executor: nobody will ever read, and *)
(* the watcher is not told.                                                *)
StartFails ==
  /\ ~crashed /\ stream = "made" /\ output \in { "idle", "ended" }
  /\ stream' = "failing"
  /\ UNCHANGED << browser, termSock, sent, reader, output, timer, crashed, recording, termHist >>

(* The shell exits, or its input has ended: all of its output has been     *)
(* written.  An error is written to the socket before that is closed.      *)
StreamReturns ==
  /\ ~crashed /\ stream = "open" /\ output \in { "idle", "ended" }
  /\ \/ stream' = "failing" /\ UNCHANGED termSock
     \/ stream' = "over" /\ Disconnect
  /\ UNCHANGED << browser, sent, reader, output, timer, crashed, recording, termHist >>

ErrorWritten ==
  /\ ~crashed /\ stream = "failing" /\ stream' = "over" /\ Disconnect
  /\ UNCHANGED << browser, sent, reader, output, timer, crashed, recording, termHist >>

-----------------------------------------------------------------------------
(* The goroutine that writes, and before the start the handler in its      *)
(* stead: ConnWrite puts the output into the recording, then sends it.     *)
Output ==
  /\ ~crashed /\ stream \in { "made", "open" } /\ output = "idle" /\ recorded < MaxOutputs
  /\ output' = "appending"
  /\ UNCHANGED << browser, termSock, sent, stream, reader, timer, crashed, recording, termHist >>

AppendOutput ==
  /\ ~crashed /\ output = "appending"
  /\ output' = "sending" /\ recorded' = recorded + 1
  /\ UNCHANGED << browser, termSock, sent, stream, reader, timer, crashed,
                  saved, stored, displayed, termHist >>

(* What is sent over a lost connection may fail; then the copying ends.    *)
SendOutput ==
  /\ ~crashed /\ output = "sending"
  /\ \/ output' = "idle" /\ displayed' = IF Connected THEN displayed + 1 ELSE displayed
     \/ ~Connected /\ output' = "ended" /\ UNCHANGED displayed
  /\ UNCHANGED << browser, termSock, sent, stream, reader, timer, crashed,
                  recorded, saved, stored, termHist >>

-----------------------------------------------------------------------------
(* The goroutine that reads.                                               *)

(* ReadMessage gets a message.                                             *)
Heard(m) ==
  /\ ~crashed /\ reader = "reading" /\ Connected /\ ~silent /\ sent # << >> /\ Head(sent) = m
  /\ sent' = Tail(sent) /\ lull' = [lull EXCEPT !.now = 0]

(* The watcher is told of the read and sets its timer again.               *)
TimerAgain == quiet' = IF watching THEN 0 ELSE quiet

(* Read returns, and is called again: then it sees whether there was a     *)
(* timeout.                                                                *)
Read ==
  /\ \E m \in { "resize", "input" } : Heard(m)
  /\ TimerAgain /\ reader' = NextRead
  /\ UNCHANGED << browser, termSock, stream, output, watching, timedOut, crashed,
                  recording, typed >>

(* The shell has exited already: its input cannot be written, and the      *)
(* copying ends without anybody being told.                                *)
InputLost ==
  /\ Heard("input") /\ TimerAgain /\ reader' = "ended"
  /\ UNCHANGED << browser, termSock, stream, output, watching, timedOut, crashed,
                  recording, typed >>

(* A heartbeat is answered before Read returns.                            *)
HeartbeatRead ==
  /\ Heard("heartbeat") /\ reader' = "replying"
  /\ UNCHANGED << browser, termSock, stream, output, timer, crashed, recording, typed >>

(* Mutant: the watcher is not told of heartbeats.                          *)
RepliedQuietly ==
  /\ ~crashed /\ reader = "replying" /\ reader' = NextRead
  /\ UNCHANGED << browser, termSock, sent, stream, output, timer, crashed,
                  recording, termHist >>

Replied ==
  /\ ~crashed /\ reader = "replying" /\ TimerAgain /\ reader' = NextRead
  /\ UNCHANGED << browser, termSock, sent, stream, output, watching, timedOut, crashed,
                  recording, termHist >>

(* The answer cannot be written: Read returns the error, so the watcher    *)
(* ends too, but nothing is stored.                                        *)
ReplyFails ==
  /\ ~crashed /\ reader = "replying" /\ ~Connected
  /\ reader' = "ended" /\ watching' = FALSE
  /\ UNCHANGED << browser, termSock, sent, stream, output, quiet, timedOut, crashed,
                  recording, termHist >>

(* Mutant: a timeout, too, stores the recording.                           *)
PartedSaving ==
  /\ ~crashed /\ reader = "parting" /\ reader' = "ended"
  /\ saved' = TRUE /\ stored' = recorded
  /\ UNCHANGED << browser, termSock, sent, stream, output, timer, crashed,
                  recorded, displayed, termHist >>

(* The page has been told of the timeout: the reads end, and neither is    *)
(* anything stored nor is the watcher told.                                *)
Parted ==
  /\ ~crashed /\ reader = "parting" /\ reader' = "ended"
  /\ UNCHANGED << browser, termSock, sent, stream, output, timer, crashed,
                  recording, termHist >>

(* doClose: SaveContent, whose error is logged only.  It reads the         *)
(* recording without its mutex: what is just being appended is stored or   *)
(* not, or found half written, and then the process panics.                *)
DoClose ==
  \/ /\ saved' = TRUE
     /\ stored' \in { recorded } \cup (IF output = "appending" THEN { recorded + 1 } ELSE {})
     /\ UNCHANGED crashed
  \/ UNCHANGED << saved, stored, crashed >>
  \/ output = "appending" /\ crashed' = TRUE /\ UNCHANGED << saved, stored >>

(* The connection is gone: the recording is stored, the watcher ends, the  *)
(* shell gets an end of transmission.                                      *)
ReadFails ==
  /\ ~crashed /\ reader = "reading" /\ termSock.st \in { "closing", "closed" }
  /\ reader' = "ended" /\ watching' = FALSE /\ DoClose
  /\ UNCHANGED << browser, termSock, sent, stream, output, quiet, timedOut,
                  recorded, displayed, termHist >>

(* Two goroutines write to the connection at once: gorilla may panic.      *)
Clash == reader \in { "replying", "parting" } /\ (output = "sending" \/ stream = "failing")

ConcurrentWrite ==
  /\ ~crashed /\ Clash /\ crashed' = TRUE
  /\ UNCHANGED << browser, termSock, sent, stream, reader, output, timer, recording, termHist >>

-----------------------------------------------------------------------------
(* The network, the clock and the goroutine that watches the reads.        *)

(* The connection is lost, or the process that held it is gone.            *)
Break ==
  /\ Connected /\ Disconnect
  /\ UNCHANGED << browser, sent, handler, termHist >>

(* Fifteen minutes pass: a page that can sends heartbeats meanwhile.  The  *)
(* timer of watchRead fires at the second tick.                            *)
Tick ==
  /\ watching /\ ~crashed /\ quiet < Timeout
  /\ silent \/ ~beating \/ ~Connected \/ reader # "reading" \/ lull.now = 0
  /\ quiet' = quiet + 1
  /\ lull' = [now |-> IF lull.now < Timeout THEN lull.now + 1 ELSE Timeout,
              most |-> IF lull.now + 1 > lull.most /\ lull.most < Timeout
                       THEN lull.now + 1 ELSE lull.most]
  /\ UNCHANGED << browser, termSock, sent, stream, reader, output, watching, timedOut,
                  crashed, recording, typed >>

(* watchRead: it closes timeoutCh and is called again; closing it a second *)
(* time panics.                                                            *)
Expire ==
  /\ watching /\ ~crashed /\ quiet = Timeout
  /\ IF timedOut THEN crashed' = TRUE /\ UNCHANGED << quiet, timedOut >>
     ELSE timedOut' = TRUE /\ quiet' = 0 /\ UNCHANGED crashed
  /\ UNCHANGED << browser, termSock, sent, stream, reader, output, watching, recording,
                  termHist >>

-----------------------------------------------------------------------------
(* The file manager.                                                       *)

(* beforeUpload.                                                           *)
BeforeUpload(f) ==
  /\ Len(uploads) < MaxUploads
  /\ uploads' = << [name |-> f, marked |-> FALSE, done |-> FALSE] >> \o uploads
  /\ UNCHANGED << props, reruns, beating, silent, termSock, sent, handler, termHist >>

(* handleUploadSuccess: every entry of that name is marked as finished.    *)
UploadSuccess(i) ==
  /\ ~uploads[i].done
  /\ uploads' = [j \in 1 .. Len(uploads) |->
       [uploads[j] EXCEPT !.marked = @ \/ uploads[j].name = uploads[i].name,
                          !.done   = @ \/ j = i]]
  /\ UNCHANGED << props, reruns, beating, silent, termSock, sent, handler, termHist >>

TermNext ==
  \/ TermOpens \/ Heartbeat \/ Type \/ TermRerun \/ TermCloses \/ Silence
  \/ Refuse \/ Make \/ Start \/ StartFails \/ StreamReturns \/ ErrorWritten
  \/ Output \/ AppendOutput \/ SendOutput
  \/ Read \/ InputLost \/ HeartbeatRead \/ Replied \/ ReplyFails \/ Parted \/ ReadFails
  \/ ConcurrentWrite \/ Break \/ Tick \/ Expire
  \/ \E f \in Files : BeforeUpload(f)
  \/ \E i \in 1 .. Len(uploads) : UploadSuccess(i)

TermSpec == TermInit /\ [][TermNext]_termVars

-----------------------------------------------------------------------------
(* The types of the state.                                                 *)
TermTypeOK ==
  /\ props \in Shells /\ reruns \in 0 .. MaxReruns
  /\ termSock \in [st : { "connecting", "open", "closing", "closed" }, of : Shells]
  /\ stream \in { "none", "made", "open", "failing", "over" }
  /\ reader \in { "none", "reading", "replying", "parting", "ended" }
  /\ output \in { "idle", "appending", "sending", "ended" }
  /\ quiet \in 0 .. Timeout /\ lull.now \in 0 .. Timeout /\ lull.most \in 0 .. Timeout
  /\ Len(sent) <= 2 /\ Len(uploads) <= MaxUploads
  /\ recorded \in 0 .. MaxOutputs /\ stored \in 0 .. MaxOutputs

(* What is typed goes to the container that the dialog is about, whatever  *)
(* the terminal is opened in next (the effect of Terminal).                *)
TypedHere == \A t \in typed : t[1] = t[2]

(* The server process panics only after a lull of thirty minutes, or when  *)
(* two goroutines write at once, or one of them stores what another is     *)
(* appending to: never because of a page whose heartbeats get through      *)
(* (watchRead, Read, ConnWrite, doClose).                                  *)
PanicsExplained ==
  crashed => lull.most = Timeout \/ Clash \/ (output = "appending" /\ reader = "ended")

(* A stored recording holds all that the terminal has ever shown: it is    *)
(* stored once and nothing is shown thereafter (ConnWrite, Read, doClose). *)
ShownIsStored == saved => displayed <= stored
=============================================================================
