----------------------------- MODULE BufferCmds -----------------------------
(***************************************************************************)
(* The asynchronous commands on buffers (SC_SequencedCommand.cpp).         *)
(*                                                                         *)
(* A command goes through four stages that alternate between the audio     *)
(* thread and the NRT thread: stage 1 (RT) when it is received, stage 2    *)
(* (NRT) where memory is allocated and files are read and written, stage 3 *)
(* (RT) where the result is put into the engine, stage 4 (NRT) where what  *)
(* it replaced is freed and the client is told.  The command travels in    *)
(* mFromEngine and mToEngine between them, and commands for the same       *)
(* buffer follow one another without waiting.                              *)
(*                                                                         *)
(* Each thread has a copy of every buffer's SndBuf: mSndBufs is the audio  *)
(* thread's, mSndBufsNonRealTimeMirror the NRT thread's.  The units read   *)
(* the memory that mSndBufs points to at any time.                         *)
(***************************************************************************)
EXTENDS Naturals, Sequences, FiniteSets

CONSTANTS
    Buf,         \* the buffers
    MaxCmds,     \* bound on the number of commands
    Uses         \* the ways in which the server is used, see Use

AllKinds == {"b_alloc", "b_allocRead", "b_allocReadChannel", "b_gen", "b_free",
             "b_zero", "b_read", "b_readChannel", "b_write", "b_close", "sync"}

Use == [kinds : SUBSET AllKinds,       \* the commands that clients send
        completions : SUBSET (AllKinds \cup {"none"}),
                                       \* the completion messages they put in
        mayLose : BOOLEAN,             \* a FIFO can be full when a command is sent
        mayQuit : BOOLEAN]             \* the server may be quit

ASSUME CmdAssumption == MaxCmds \in Nat /\ Uses \subseteq Use

\* mSndBufs is an array of mNumSndBufs of them.
ASSUME BufAssumption == IsFiniteSet(Buf)

VARIABLES
    use,         \* how the server is used, the same all the time
    mirror,      \* mSndBufsNonRealTimeMirror
    snd,         \* mSndBufs
    cmds,        \* the commands received so far
    toNRT,       \* mFromEngine: the commands in it
    toRT,        \* mToEngine: the commands in it, and whether to delete them
    live,        \* the memory that is allocated
    freed,       \* how often each memory was freed
    open,        \* the sound files that are open
    closed,      \* how often each sound file was closed
    lost,        \* whether a command was lost
    noSamples,   \* whether a buffer without samples was asked for
    up           \* whether the server is up

vars == <<use, mirror, snd, cmds, toNRT, toRT, live, freed, open, closed, lost,
          noSamples, up>>
fileVars == <<open, closed>>

\* A command allocates memory, and opens a file, at most once: both are named
\* after the command.
Nothing == 0
Name == 1 .. MaxCmds
SndBuf == [data : Name \cup {Nothing}, sndfile : Name \cup {Nothing}]

\* SndBuf_Init
EmptyBuf == [data |-> Nothing, sndfile |-> Nothing]

Init ==
    /\ use \in Uses
    /\ mirror = [b \in Buf |-> EmptyBuf] /\ snd = [b \in Buf |-> EmptyBuf]
    /\ cmds = <<>> /\ toNRT = <<>> /\ toRT = <<>>
    /\ live = {} /\ freed = [x \in Name |-> 0]
    /\ open = {} /\ closed = [x \in Name |-> 0]
    /\ lost = FALSE /\ noSamples = FALSE /\ up = TRUE

\* zfree and sf_close, of a pointer that may be null.
SeqIf(x) == IF x = Nothing THEN <<>> ELSE <<x>>

\* How often x is in the sequence s.
Times(s, x) == Cardinality({i \in DOMAIN s : s[i] = x})
-----------------------------------------------------------------------------
(***************************************************************************)
(* Stage 1.  SendMsgFromEngine and SendMsgToEngine return false when the   *)
(* FIFO is full, which CallNextStage ignores: the command is lost.         *)
(***************************************************************************)
\* Slip: a message is written before the others.
SentFirst(q, x) == {<<x>> \o q}

Sent(q, x) == {Append(q, x)} \cup (IF use.mayLose THEN {q} ELSE {})

Command(kind, b, leaveOpen, completion) ==
    [kind |-> kind, buf |-> b, mLeaveFileOpen |-> leaveOpen, completion |-> completion,
     mNextStage |-> 2, mFreeData |-> Nothing, mSndBuf |-> EmptyBuf, reply |-> "none"]

LeavesOpen(kind) == IF kind \in {"b_read", "b_readChannel", "b_write"} THEN BOOLEAN ELSE {FALSE}
HasCompletion(kind) == kind \notin {"b_gen", "sync"}

CallSequencedCommand ==
    /\ up
    /\ Len(cmds) < MaxCmds
    /\ \E kind \in use.kinds, b \in Buf, completion \in use.completions :
          /\ completion # "none" => HasCompletion(kind)
          /\ \E leaveOpen \in LeavesOpen(kind) :
                cmds' = Append(cmds, Command(kind, b, leaveOpen, completion))
    /\ toNRT' \in Sent(toNRT, Len(cmds'))
    /\ lost' = (lost \/ toNRT' = toNRT)
    /\ UNCHANGED <<mirror, snd, toRT, live, freed, fileVars, noSamples, up>>
-----------------------------------------------------------------------------
(***************************************************************************)
(* Stage 2: for command c, the set of the ways it can go.  Each says what  *)
(* becomes of the mirror's SndBuf, of mFreeData, which memory is allocated *)
(* and which files are opened and closed, and whether the command goes on. *)
(***************************************************************************)
Mirror(c) == mirror[cmds[c].buf]

NoChange(c) ==
    [buf |-> Mirror(c), mFreeData |-> Nothing, alloc |-> {}, opened |-> {},
     shut |-> <<>>, sendAgain |-> TRUE, noSamples |-> FALSE]

\* SendFailure, and the command ends.
Failing(c) == {[NoChange(c) EXCEPT !.sendAgain = FALSE]}

\* bufAlloc, whose caller has put the old memory in mFreeData.  It leaves the
\* SndBuf alone if no samples are asked for.  There is memory enough.
bufAlloc(c) ==
    LET old == [NoChange(c) EXCEPT !.mFreeData = Mirror(c).data]
    IN  {[old EXCEPT !.buf.data = c, !.alloc = {c}], [old EXCEPT !.noSamples = TRUE]}

BufAlloc_Stage2(c) == bufAlloc(c)

BufAllocRead_Stage2(c) == Failing(c) \cup bufAlloc(c)

\* Without channels as b_allocRead; with channels out of range it fails.
BufAllocReadChannel_Stage2(c) == Failing(c) \cup bufAlloc(c)

\* The generator fills the memory in place, or it gives the buffer new memory.
BufGen_Stage2(c) ==
    {NoChange(c),
     [NoChange(c) EXCEPT !.buf.data = c, !.alloc = {c}, !.mFreeData = Mirror(c).data]}

\* A slip: the memory to free is looked up after the SndBuf was cleared.
BufFree_Stage2Late(c) ==
    {[NoChange(c) EXCEPT !.buf = EmptyBuf, !.shut = SeqIf(Mirror(c).sndfile)]}

BufFree_Stage2(c) ==
    {[NoChange(c) EXCEPT !.buf = EmptyBuf, !.mFreeData = Mirror(c).data,
                         !.shut = SeqIf(Mirror(c).sndfile)]}

BufZero_Stage2(c) == {NoChange(c)}

\* A slip: the handle is kept whether the file is left open or not.
ReopeningKept(c) ==
    [NoChange(c) EXCEPT !.buf.sndfile = c, !.opened = {c},
        !.shut = SeqIf(Mirror(c).sndfile) \o IF cmds[c].mLeaveFileOpen THEN <<>> ELSE <<c>>]

\* The file just opened replaces the one left open before, and is closed
\* itself unless it is to be left open.
Reopening(c) ==
    IF cmds[c].mLeaveFileOpen
    THEN [NoChange(c) EXCEPT !.buf.sndfile = c, !.opened = {c},
                             !.shut = SeqIf(Mirror(c).sndfile)]
    ELSE [NoChange(c) EXCEPT !.buf.sndfile = Nothing, !.opened = {c},
                             !.shut = SeqIf(Mirror(c).sndfile) \o <<c>>]

\* No frames to read into; or no such file, or the wrong channels; or success,
\* except that no file has as few channels as a buffer without memory.
Reading(c) ==
    {NoChange(c)} \cup Failing(c) \cup
    (IF Mirror(c).data = Nothing THEN {} ELSE {Reopening(c)})

BufRead_Stage2(c) == Reading(c)

\* The buffer's channels are not looked at: with a negative offset, and no frames
\* to read, the file is opened for a buffer without memory too.
BufReadChannel_Stage2(c) == Reading(c) \cup {Reopening(c)}

\* A file for no channels cannot be opened.
BufWrite_Stage2(c) ==
    Failing(c) \cup (IF Mirror(c).data = Nothing THEN {} ELSE {Reopening(c)})

BufClose_Stage2(c) ==
    {[NoChange(c) EXCEPT !.buf.sndfile = Nothing, !.shut = SeqIf(Mirror(c).sndfile)]}

Sync_Stage2(c) == {NoChange(c)}

Stage2(c) ==
    CASE cmds[c].kind = "b_alloc" -> BufAlloc_Stage2(c)
      [] cmds[c].kind = "b_allocRead" -> BufAllocRead_Stage2(c)
      [] cmds[c].kind = "b_allocReadChannel" -> BufAllocReadChannel_Stage2(c)
      [] cmds[c].kind = "b_gen" -> BufGen_Stage2(c)
      [] cmds[c].kind = "b_free" -> BufFree_Stage2(c)
      [] cmds[c].kind = "b_zero" -> BufZero_Stage2(c)
      [] cmds[c].kind = "b_read" -> BufRead_Stage2(c)
      [] cmds[c].kind = "b_readChannel" -> BufReadChannel_Stage2(c)
      [] cmds[c].kind = "b_write" -> BufWrite_Stage2(c)
      [] cmds[c].kind = "b_close" -> BufClose_Stage2(c)
      [] cmds[c].kind = "sync" -> Sync_Stage2(c)

CallStage2 ==
    /\ up
    /\ toNRT # <<>>
    /\ LET c == Head(toNRT)
       IN  /\ cmds[c].mNextStage = 2
           /\ \E o \in Stage2(c) :
                 /\ noSamples' = (noSamples \/ o.noSamples)
                 /\ mirror' = [mirror EXCEPT ![cmds[c].buf] = o.buf]
                 /\ live' = live \cup o.alloc
                 /\ open' = (open \cup o.opened) \ {o.shut[i] : i \in DOMAIN o.shut}
                 /\ closed' = [x \in Name |-> closed[x] + Times(o.shut, x)]
                 /\ cmds' = [cmds EXCEPT ![c].mFreeData = o.mFreeData,
                                         ![c].mSndBuf = o.buf,
                                         ![c].mNextStage = 3,
                                         ![c].reply = IF o.sendAgain THEN @ ELSE "/fail"]
                 /\ toRT' \in Sent(toRT, [cmd |-> c, delete |-> ~o.sendAgain])
    /\ toNRT' = Tail(toNRT)
    /\ lost' = (lost \/ toRT' = toRT)
    /\ UNCHANGED <<snd, freed, up>>
-----------------------------------------------------------------------------
(***************************************************************************)
(* Stage 3, in the audio thread.  A command that ended in stage 2 comes    *)
(* here to be deleted.                                                     *)
(***************************************************************************)
Installs(kind) == kind \in {"b_alloc", "b_allocRead", "b_allocReadChannel", "b_gen"}

\* A slip: b_free leaves the audio thread's SndBuf alone.
Stage3BufKept(c) == IF Installs(cmds[c].kind) THEN cmds[c].mSndBuf ELSE snd[cmds[c].buf]

\* What stage 3 makes of the audio thread's SndBuf, as far as it is modelled.
Stage3Buf(c) ==
    CASE Installs(cmds[c].kind) -> cmds[c].mSndBuf
      [] cmds[c].kind = "b_free" -> EmptyBuf
      [] OTHER -> snd[cmds[c].buf]

\* The completion message is performed at once and comes before the command's
\* own stage 4, if it is for a command of its own, for the same buffer.
CallStage3 ==
    /\ up
    /\ toRT # <<>>
    /\ LET c == Head(toRT).cmd
           again == [cmds EXCEPT ![c].mNextStage = 4]
       IN  /\ ~Head(toRT).delete
           /\ snd' = [snd EXCEPT ![cmds[c].buf] = Stage3Buf(c)]
           /\ IF cmds[c].completion = "none" \/ Len(cmds) = MaxCmds
              THEN /\ cmds' = again
                   /\ toNRT' \in Sent(toNRT, c)
                   /\ lost' = (lost \/ toNRT' = toNRT)
              ELSE /\ cmds' = Append(again, Command(cmds[c].completion, cmds[c].buf,
                                                    FALSE, "none"))
                   /\ \E q \in Sent(toNRT, Len(cmds')) :
                         /\ toNRT' \in Sent(q, c)
                         /\ lost' = (lost \/ q = toNRT \/ toNRT' = q)
    /\ toRT' = Tail(toRT)
    /\ UNCHANGED <<mirror, live, freed, fileVars, noSamples, up>>

FreeSequencedCommand ==
    /\ up
    /\ toRT # <<>>
    /\ Head(toRT).delete
    /\ toRT' = Tail(toRT)
    /\ UNCHANGED <<mirror, snd, cmds, toNRT, live, freed, fileVars, lost, noSamples, up>>
-----------------------------------------------------------------------------
(***************************************************************************)
(* Stage 4: what was replaced is freed, the client told, and the command   *)
(* sent back to be deleted.                                                *)
(***************************************************************************)
CallStage4 ==
    /\ up
    /\ toNRT # <<>>
    /\ LET c == Head(toNRT)
       IN  /\ cmds[c].mNextStage = 4
           /\ live' = live \ {cmds[c].mFreeData}
           /\ freed' = [x \in Name |-> freed[x] + Times(SeqIf(cmds[c].mFreeData), x)]
           /\ cmds' = [cmds EXCEPT ![c].reply = "/done"]
           /\ toRT' \in Sent(toRT, [cmd |-> c, delete |-> TRUE])
    /\ toNRT' = Tail(toNRT)
    /\ lost' = (lost \/ toRT' = toRT)
    /\ UNCHANGED <<mirror, snd, fileVars, noSamples, up>>

\* How often World_Cleanup frees the memory x, or closes the file x: the
\* mirror's, and the audio thread's if it is another one, of every buffer.
CleanedUp(ofMirror, ofSnd, x) ==
    Cardinality({b \in Buf : ofMirror[b] = x})
    + Cardinality({b \in Buf : ofSnd[b] = x /\ ofSnd[b] # ofMirror[b]})

World_Cleanup ==
    LET data(bufs) == [b \in Buf |-> bufs[b].data]
        file(bufs) == [b \in Buf |-> bufs[b].sndfile]
        all(f, g) == {f[b] : b \in Buf} \cup {g[b] : b \in Buf}
    IN  /\ use.mayQuit
        /\ up
        /\ up' = FALSE
        /\ live' = live \ all(data(mirror), data(snd))
        /\ freed' = [x \in Name |-> freed[x] + CleanedUp(data(mirror), data(snd), x)]
        /\ open' = open \ all(file(mirror), file(snd))
        /\ closed' = [x \in Name |-> closed[x] + CleanedUp(file(mirror), file(snd), x)]
        /\ UNCHANGED <<mirror, snd, cmds, toNRT, toRT, lost, noSamples>>
-----------------------------------------------------------------------------
NRT == CallStage2 \/ CallStage4
RT == CallStage3 \/ FreeSequencedCommand

Next ==
    /\ CallSequencedCommand \/ NRT \/ RT \/ World_Cleanup
    /\ UNCHANGED use

Spec == Init /\ [][Next]_vars
-----------------------------------------------------------------------------
(***************************************************************************)
(* Properties.                                                             *)
(***************************************************************************)
Cmd == DOMAIN cmds

\* Buffers, commands and FIFOs hold what they should.
TypeOK ==
    /\ mirror \in [Buf -> SndBuf] /\ snd \in [Buf -> SndBuf]
    /\ Len(cmds) <= MaxCmds
    /\ \A c \in Cmd : cmds[c].mNextStage \in 2 .. 4 /\ cmds[c].mSndBuf \in SndBuf
    /\ \A i \in DOMAIN toNRT : toNRT[i] \in Cmd /\ cmds[toNRT[i]].mNextStage \in {2, 4}
    /\ \A i \in DOMAIN toRT :
          toRT[i].cmd \in Cmd /\ (toRT[i].delete \/ cmds[toRT[i].cmd].mNextStage = 3)
    /\ live \subseteq Name /\ open \subseteq Name
    /\ freed \in [Name -> Nat] /\ closed \in [Name -> Nat]

\* Neither thread's buffers ever point to memory that was freed, whatever
\* commands are under way or were lost: units may read it at any time.  The
\* exception is a buffer allocated without samples over one that has some.
NeverDangling ==
    up /\ ~noSamples => \A b \in Buf : {mirror[b].data, snd[b].data} \subseteq live \cup {Nothing}

\* No memory is freed twice, not even if the server is quit with commands
\* under way.  No command closes a sound file that was closed before: the
\* handle is taken out of the mirror, whatever stage 3 of other commands
\* copies.  (Quitting the server closes what the audio thread's copies still
\* point to.)
ReleasedOnce ==
    /\ ~noSamples => \A x \in Name : freed[x] <= 1
    /\ up => \A x \in Name : closed[x] <= 1

\* When all commands have ended and none was lost, the two threads agree on
\* the memory of every buffer, no other memory is left, and every command was
\* answered, with /done or /fail.
Settled ==
    (up /\ ~lost /\ toNRT = <<>> /\ toRT = <<>>) =>
        /\ \A b \in Buf : mirror[b].data = snd[b].data
        /\ ~noSamples => live = {snd[b].data : b \in Buf} \ {Nothing}
        /\ \A c \in Cmd : cmds[c].reply # "none"

\* "Replies with a /synced message when all asynchronous commands received
\* before this one have completed": a sync that has replied has not overtaken
\* anything, if nothing was lost.
SyncedIsSynced ==
    ~lost => \A c \in Cmd : (cmds[c].kind = "sync" /\ cmds[c].reply = "/done") =>
                 \A d \in 1 .. c - 1 : cmds[d].reply # "none"
=============================================================================
