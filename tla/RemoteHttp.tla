----------------------------- MODULE RemoteHttp -----------------------------
(***************************************************************************)
(* The requests to one provider and the downloads made of them             *)
(* (integrations/http.py).                                                 *)
(* Threads that read the same provider share a gate: a time before which   *)
(* none may call again, set by every answer that asks for patience, and    *)
(* the turn of the next call.  A call is tried again while its attempts    *)
(* and the seconds it may wait last.                                       *)
(* A file whose listing told its size and hash is downloaded by blocks,    *)
(* while the provider may replace it.  A block is fetched again when the   *)
(* transport drops or the answer is inconsistent.                          *)
(***************************************************************************)
EXTENDS Naturals, Sequences

CONSTANTS
    Calls,
    MaxAttempts, MaxTotalWait, MinInterval, \* RetryPolicy, min_interval_seconds
    Delays,         \* what a server, or the backoff, may ask to wait
    MaxClock,
    Size,           \* Size[v]: the blocks of the v-th version of the file, at least one; the last is shorter
    MaxBlocks,      \* max_bytes
    ChunkRetries

ASSUME TransportAssumption ==
    /\ MaxTotalWait \in Nat /\ MinInterval \in Nat /\ Delays \subseteq Nat
    /\ Size \in Seq(Nat \ {0}) /\ Size # <<>>

VARIABLES
    clock,      \* of the process whose threads share the gate
    notBefore, blockedUntil, \* the gate
    calls,      \* [at, attempt, target, wait, waited, passed] of each call
    version,    \* the version the provider holds
    download,        \* the download: [at, described, hash, known, total, tries]
    dest        \* the version of each block written
gateVars == <<clock, notBefore, blockedUntil, calls>>
downloadVars == <<version, download, dest>>

New == [at |-> "new", attempt |-> 0, target |-> 0, wait |-> 0, waited |-> 0, passed |-> 0]

Greater(m, n) == IF m > n THEN m ELSE n
Beyond(m, n) == IF m > n THEN m - n ELSE 0

GateInit ==
    /\ clock = 0 /\ notBefore = 0 /\ blockedUntil = 0
    /\ calls = [c \in Calls |-> New]

Tick ==
    /\ clock < MaxClock /\ clock' = clock + 1
    /\ UNCHANGED <<notBefore, blockedUntil, calls>>

-----------------------------------------------------------------------------
(* The gate, under its lock.                                               *)

TooLongOnce(call, wait) == wait > MaxTotalWait

TooLong(call, wait) == call.waited + wait > MaxTotalWait

\* A call that would wait past its budget gives up; the turn it took stays taken.
Sleep(c, target, from) ==
    LET wait == Beyond(target, from) IN
    /\ calls' = [calls EXCEPT ![c] = IF TooLong(@, wait) THEN [New EXCEPT !.at = "throttled", !.waited = calls[c].waited]
                                     ELSE [@ EXCEPT !.at = "sleeping", !.target = target, !.wait = wait]]
    /\ notBefore' = Greater(notBefore, target + MinInterval)

Enter(c) ==
    /\ calls[c].at \in {"new", "again"}
    /\ Sleep(c, Greater(clock, Greater(notBefore, blockedUntil)), clock)
    /\ UNCHANGED <<clock, blockedUntil>>

Slept(c) == [calls[c] EXCEPT !.waited = @ + calls[c].wait, !.wait = 0]

Passes(c) == blockedUntil <= calls[c].target

Wake(c) ==
    LET call == Slept(c) IN
    /\ calls[c].at = "sleeping" /\ clock >= calls[c].target
    /\ \/ /\ Passes(c)
          /\ calls' = [calls EXCEPT ![c] = [call EXCEPT !.at = "sent", !.passed = blockedUntil]]
          /\ UNCHANGED notBefore
       \/ /\ ~Passes(c)
          /\ LET wait == Beyond(blockedUntil, Greater(call.target, clock)) IN
             calls' = [calls EXCEPT ![c] =
                        IF TooLong(call, wait) THEN [New EXCEPT !.at = "throttled", !.waited = call.waited]
                        ELSE [call EXCEPT !.target = blockedUntil, !.wait = wait]]
          /\ notBefore' = Greater(notBefore, blockedUntil + MinInterval)
    /\ UNCHANGED <<clock, blockedUntil>>

-----------------------------------------------------------------------------
(* The answer.                                                             *)

Finished(c, how) == calls' = [calls EXCEPT ![c] = [New EXCEPT !.at = how, !.waited = calls[c].waited]]

Answered(c) ==
    /\ calls[c].at = "sent" /\ Finished(c, "answered")
    /\ UNCHANGED <<clock, notBefore, blockedUntil>>

\* An answer that asks for another attempt: a throttled one blocks every call of the provider
\* even if this one tries no more; one for a failure of the server only when it does.
Retryable(c, throttles, delay) ==
    LET call == calls[c]
        gives == call.attempt + 1 = MaxAttempts \/ call.waited + delay > MaxTotalWait
    IN
    /\ call.at = "sent"
    /\ IF gives THEN Finished(c, IF throttles THEN "throttled" ELSE "answered")
       ELSE calls' = [calls EXCEPT ![c] = [call EXCEPT !.at = "again", !.attempt = @ + 1, !.passed = 0, !.target = 0]]
    /\ blockedUntil' = IF throttles \/ ~gives THEN Greater(blockedUntil, clock + delay) ELSE blockedUntil
    /\ UNCHANGED <<clock, notBefore>>

GateNext ==
    \/ Tick
    \/ \E c \in Calls : Enter(c) \/ Wake(c) \/ Answered(c) \/ \E t \in BOOLEAN, d \in Delays : Retryable(c, t, d)

-----------------------------------------------------------------------------
(* A download.                                                             *)

Versions == DOMAIN Size
Unknown == 0
NoDownload == [at |-> "idle", described |-> 1, hash |-> "none", known |-> Unknown, total |-> Unknown, tries |-> 0]

DownloadInit == version = 1 /\ download = NoDownload /\ dest = <<>>

Replace ==
    /\ version + 1 \in Versions /\ version' = version + 1
    /\ UNCHANGED <<download, dest>>

OpenDownload(hash, known) ==
    /\ download.at = "idle"
    /\ download' = [NoDownload EXCEPT !.at = "fetch", !.described = version, !.hash = hash, !.known = known, !.total = known]
    /\ dest' = <<>> /\ UNCHANGED version

MoreBlocks == download.at = "fetch" /\ (download.total = Unknown \/ Len(dest) < download.total)

DownloadFails == download' = [download EXCEPT !.at = "failed"] /\ dest' = <<>>

\* The answer holds the block asked for and may declare the size of the file: another size than
\* before refuses the file, and so does one past the limit.
Block(declares) ==
    LET last == Len(dest) + 1 = Size[version]
        total == IF download.total # Unknown THEN download.total
                 ELSE IF declares \/ last THEN Size[version] ELSE Unknown
    IN
    /\ MoreBlocks /\ Len(dest) < Size[version]
    /\ IF \/ declares /\ download.total \notin {Unknown, Size[version]}
          \/ declares /\ download.total = Unknown /\ Size[version] > MaxBlocks
       THEN DownloadFails
       ELSE download' = [download EXCEPT !.total = total, !.tries = 0] /\ dest' = Append(dest, version)
    /\ UNCHANGED version

\* A server that ignores the range sends the whole file, which is taken if it is the first answer.
Whole ==
    /\ MoreBlocks
    /\ IF dest # <<>> \/ Size[version] > MaxBlocks THEN DownloadFails
       ELSE /\ download' = [download EXCEPT !.total = Size[version], !.tries = 0]
            /\ dest' = [i \in 1..Size[version] |-> version]
    /\ UNCHANGED version

\* The transport drops, or the range answered is not the one asked for.
Dropped ==
    /\ MoreBlocks
    /\ IF download.tries + 1 = ChunkRetries THEN DownloadFails ELSE download' = [download EXCEPT !.tries = @ + 1] /\ UNCHANGED dest
    /\ UNCHANGED version

\* Any other status, of which a range past the end of the file.
Refused == MoreBlocks /\ DownloadFails /\ UNCHANGED version

\* md5, sha1 and sha256 must be those of the file described; quickxor only warns.
HashMatches(content) ==
    download.hash = "strong" => content = [i \in 1..Size[download.described] |-> download.described]

Verify ==
    /\ download.at = "fetch" /\ download.total # Unknown /\ Len(dest) >= download.total
    /\ IF Len(dest) = download.total /\ HashMatches(dest)
       THEN download' = [download EXCEPT !.at = "done"] /\ UNCHANGED dest
       ELSE DownloadFails
    /\ UNCHANGED version

DownloadNext ==
    \/ Replace
    \/ \E h \in {"strong", "quick", "none"} : OpenDownload(h, Unknown) \/ OpenDownload(h, Size[version])
    \/ \E d \in BOOLEAN : Block(d)
    \/ Whole \/ Dropped \/ Refused \/ Verify

TransportSpec ==
    /\ GateInit /\ DownloadInit
    /\ [][\/ GateNext /\ UNCHANGED downloadVars
          \/ DownloadNext /\ UNCHANGED gateVars]_<<gateVars, downloadVars>>

-----------------------------------------------------------------------------
(* Properties.                                                             *)

\* However often a sibling moves the block, a call waits no longer in all than its budget, over
\* all its attempts (http.py:105-136, :232-251).
WaitsWithinBudget == \A c \in Calls : calls[c].waited <= MaxTotalWait

\* A call is sent only after the end of every block that was set by the time it left the gate
\* (http.py:245-254).
SentAfterBlocks == \A c \in Calls : calls[c].at = "sent" => calls[c].passed <= clock

\* What a download returns under a hash is the file that was described, whole and of one version,
\* whatever was replaced meanwhile and however its blocks came (http.py:192-219, :291-307).
ReturnsTheFileDescribed ==
    download.at = "done" /\ download.hash = "strong" =>
        /\ Len(dest) = Size[download.described]
        /\ \A i \in DOMAIN dest : dest[i] = download.described

\* Requests and downloads together (http.py:105-136, :192-219, :232-251): no call waits past its
\* budget or is sent into a block it could know of, and what comes back under a hash is the file
\* described.
TransportKept == WaitsWithinBudget /\ SentAfterBlocks /\ ReturnsTheFileDescribed
=============================================================================
