------------------------------- MODULE BioRetry ------------------------------
(***************************************************************************)
(* The retry-flag protocol of include/CCryptoBoringSSL_bio.h on a chain    *)
(* filter -> conn: a pass-through filter BIO over a connect BIO, read by a *)
(* caller that follows the protocol: after a call returns <= 0 it asks     *)
(* BIO_should_retry, and then BIO_should_read or BIO_should_io_special     *)
(* with BIO_get_retry_reason, what to wait for before calling again.       *)
(*                                                                         *)
(* The flags word is a set of flag names: the retry bits BIO_FLAGS_READ,   *)
(* _WRITE, _IO_SPECIAL, _SHOULD_RETRY, and method-specific bits (such as   *)
(* BIO_FLAGS_BASE64_NO_NL on a filter) that share the word with them.      *)
(* The network side (connection set-up, bytes arriving, the peer closing)  *)
(* is the environment.                                                      *)
(***************************************************************************)
EXTENDS Naturals, BioFlags

CONSTANTS
  MaxData,      \* bytes the peer sends before closing
  MethodBits    \* method-specific flag bits the filter may carry

VARIABLES
  flags,     \* flags[b] for b \in {"filter", "conn"}
  reason,    \* retry_reason[b]
  nbio,      \* whether the connect BIO uses non-blocking I/O (BIO_set_nbio)
  conn,      \* connection: "unconnected", "connecting", "connected", "failed"
  avail,     \* bytes received by the socket and not yet read
  sent,      \* bytes the peer has sent
  closed,    \* the peer has closed its side
  got,       \* bytes the caller has read
  ret,       \* what the caller's last call returned: "data", "eof", "fail"
  cpc        \* caller: "setup", "call", "check", "done" or "failed"

vars == <<flags, reason, nbio, conn, avail, sent, closed, got, ret, cpc>>

Bios == {"filter", "conn"}


BIO_should_retry(b) == "SHOULD_RETRY" \in flags[b]
BIO_should_read(b) == "READ" \in flags[b]
BIO_should_io_special(b) == "IO_SPECIAL" \in flags[b]

(***************************************************************************)
(* The connect BIO's read, as the outcome it has on the flags word, the    *)
(* retry reason, the connection and the socket: a record.  It clears the   *)
(* retry flags, then, if not connected yet, first connects: a non-blocking *)
(* connect that has not completed sets the special retry with reason       *)
(* BIO_RR_CONNECT; a failed one is a permanent error.  Once connected it   *)
(* reads n of the available bytes, returns 0 when the peer has closed and  *)
(* everything was read, or sets the read retry when nothing is there yet.  *)
(* A blocking BIO does not return until one of these can happen (the      *)
(* guard of CanReturn).                                                    *)
(***************************************************************************)
\* Mutant: a non-blocking read never starts the connection.
ConnReadNoConnect(n) ==
  LET f == BIO_clear_retry_flags(flags["conn"]) IN
  CASE conn \in {"unconnected", "connecting"} /\ nbio ->
         [ret |-> "fail", flags |-> BIO_set_retry_special(f),
          reason |-> BIO_RR_CONNECT, conn |-> conn, n |-> 0]
    [] conn = "failed" ->
         [ret |-> "fail", flags |-> f, reason |-> reason["conn"],
          conn |-> conn, n |-> 0]
    [] conn = "connected" /\ avail > 0 ->
         [ret |-> "data", flags |-> f, reason |-> reason["conn"],
          conn |-> conn, n |-> n]
    [] conn = "connected" /\ avail = 0 /\ closed ->
         [ret |-> "eof", flags |-> f, reason |-> reason["conn"],
          conn |-> conn, n |-> 0]
    [] conn = "connected" /\ avail = 0 /\ ~closed ->
         [ret |-> "fail", flags |-> BIO_set_retry_read(f),
          reason |-> reason["conn"], conn |-> conn, n |-> 0]

ConnRead(n) ==
  LET f == BIO_clear_retry_flags(flags["conn"]) IN
  CASE conn \in {"unconnected", "connecting"} /\ nbio ->
         [ret |-> "fail", flags |-> BIO_set_retry_special(f),
          reason |-> BIO_RR_CONNECT, conn |-> "connecting", n |-> 0]
    [] conn = "failed" ->
         [ret |-> "fail", flags |-> f, reason |-> reason["conn"],
          conn |-> conn, n |-> 0]
    [] conn = "connected" /\ avail > 0 ->
         [ret |-> "data", flags |-> f, reason |-> reason["conn"],
          conn |-> conn, n |-> n]
    [] conn = "connected" /\ avail = 0 /\ closed ->
         [ret |-> "eof", flags |-> f, reason |-> reason["conn"],
          conn |-> conn, n |-> 0]
    [] conn = "connected" /\ avail = 0 /\ ~closed ->
         [ret |-> "fail", flags |-> BIO_set_retry_read(f),
          reason |-> reason["conn"], conn |-> conn, n |-> 0]

\* A blocking connect BIO's read returns only once it has an answer.
CanReturn ==
  \/ nbio
  \/ conn = "failed"
  \/ conn = "connected" /\ (avail > 0 \/ closed)


\* Mutant: the filter returns the bytes without consuming them from the
\* connect BIO's input.
FilterReadNoConsume ==
  /\ cpc = "call"
  /\ CanReturn
  /\ \E n \in 1..avail \cup {0} :
       /\ (avail > 0) = (n > 0)
       /\ LET r == ConnRead(n)
              own == BIO_clear_retry_flags(flags["filter"])
          IN
          /\ flags' = [flags EXCEPT
                         !["conn"] = r.flags,
                         !["filter"] = IF r.ret = "data" THEN own
                                       ELSE BIO_copy_next_retry(own, r.flags)]
          /\ reason' = [reason EXCEPT
                          !["conn"] = r.reason,
                          !["filter"] = IF r.ret = "data" THEN @ ELSE r.reason]
          /\ conn' = r.conn
          /\ avail' = avail
          /\ got' = got + r.n
          /\ ret' = r.ret
  /\ cpc' = "check"
  /\ UNCHANGED <<nbio, sent, closed>>

(***************************************************************************)
(* The caller's BIO_read on the filter.  The filter clears its own retry   *)
(* flags, reads from the connect BIO and, when that returned <= 0, copies  *)
(* the connect BIO's retry state with BIO_copy_next_retry.                 *)
(***************************************************************************)
FilterRead ==
  /\ cpc = "call"
  /\ CanReturn
  /\ \E n \in 1..avail \cup {0} :
       /\ (avail > 0) = (n > 0)
       /\ LET r == ConnRead(n)
              own == BIO_clear_retry_flags(flags["filter"])
          IN
          /\ flags' = [flags EXCEPT
                         !["conn"] = r.flags,
                         !["filter"] = IF r.ret = "data" THEN own
                                       ELSE BIO_copy_next_retry(own, r.flags)]
          /\ reason' = [reason EXCEPT
                          !["conn"] = r.reason,
                          !["filter"] = IF r.ret = "data" THEN @ ELSE r.reason]
          /\ conn' = r.conn
          /\ avail' = avail - r.n
          /\ got' = got + r.n
          /\ ret' = r.ret
  /\ cpc' = "check"
  /\ UNCHANGED <<nbio, sent, closed>>

(***************************************************************************)
(* The caller inspects the result: data, read again; 0 is the end of the  *)
(* stream; < 0 with BIO_should_retry is waited out (for the connection    *)
(* when BIO_should_io_special with BIO_RR_CONNECT, for input when           *)
(* BIO_should_read) and the read is retried; < 0 otherwise is an error.    *)
(***************************************************************************)
CallerCheck ==
  /\ cpc = "check"
  /\ cpc' = CASE ret = "data" -> "call"
              [] ret = "eof" -> "done"
              [] ret = "fail" /\ BIO_should_retry("filter") -> "call"
              [] ret = "fail" /\ ~BIO_should_retry("filter") -> "failed"
  /\ UNCHANGED <<flags, reason, nbio, conn, avail, sent, closed, got, ret>>

\* The caller sets up the BIO before its first read: BIO_set_nbio, which
\* only takes effect before the BIO is connected (on = FALSE: the default).
BIO_set_nbio(on) ==
  /\ cpc = "setup"
  /\ conn = "unconnected"
  /\ nbio' = on
  /\ cpc' = "call"
  /\ UNCHANGED <<flags, reason, conn, avail, sent, closed, got, ret>>

\* The caller sets or clears a method-specific bit of the filter.
SetMethodBit(bit) ==
  /\ flags' = [flags EXCEPT !["filter"] =
                 IF bit \in @ THEN BIO_clear_flags(@, {bit})
                 ELSE BIO_set_flags(@, {bit})]
  /\ UNCHANGED <<reason, nbio, conn, avail, sent, closed, got, ret, cpc>>

(***************************************************************************)
(* The network.  A blocking connect runs inside the read; a non-blocking   *)
(* one started by a read completes or fails later.                          *)
(***************************************************************************)
ConnectDone ==
  /\ \/ conn = "connecting"
     \/ conn = "unconnected" /\ ~nbio /\ cpc = "call"
  /\ \E ok \in BOOLEAN : conn' = IF ok THEN "connected" ELSE "failed"
  /\ UNCHANGED <<flags, reason, nbio, avail, sent, closed, got, ret, cpc>>

Arrive ==
  /\ conn = "connected"
  /\ sent < MaxData
  /\ sent' = sent + 1
  /\ avail' = avail + 1
  /\ UNCHANGED <<flags, reason, nbio, conn, closed, got, ret, cpc>>

PeerClose ==
  /\ conn = "connected"
  /\ sent = MaxData
  /\ ~closed
  /\ closed' = TRUE
  /\ UNCHANGED <<flags, reason, nbio, conn, avail, sent, got, ret, cpc>>

Init ==
  /\ flags \in {[b \in Bios |-> IF b = "filter" THEN m ELSE {}] : m \in SUBSET MethodBits}
  /\ reason = [b \in Bios |-> 0]
  /\ nbio = FALSE
  /\ conn = "unconnected"
  /\ avail = 0
  /\ sent = 0
  /\ closed = FALSE
  /\ got = 0
  /\ ret = "data"
  /\ cpc = "setup"

Next ==
  \/ FilterRead
  \/ CallerCheck
  \/ \E on \in BOOLEAN : BIO_set_nbio(on)
  \/ \E bit \in MethodBits : SetMethodBit(bit)
  \/ ConnectDone
  \/ Arrive
  \/ PeerClose

\* The network eventually completes a connection, delivers what the peer
\* sent and the close; the caller keeps calling while it has work.
Fairness ==
  /\ WF_vars(ConnectDone) /\ WF_vars(Arrive) /\ WF_vars(PeerClose)
  /\ WF_vars(FilterRead) /\ WF_vars(CallerCheck)
  /\ WF_vars(\E on \in BOOLEAN : BIO_set_nbio(on))

Spec == Init /\ [][Next]_vars /\ Fairness

-----------------------------------------------------------------------------
TypeOK ==
  /\ flags \in [Bios -> SUBSET (RetryBits \cup MethodBits)]
  /\ reason \in [Bios -> {0, BIO_RR_CONNECT, BIO_RR_ACCEPT}]
  /\ nbio \in BOOLEAN
  /\ conn \in {"unconnected", "connecting", "connected", "failed"}
  /\ avail \in 0..MaxData /\ sent \in 0..MaxData /\ got \in 0..MaxData
  /\ closed \in BOOLEAN
  /\ ret \in {"data", "eof", "fail"}
  /\ cpc \in {"setup", "call", "check", "done", "failed"}

(***************************************************************************)
(* When the caller looks at the filter after a read, its retry flags say   *)
(* what that read found, through the filter and BIO_copy_next_retry: none  *)
(* after data, EOF or a permanent error; READ with SHOULD_RETRY when no    *)
(* input was there yet; IO_SPECIAL with SHOULD_RETRY and reason            *)
(* BIO_RR_CONNECT while the non-blocking connect is under way.  Nothing    *)
(* left over from an earlier call.                                          *)
(***************************************************************************)
RetryFlagsDescribeLastCall ==
  cpc = "check" =>
    LET rf == BIO_get_retry_flags(flags["filter"]) IN
    \/ ret \in {"data", "eof"} /\ rf = {}
    \/ ret = "fail" /\ rf = {} /\ conn = "failed"
    \/ ret = "fail" /\ rf = {"READ", "SHOULD_RETRY"} /\ conn = "connected"
    \/ ret = "fail" /\ rf = {"IO_SPECIAL", "SHOULD_RETRY"}
                    /\ reason["filter"] = BIO_RR_CONNECT

(***************************************************************************)
(* A caller that follows the retry protocol gives up only on a permanent   *)
(* error (the connection failed), and reaches the end of the stream only  *)
(* after reading every byte the peer sent.                                 *)
(***************************************************************************)
CallerOutcomeCorrect ==
  /\ cpc = "failed" => conn = "failed"
  /\ cpc = "done" => got = MaxData

\* The caller's read loop ends: the stream is read to its end or the
\* connection failed; it never waits on a retry that cannot succeed.
CallerTerminates == <>(cpc \in {"done", "failed"})

=============================================================================
