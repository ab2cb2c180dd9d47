----------------------------- MODULE DescriptorBio -----------------------------
(***************************************************************************)
(* The BIOs that wrap an OS handle (include/CCryptoBoringSSL_bio.h, "File  *)
(* descriptor BIOs", "File BIOs", "Socket BIOs"): a file descriptor, a     *)
(* socket (an fd on POSIX) or a C FILE.  What the header fixes is who      *)
(* closes the handle: the BIO when its close flag is set, the caller       *)
(* otherwise.  Handle numbers are reused: once a handle is closed, the     *)
(* next open may return the same number for a different file.            *)
(*                                                                         *)
(* table[n] is the open file handle n denotes now; a BIO records, besides *)
(* its handle, the file that handle denoted when it was wrapped (file),    *)
(* so that a handle that went stale is visible.  owner[f] is the header's *)
(* account of who must close f, closes[f] what the calls actually did.     *)
(* The caller follows the header's rules: it closes only what it owns,    *)
(* never a handle a live BIO still uses, and it frees a BIO that closes a *)
(* shared handle after the other BIOs on that handle.                     *)
(***************************************************************************)
EXTENDS Integers

CONSTANTS
  Bios,       \* BIO slots (model values)
  FdNums,     \* fd numbers the OS hands out (fds and sockets)
  FilePtrs,   \* FILE pointers fopen hands out
  Files,      \* open-file identities (model values), each opened once
  NoHandle,   \* no handle: BIO_get_fd's -1, a NULL FILE
  NoFile      \* a handle that denotes nothing

Handles == FdNums \cup FilePtrs

\* The handles a BIO of each kind wraps.
Space(k) == IF k = "file" THEN FilePtrs ELSE FdNums

BIO_NOCLOSE == FALSE
BIO_CLOSE == TRUE

VARIABLES
  table,   \* table[n]: the file handle n denotes, or NoFile
  owner,   \* owner[f]: "none" (never opened), "caller" or "bio"
  closes,  \* closes[f]: close/fclose calls on f
  known,   \* the handles the caller has
  bio      \* bio[b]: [st, kind, h, file, close]

vars == <<table, owner, closes, known, bio>>

Live(b) == bio[b].st = "live"
IsOpen(f) == \E n \in Handles : table[n] = f
Users(n) == {b \in Bios : Live(b) /\ bio[b].h = n}
Fresh(f, n) == owner[f] = "none" /\ table[n] = NoFile

\* close(n) or fclose(n): the file is released and the number is free.
CloseHandle(n) ==
  /\ table' = [table EXCEPT ![n] = NoFile]
  /\ closes' = [closes EXCEPT ![table[n]] = @ + 1]
  /\ known' = known \ {n}

(***************************************************************************)
(* The environment: the caller opens a file (open, socket, fopen), which  *)
(* gets any free number, and closes what it owns and no live BIO uses.    *)
(***************************************************************************)
CallerOpen(n, f) ==
  /\ Fresh(f, n)
  /\ table' = [table EXCEPT ![n] = f]
  /\ owner' = [owner EXCEPT ![f] = "caller"]
  /\ known' = known \cup {n}
  /\ UNCHANGED <<closes, bio>>

CallerClose(n) ==
  /\ n \in known /\ table[n] # NoFile /\ owner[table[n]] = "caller"
  /\ Users(n) = {}
  /\ CloseHandle(n)
  /\ UNCHANGED <<owner, bio>>

(***************************************************************************)
(* A BIO takes handle n with close flag c: it closes n when freed iff c.  *)
(* The handle must be the caller's; another BIO may share it.             *)
(***************************************************************************)
Wrap(b, n, c, k) ==
  /\ n \in known /\ n \in Space(k)
  /\ table[n] # NoFile /\ owner[table[n]] = "caller"
  /\ bio' = [bio EXCEPT ![b] = [st |-> "live", kind |-> k, h |-> n,
                                file |-> table[n], close |-> c]]
  /\ owner' = [owner EXCEPT ![table[n]] = IF c THEN "bio" ELSE "caller"]
  /\ UNCHANGED <<table, closes, known>>

\* BIO_new_fd, BIO_new_socket, BIO_new_fp: a new BIO over the caller's handle.
BIO_new_fd(b, n, c) == bio[b].st = "none" /\ Wrap(b, n, c, "fd")
BIO_new_socket(b, n, c) == bio[b].st = "none" /\ Wrap(b, n, c, "socket")
BIO_new_fp(b, n, c) == bio[b].st = "none" /\ Wrap(b, n, c, "file")

\* BIO_new(BIO_s_fd()), BIO_new(BIO_s_socket()), BIO_new(BIO_s_file()):
\* a BIO with no handle yet.
BIO_new(b, k) ==
  /\ bio[b].st = "none"
  /\ bio' = [bio EXCEPT ![b] = [st |-> "live", kind |-> k, h |-> NoHandle,
                                file |-> NoFile, close |-> BIO_NOCLOSE]]
  /\ UNCHANGED <<table, owner, closes, known>>

\* BIO_set_fd (fd and socket BIOs) and BIO_set_fp (file BIOs), on a BIO
\* that has no handle: what they do to a handle already set is not stated.
BIO_set_fd(b, n, c) ==
  /\ Live(b) /\ bio[b].kind \in {"fd", "socket"} /\ bio[b].h = NoHandle
  /\ Wrap(b, n, c, bio[b].kind)

BIO_set_fp(b, n, c) ==
  /\ Live(b) /\ bio[b].kind = "file" /\ bio[b].h = NoHandle
  /\ Wrap(b, n, c, "file")

(***************************************************************************)
(* BIO_new_file, and BIO_read_filename / _write_ / _append_ / _rw_ on a   *)
(* file BIO without a FILE: the BIO fopens the file itself and will       *)
(* fclose it; the caller does not have the FILE.  A failed fopen changes  *)
(* nothing.                                                                *)
(***************************************************************************)
\* Mutant: the BIO fopens the file but is left with BIO_NOCLOSE, so no one
\* fcloses it.
OpenOwnedNoClose(b, n, f) ==
  /\ Fresh(f, n) /\ n \in FilePtrs
  /\ table' = [table EXCEPT ![n] = f]
  /\ owner' = [owner EXCEPT ![f] = "bio"]
  /\ bio' = [bio EXCEPT ![b] = [st |-> "live", kind |-> "file", h |-> n,
                                file |-> f, close |-> BIO_NOCLOSE]]
  /\ UNCHANGED <<closes, known>>

OpenOwned(b, n, f) ==
  /\ Fresh(f, n) /\ n \in FilePtrs
  /\ table' = [table EXCEPT ![n] = f]
  /\ owner' = [owner EXCEPT ![f] = "bio"]
  /\ bio' = [bio EXCEPT ![b] = [st |-> "live", kind |-> "file", h |-> n,
                                file |-> f, close |-> BIO_CLOSE]]
  /\ UNCHANGED <<closes, known>>

BIO_new_file(b, n, f) == bio[b].st = "none" /\ OpenOwned(b, n, f)

BIO_rw_filename(b, n, f) ==
  /\ Live(b) /\ bio[b].kind = "file" /\ bio[b].h = NoHandle
  /\ OpenOwned(b, n, f)

\* BIO_get_fd and BIO_get_fp hand the caller the BIO's handle; BIO_get_fd
\* on a file BIO, or on a BIO without one, returns -1.
GetHandle(b) ==
  /\ Live(b) /\ bio[b].h # NoHandle
  /\ known' = known \cup {bio[b].h}
  /\ UNCHANGED <<table, owner, closes, bio>>

BIO_get_fd(b) == bio[b].kind \in {"fd", "socket"} /\ GetHandle(b)
BIO_get_fp(b) == bio[b].kind = "file" /\ GetHandle(b)

(***************************************************************************)
(* BIO_set_close: under BIO_NOCLOSE the handle becomes the caller's to    *)
(* close, so the caller gives up BIO_CLOSE only once it has the handle;   *)
(* it sets BIO_CLOSE only on a handle no other BIO closes.                *)
(***************************************************************************)
BIO_set_close(b, c) ==
  /\ Live(b) /\ bio[b].h # NoHandle /\ c # bio[b].close
  /\ c = BIO_NOCLOSE => bio[b].h \in known
  /\ c = BIO_CLOSE => owner[bio[b].file] = "caller"
  /\ bio' = [bio EXCEPT ![b].close = c]
  /\ owner' = [owner EXCEPT ![bio[b].file] = IF c THEN "bio" ELSE "caller"]
  /\ UNCHANGED <<table, closes, known>>

(***************************************************************************)
(* BIO_free: under the close flag the handle is closed (close, or fclose  *)
(* for a file BIO).  A BIO that closes a shared handle is freed last.     *)
(***************************************************************************)
\* Mutant: the handle is closed whatever the close flag says.
BIO_freeClosesAlways(b) ==
  /\ Live(b)
  /\ bio[b].close => Users(bio[b].h) = {b}
  /\ bio' = [bio EXCEPT ![b].st = "freed"]
  /\ IF bio[b].h # NoHandle THEN CloseHandle(bio[b].h)
                            ELSE UNCHANGED <<table, closes, known>>
  /\ UNCHANGED owner

BIO_free(b) ==
  /\ Live(b)
  /\ bio[b].close => Users(bio[b].h) = {b}
  /\ bio' = [bio EXCEPT ![b].st = "freed"]
  /\ IF bio[b].close /\ bio[b].h # NoHandle
     THEN CloseHandle(bio[b].h) ELSE UNCHANGED <<table, closes, known>>
  /\ UNCHANGED owner

Init ==
  /\ table = [n \in Handles |-> NoFile]
  /\ owner = [f \in Files |-> "none"]
  /\ closes = [f \in Files |-> 0]
  /\ known = {}
  /\ bio = [b \in Bios |-> [st |-> "none", kind |-> "none", h |-> NoHandle,
                            file |-> NoFile, close |-> BIO_NOCLOSE]]

Next ==
  \/ \E n \in Handles, f \in Files : CallerOpen(n, f)
  \/ \E n \in Handles : CallerClose(n)
  \/ \E b \in Bios :
       \/ \E n \in Handles, c \in BOOLEAN :
            \/ BIO_new_fd(b, n, c) \/ BIO_new_socket(b, n, c)
            \/ BIO_new_fp(b, n, c)
            \/ BIO_set_fd(b, n, c) \/ BIO_set_fp(b, n, c)
       \/ \E k \in {"fd", "socket", "file"} : BIO_new(b, k)
       \/ \E n \in FilePtrs, f \in Files :
            BIO_new_file(b, n, f) \/ BIO_rw_filename(b, n, f)
       \/ BIO_get_fd(b) \/ BIO_get_fp(b)
       \/ \E c \in BOOLEAN : BIO_set_close(b, c)
       \/ BIO_free(b)

Spec == Init /\ [][Next]_vars

-----------------------------------------------------------------------------
(***************************************************************************)
(* Through any interleaving of opens, wraps, BIO_set_close, BIO_get_fd,   *)
(* closes and BIO_free over reused handle numbers, a live BIO's handle    *)
(* still denotes the file it wrapped: no BIO reads or writes through a    *)
(* handle that was closed, or closed and reopened for another file.       *)
(***************************************************************************)
NoStaleHandle ==
  \A b \in Bios :
    Live(b) /\ bio[b].h # NoHandle => table[bio[b].h] = bio[b].file

(***************************************************************************)
(* The close flag means what the header says: no file is closed twice; an *)
(* open file the header gives to a BIO is held by a live BIO that will    *)
(* close it; one it gives to the caller is one the caller has a handle to *)
(* (nothing leaks).                                                        *)
(***************************************************************************)
DescriptorAccounting ==
  \A f \in Files :
    /\ closes[f] <= 1
    /\ IsOpen(f) /\ owner[f] = "bio" =>
         \E b \in Bios : Live(b) /\ bio[b].file = f /\ bio[b].close
    /\ IsOpen(f) /\ owner[f] = "caller" =>
         \E n \in known : table[n] = f

=============================================================================
