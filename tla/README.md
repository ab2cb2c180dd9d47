# TLA+ models of the BIO layer of swift-crypto's vendored BoringSSL

The sampled source is two files:

- `src/Sources/CCryptoBoringSSL/include/CCryptoBoringSSL_bio.h`: the BIO API.
  Every function is declared with a comment that states its contract
  (reference counting, chains, retry flags, memory/fd/file/socket/connect
  BIOs, BIO pairs, custom methods, control codes, flag bits).
- `src/Sources/CCryptoBoringSSL/crypto/x509/v3_akeya.cc`: the ASN.1 template
  of the X.509 AuthorityKeyIdentifier extension.

The implementation files (`bio.cc`, `connect.cc`, `mem.cc`, ...) are not
in the sample. The models translate the contracts the header states. The
few steps that only the implementation fixes are marked `spec_modelled` in
`PROJECT.json`; they follow `spec.md`.

## Inventory

### Components, their state and operations

| Component | State | Operations (header lines) |
|---|---|---|
| Allocation and reference counting | per BIO: `references`, `method`, `init`, `shutdown`, data pointer | `BIO_new` 39-41, `BIO_free`/`BIO_vfree` 43-55, `BIO_up_ref` 57-58, `BIO_free_all` 241-244 |
| Chains | per BIO: `next_bio` (owning link) | `BIO_push` 224-229, `BIO_pop` 231-235, `BIO_next` 237-239, `BIO_find_type` 246-248, `BIO_copy_next_retry` 250-252 |
| Basic I/O and retry flags | per BIO: `flags` word (READ, WRITE, IO_SPECIAL, SHOULD_RETRY and method bits), `retry_reason`, `num_read`, `num_write` | `BIO_read`, `BIO_gets`, `BIO_write`, `BIO_write_all`, `BIO_puts`, `BIO_flush` 61-91; flag calls 122-180; `BIO_number_read/written` 209-215 |
| Control | whatever the method keeps | `BIO_ctrl`, `BIO_ptr_ctrl`, `BIO_int_ctrl`, `BIO_reset`, `BIO_eof`, `BIO_pending`, `BIO_wpending`, `BIO_set_close`, `BIO_callback_ctrl` 94-207; `BIO_CTRL_*` 718-761 |
| Memory BIO | buffer, read position, read-only bit, eof return value, close flag | `BIO_s_mem`, `BIO_new_mem_buf`, `BIO_mem_contents`, `BIO_get_mem_data`, `BIO_get_mem_ptr`, `BIO_set_mem_buf`, `BIO_set_mem_eof_return` 294-361 |
| fd, FILE and socket BIOs | OS handle, close flag | 364-532 (`DescriptorBio`) |
| Connect BIO | host, port, non-blocking flag, connection state | 535-578 |
| BIO pair | two bounded buffers, read request, write-closed flag | 601-625 |
| Custom methods | method table, type index counter, per-BIO data and init | 628-716, 797-848 |
| ex_data | index table per BIO | 764-776 |
| Printing, `BIO_read_asn1` | none of their own | 255-291 |
| AUTHORITY_KEYID | SEQUENCE { [0] keyid OPT, [1] issuer OPT, [2] serial OPT } | v3_akeya.cc 25-31 |

### How the components interact

- **Shared state.** The reference count is the only field the library makes
  thread-safe. Threads that share a BIO, or share BIOs of one chain, interleave
  their `BIO_free` loops with each other's pushes, pops and frees.
- **Ownership transfer.** `BIO_push` moves the caller's reference into the
  chain. `BIO_pop` moves the chain's reference back to the caller. `BIO_free`
  releases a BIO and then, if that freed it, its next BIO.
- **Delegation.** A filter calls its next BIO. It reports that BIO's
  transient failure through `BIO_copy_next_retry`.
- **Callbacks.** Custom methods provide create, destroy, read, write, gets,
  ctrl and callback_ctrl hooks. `BIO_new` calls create and `BIO_free` calls
  destroy.
- **Control.** The convenience calls (`BIO_reset`, `BIO_eof`, `BIO_pending`,
  `BIO_flush`, `BIO_set_close`, `BIO_set_nbio`, ...) all go through
  `BIO_ctrl`.

### What is hard

- **Concurrent release of a chain.** A thread's `BIO_free` loop can sit
  between two links while other threads act on BIOs further down.
- **Ownership rules across calls.** A push, pop or free that gets
  ownership wrong shows up as a leak or a use after free several calls later.
- **Stale retry state.** The flags are advisory and describe only the last
  call. A filter must reflect its next BIO's state exactly.
- **Non-blocking connect.** The special retry with `BIO_RR_CONNECT` must
  lead the caller to retry until the connection completes or fails.
- **Boundaries.** `BIO_gets` size-1, positive eof return values, and the
  `write_all` length above `INT_MAX`.
- **Reused handles.** The OS gives a closed fd number or FILE pointer to
  the next open. A BIO left holding a handle that another BIO or the caller
  closed reads and writes whatever file gets that handle next.

### What makes each component correct

- Reference counting and chains:
  - each count equals the number of owners of its BIO;
  - no pointer to a freed BIO is used;
  - everything unreachable is freed;
  - releasing a handle frees exactly what that handle alone reached.
- Retry flags:
  - after a call they describe that call;
  - a transient failure is never reported as permanent;
  - a caller that follows the protocol finishes.
- Memory BIO:
  - the bytes read are the bytes written, in order;
  - `reset` restores or clears the contents;
  - an empty read returns the eof value, and sets should-retry only when
    that value is non-zero, which is what tells a positive eof value from
    data.
- BUF_MEM ownership:
  - the close flag and `take_ownership` decide who frees each buffer;
  - no buffer is freed twice, leaked, or freed while in use.
- `BIO_write_all`:
  - the BIO receives a prefix of the buffer, each byte once;
  - 1 means everything was written;
  - a retrying caller finishes.
- fd, FILE and socket BIOs:
  - the close flag decides who closes each handle;
  - no file is closed twice or leaked;
  - no live BIO holds a closed or reused handle.
- BIO pair:
  - a write never exceeds the write guarantee;
  - bytes come out in order;
  - after `BIO_shutdown_wr` the reader sees EOF once the buffer is empty.
- Custom methods:
  - no read or write before init;
  - a failed create runs no destroy hook;
  - no hook runs on a BIO after its destroy, while any caller may still
    call it.
- AUTHORITY_KEYID:
  - decoding accepts exactly the encodings of values, and gives back the
    value (the template walk agrees with the inverse of `i2d`).

## Modules

| Module | Models | Source |
|---|---|---|
| `BioChain` | allocation, reference counts, chains, the `BIO_free` loop, several threads | bio.h 37-58, 218-244 |
| `BioOwnership` | abstract ownership contract: a BIO lives while a handle reaches it, and is freed once none does | bio.h 39-58, 218-239 |
| `MCBioChain` | BioChain for TLC, and the refinement mapping to BioOwnership | - |
| `BioFlags` | the flags word and its primitives, shared by BioRetry and MemBio | bio.h 122-180, 250-252, 792, 853-861 |
| `BioRetry` | a filter over a connect BIO, the caller's retry loop, the network | bio.h 131-164, 535-577 |
| `MemBio` | one memory BIO, writable or read-only, under any sequence of calls | bio.h 63-87, 112-120, 193-215, 294-361 |
| `MCMemBio` | MemBio for TLC (the eof values) | - |
| `BioPair` | a BIO pair driven from both ends by two interleaving callers | bio.h 601-625 |
| `ByteChannel` | abstract: what one direction of a pair promises, a bounded FIFO with half-close | bio.h 601-625 |
| `MCBioPair` | BioPair for TLC (buffer sizes 1 and 2), and the refinement mapping of each direction to ByteChannel | - |
| `BioMethod` | a custom `BIO_METHOD` and the BIOs made from it: hooks, init, create failure, destroy | bio.h 39-120, 182-191, 628-716, 803-806, 894-896 |
| `MCBioMethod` | BioMethod for TLC (slot symmetry) | - |
| `BufMem` | who frees the `BUF_MEM` behind a memory BIO: close flag, `BIO_set_mem_buf`, `BIO_get_mem_ptr`, `BIO_free` | bio.h 203-207, 296-316, 342-349 |
| `BioWriteAll` | `BIO_write_all` over a partial / would-block / failing BIO, and a caller that resumes from `BIO_number_written` | bio.h 77-83, 136-144, 213-215 |
| `BioFindType` | `BIO_find_type` over the `BIO_TYPE_*` table, checked against a set-based reference | bio.h 246-248, 863-896 |
| `DescriptorBio` | fd, socket and FILE BIOs: who closes the handle, over handle numbers the OS reuses | bio.h 203-207, 310-313, 364-491, 513-532 |
| `MCDescriptorBio` | DescriptorBio for TLC (slot and file symmetry) | - |
| `BioNewIndex` | `BIO_get_new_index` run past 255, each index looked up with `BIO_find_type` | bio.h 633-634, 894-896 |
| `AuthorityKeyId` | the `AUTHORITY_KEYID` template and its d2i/i2d, checked against a reference decoder | v3_akeya.cc 25-31 |

### BioChain

- **State.**
  - `status[b]`: "live" or "free". A free slot may be reallocated, so
    address reuse is modelled.
  - `references[b]`: the reference count.
  - `next_bio[b]`: the chain link.
  - `held[t][b]`: references thread `t` owns.
  - `pc[t]`, `cur[t]`: where thread `t`'s `BIO_free` loop is.
- **Actions.** `BIO_new`, `BIO_up_ref`, `BIO_push` and `BIO_pop` are one step
  each. `BIO_free` is the caller's first decrement. Each later iteration of its
  loop is two steps:
  - `FreeDestroy`: run destroy, free the BIO, move to `next_bio`;
  - `FreeNext`: atomic decrement-and-test of the next BIO.
- **Environment.** `HandOff` passes a reference between threads.
- **Cycles.** `BIO_push` checks nothing: it walks to the end of `bio`'s
  chain and links `appended_bio` there. Building a cycle is a documented
  caller error (spec.md 4.4), so the callers in `Next` keep chains acyclic
  (`NoCycle`).

### BioOwnership

The abstract specification. It has live BIOs, links and handles, and no
counts. `Release` gives up a handle; `Reclaim` frees one live BIO that no
handle reaches, and is weakly fair, so every such BIO is eventually freed.
`MCBioChain` maps BioChain onto it by the identity on live BIOs, links and
handles: a `FreeDestroy` step is a `Reclaim`, the decrements are
stuttering. The refinement therefore checks both directions of the
contract: a BIO is never freed while a handle reaches it (a zero test one
too early breaks `Reclaim`'s guard), and never left live once none does (a
loop that stops at the head breaks `Reclaim`'s fairness).

### BioRetry

A chain `filter -> conn`.

- **Flags.** `flags[b]` is a set of flag names, covering the four retry bits
  and method bits such as BASE64_NO_NL. `reason[b]` is the retry reason.
- **`ConnRead`.** The connect BIO's read:
  - it clears the retry flags;
  - a non-blocking connect in progress gives IO_SPECIAL + SHOULD_RETRY with
    `BIO_RR_CONNECT`;
  - a failed connect is a permanent error;
  - when connected it returns data, EOF once the peer closed, or
    READ + SHOULD_RETRY.
- **`FilterRead`.** It clears its own flags, calls `ConnRead` and, on a
  result <= 0, applies `BIO_copy_next_retry`.
- **`CallerCheck`.** The caller reads the flags as the header prescribes.
- **Environment.** `ConnectDone`, `Arrive` and `PeerClose` are the network.
  `BIO_set_nbio` is the caller's set-up.

### MemBio

One memory BIO and a caller making any sequence of calls.

- **State.** `flags` (retry bits and `MEM_RDONLY`), `buf` (the stored
  bytes), `orig` (a read-only BIO's original contents), `eof_value`,
  `number_read`, `number_written`. History: `consumed` and `written` since
  the last reset, and `last`, the latest call with its argument, the buffer
  before it, its result and its output.
- **Bytes.** A two-value set `{a, nl}`: only the newline matters to
  `BIO_gets`.
- **Actions.** `BIO_read(len)` and `BIO_gets(size)` share `MemRead`, the
  read path that clears the retry flags, takes bytes from the front, and
  on an empty BIO returns `eof_value` with the read retry set iff it is
  non-zero. `GetsLen` is the line length: at most `size - 1`, cut after the
  first newline. `BIO_write` (and `BIO_puts`) is refused on a read-only BIO
  and appends otherwise. `BIO_reset` restores a read-only BIO and clears a
  writable one. `BIO_set_mem_eof_return` sets `eof_value`. Init is
  `BIO_new(BIO_s_mem())` (writable, -1) or `BIO_new_mem_buf` over any
  contents of up to `MaxLen` bytes (read-only, 0).
- **Properties.**
  - `StreamIntegrity`: since the last reset, what was read followed by
    what is stored is exactly what was written, or the original buffer.
  - `ReadResultMeaning`: what a caller may conclude from a read's result
    and the retry flags, as `BIO_set_mem_eof_return` documents. The run
    includes the positive eof value 1, which the header warns looks like a
    one-byte read: a positive result is data exactly when the retry flag is
    clear.
  - `GetsContract`: the header's sentence on `BIO_gets`, stated directly,
    checked against `GetsLen`.

### BioPair

Two sides, 1 and 2. Side `s` writes into its own buffer of `writebuf[s]`
bytes, and `Peer(s)` reads from it. Bytes are counted, not named: each
direction is a FIFO.

- **State.** `buf[s]`, `closed[s]` (`BIO_shutdown_wr`), `request[s]`
  (`BIO_ctrl_get_read_request`), `flags[s]`. Caller history: `sent`, `got`,
  `eof`, and `last[s]`, the latest write with the guarantee taken just
  before it.
- **Actions.** `BIO_write` is one of:
  - `PairWrite`: accepts `min(n, FreeSpace)` and clears the peer's request;
  - `PairWriteFull`: returns -1 with WRITE + SHOULD_RETRY;
  - `PairWriteClosed`: fails after shutdown.

  `PairRead` returns buffered bytes, or EOF once the peer is shut down, or
  -1 with a read retry that records the request on the peer.
  `BIO_shutdown_wr` closes a side.
- **Caller model.** Each caller has `MaxData` bytes to send. It interleaves
  writes and reads in any order, may shut down early, and reads until EOF.
- **Read request.** The header does not say when it is cleared. The model
  clears it on every read that does not fail for lack of data, and on every
  write to that side.
- **Refinement.** `ByteChannel` states what one direction promises:
  - `Put` only while open and within `Cap`;
  - `Take` only what is pending, and never after the end;
  - `End` only once the writer has closed and nothing is pending;
  - weak fairness on `Take` and `End`, so a reader that keeps reading
    drains the channel.

  `MCBioPair` maps direction `s` to a `ByteChannel` instance (`Chan1`,
  `Chan2`):

  | ByteChannel | BioPair |
  |---|---|
  | `Cap` | `writebuf[s]` |
  | `pending` | `buf[s]` |
  | `closed` | `closed[s]` |
  | `ended` | `eof[Peer(s)]` |

  It checks `Chan1!Spec /\ Chan2!Spec` as a property. Failed writes,
  retried reads and read requests are stutters of the channel.

### BioMethod

One custom method and a few BIO slots made from it.

- **State.**
  - `next_index`: the `BIO_get_new_index` counter, starting at
    `BIO_TYPE_START`.
  - `meth`: the method's state, type and set hooks.
  - Per BIO: `status`, `refs` (the library's count), `init` and `data`
    (the custom state that the create hook or `BIO_set_data` sets, and the
    destroy hook releases).
  - `held[b]`: the references the callers own. Callers call, up-ref and
    free only with a reference they hold; the library itself never tests
    whether `b` is still allocated, so the two counts are kept apart.
  - For the property: `hook`, the latest hook call with whether its BIO was
    live and initialised.
- **Actions.**
  - The method is built with `BIO_meth_new` and `BIO_meth_set` (create,
    destroy, write, read, gets, ctrl, callback_ctrl), and freed with
    `BIO_meth_free` once no BIO made from it is live. `BIO_meth_set_puts`
    returns one and installs nothing: a step that changes no state.
  - `BIO_new`: the create hook may fail, in which case BIO_new returns NULL,
    and may itself set init.
  - `BIO_set_init` and `BIO_set_data`, which the implementation calls.
  - `IoCall`, behind `BIO_read`, `BIO_write`, `BIO_gets`, `BIO_ctrl` and
    `BIO_callback_ctrl`: it reaches the hook only when the hook exists.
    `BIO_puts` is `BIO_write` (the header: "BIO_puts is implemented with
    BIO_write"), and `BIO_flush`, `BIO_ptr_ctrl`, `BIO_int_ctrl`,
    `BIO_reset` and `BIO_eof` send a request to the ctrl hook, so they are
    `BIO_ctrl`.
    For read and write (`InitGated`) init must also be set. The header
    gives the other three no init condition, so the model gives them none.
  - `BIO_up_ref`: one more reference, for the caller.
  - `BIO_free`: the caller gives up a reference; the last one runs the
    destroy hook, then frees.
- **Property.** `HooksSeeLiveBios`: every hook runs on an allocated BIO,
  and read and write only after init. A zero test one too early in
  `BIO_free` leaves a caller holding a reference to a destroyed BIO and
  breaks it at the caller's next call; so does a destroy hook run on a
  failed create, or a read or write that skips the init test.

### BufMem

- **The question.** Who frees each `BUF_MEM` behind a memory BIO.
- **The buffers.** Model values. `BioBuf` is the one that `BIO_s_mem`
  allocates, and the others come from the caller's `BUF_MEM_new`.
- **State.** `cur` and `close` are the BIO's `ptr` and `shutdown`. `alloc`
  and `frees` are what the calls do. `owner` is the header's account of who
  must free each buffer:
  - `take_ownership` gives a buffer to the BIO;
  - `BIO_NOCLOSE` gives the installed buffer to the caller.
- **`BIO_set_mem_buf`.** Frees the old buffer under `BIO_CLOSE`, then
  installs the new one with `take_ownership` as the close flag. The header
  does not say what happens to the old buffer. Under `BIO_CLOSE` the BIO
  owns that buffer, and nobody else would free it, so it is freed here.
- **The caller.** It follows the header's rules: it frees only what it owns
  and no live BIO uses, and it takes the pointer before it sets
  `BIO_NOCLOSE`.
- **Not exercised.** `BIO_set_mem_buf` of the buffer already installed. The
  header is silent on it, and it is listed as an uncovered hazard.
- **Outside the repository.** `BUF_MEM_new` and `BUF_MEM_free` come from
  buf.h and are marked `spec_modelled`.

### DescriptorBio

- **The question.** Who closes the OS handle behind an fd, socket or FILE
  BIO, and whether a live BIO can be left holding a handle that was closed
  and then reused for another file.
- **State.**
  - `table[n]`: the file that handle `n` denotes now. Handles are fd
    numbers (fd and socket BIOs) or FILE pointers (file BIOs).
  - `owner[f]`: the header's account of who must close file `f`.
  - `closes[f]`: how many times `f` was actually closed.
  - `known`: the handles the caller has.
  - `bio[b]`: the BIO's kind, handle, close flag, and the file its handle
    denoted when it was wrapped.
- **Actions.**
  - `BIO_new_fd`, `BIO_new_socket` and `BIO_new_fp` wrap a handle of the
    caller's. `BIO_new` of `BIO_s_fd`, `BIO_s_socket` or `BIO_s_file`,
    followed by `BIO_set_fd` or `BIO_set_fp`, does the same. All of them go
    through `Wrap`. Several BIOs may share a handle.
  - `BIO_new_file` and `BIO_rw_filename` (standing for the four
    `BIO_*_filename` calls) open a FILE the BIO owns and the caller does
    not have.
  - `BIO_get_fd` and `BIO_get_fp` give the caller the handle.
  - `BIO_set_close` moves the duty to close between the BIO and the caller.
  - `BIO_free` closes the handle under the close flag.
  - The environment: the caller opens files (`CallerOpen`, at any free
    number) and closes the ones it owns (`CallerClose`).
- **Caller rules.** These are the header's ownership rules plus the one
  sharing needs:
  - the caller closes only what it owns and no live BIO uses;
  - it gives up `BIO_CLOSE` only once it has the handle;
  - it frees a BIO that closes a shared handle after the other BIOs on it;
  - it sets a handle only on a BIO that has none, because the header does
    not say what happens to a handle that is replaced.

### BioWriteAll

- **The loop.** `BIO_write_all` is one action per turn of its loop. With
  nothing left, it returns 1. Otherwise it calls `BIO_write` on
  `Todo(len)`, which is `len` clamped to `INT_MAX` (int is `IntBits` wide),
  and advances past what was accepted. On a result of 0 or less it returns 0.
  `BIO_write` of a len of 0 or less returns 0 without calling the hook.
- **The BIO below.** Its write hook accepts any 1..n bytes, asks for a write
  retry (`BIO_set_retry_write`), or fails for good. Would-blocks are bounded
  by `MaxBlocks`.
- **The caller above.** After a 0 with `BIO_should_retry` it calls again on
  the suffix that `BIO_number_written` has not covered. This follows the
  spec's "re-invoke with the remaining unwritten suffix"; the header's 0/1
  result gives no other way to find that suffix. The caller's two actions are
  marked `spec_modelled`.
- **Representation.** Bytes are named by their position, so the sink is the
  sequence of positions received.
- **Fairness.** Weak fairness on `Next`: a call runs to completion, and
  nothing else runs concurrently.

### BioFindType

- **The type table.** `TypeTable` transcribes the `BIO_TYPE_*` macros:
  each type's number and its set of class bits. `TypeValue` is the int a
  macro expands to.
- **`FindTypeFrom`.** The chain walk. When the query's low byte is zero (a
  bare class) it tests bits in common; otherwise it tests equality.
- **Reference.** `RefFindType` answers the same question from the table's
  sets, with no bit arithmetic.
- **State.** A chain (a sequence of type names) and a query, enumerated by
  Init. `BIO_TYPE_NONE` is left out: a query of 0 has no class and no type
  to find.

### BioNewIndex

- **State.** `next_index`, the `BIO_get_new_index` counter from
  `BIO_TYPE_START`, and `issued`, the values it has returned.
- **Action.** `BIO_get_new_index` returns the counter and increments it.
  The header gives it no limit and no failure result, so the model has
  none, apart from the bound `MaxNewIndex` on the number of calls.
- **Property.** `NewIndexIsUserType`: in a chain of an fd BIO followed by
  a custom BIO of an issued type, `BIO_find_type` with that type finds the
  custom BIO, and no class query finds it. The lookups reuse
  `BioFindType`'s operators through a `LOCAL INSTANCE`.

### AuthorityKeyId

The template is a SEQUENCE of three OPTIONAL implicitly tagged fields:
`[0]` keyid, `[1]` issuer (constructed), `[2]` serial.

- **Encoding.** `i2d_AUTHORITY_KEYID` writes the present fields in template
  order. Each TLV is an identifier octet (0x80, 0xA1, 0x82) and an abstract
  content value.
- **Decoding.** `d2i_AUTHORITY_KEYID` is the template walk (`DecodeFields`,
  RECURSIVE). A field whose identifier matches the next TLV takes it. An
  optional field that does not match is absent. Leftover TLVs are an error.
- **Inputs.** The module's only variable is the input, a TLV sequence. Init
  enumerates every sequence of up to four TLVs over the three field
  identifiers plus two near misses: a primitive `[1]` and an unknown `[3]`.
- **Reference.** `RefDecode` is the inverse of `i2d` by definition: the
  value whose encoding is the input, or Error.

## Runs

| Run | Module / cfg | Bounds | Checks |
|---|---|---|---|
| `chain_ownership` | MCBioChain / MCBioChain.cfg | 3 BIO slots, 3 threads, count <= 2 | `TypeOK`, `ReferenceAccounting`, `NoDanglingReference`, `UnreachableEventuallyFreed`, `OwnershipRefinement` (BioOwnership!Spec) |
| `retry_protocol` | BioRetry / MCBioRetry.cfg | 3 bytes, one method bit | `TypeOK`, `RetryFlagsDescribeLastCall`, `CallerOutcomeCorrect`, `CallerTerminates` |
| `bio_pair` | MCBioPair / MCBioPair.cfg | buffers 1 and 2, 3 bytes each way, chunks <= 2 | `TypeOK`, `WriteGuaranteeHonoured`, `EofMeansComplete`, `PairDrains`, `ChannelRefinement` (ByteChannel!Spec per direction) |
| `custom_method` | MCBioMethod / MCBioMethod.cfg | 2 slots (symmetric), count <= 2, 2 new indices | `TypeOK`, `HooksSeeLiveBios` |
| `akid_der` | AuthorityKeyId / MCAuthorityKeyId.cfg | all 1555 TLV sequences of length <= 4 over 6 TLVs | `DecodeMatchesReference` |
| `descriptor_ownership` | MCDescriptorBio / MCDescriptorBio.cfg | 2 BIO slots, 2 fd numbers, 1 FILE pointer, 4 files, symmetry | `NoStaleHandle`, `DescriptorAccounting` |
| `buf_mem_ownership` | BufMem / MCBufMem.cfg | the BIO's buffer and 2 of the caller's | `BufferAccounting` |
| `write_all` | BioWriteAll / MCBioWriteAll.cfg | INT_MAX 3, buffers of 0-5 bytes, 2 would-blocks | `TypeOK`, `WrittenIsPrefix`, `ResultMeaning`, `EventuallySettled` |
| `find_type` | BioFindType / MCBioFindType.cfg | chains of <= 3 over 9 types, 12 queries (9840 cases) | `FindTypeCorrect` |
| `new_index_exhaustion` | BioNewIndex / MCBioNewIndex.cfg | 129 calls | `NewIndexIsUserType` (expected violation) |
| `mem_bio` | MCMemBio / MCMemBio.cfg | buffer <= 3 bytes, reads of 1-2, gets sizes 1-3, writes of 1-2, eof -1, 0 or 1, counters <= 5 | `TypeOK`, `StreamIntegrity`, `ReadResultMeaning`, `GetsContract` |

- **Why these bounds are enough.**
  - Three slots allow a chain of three, two chains sharing a tail
    (`a -> c`, `b -> c`), or a chain of two and a freed slot to reuse.
  - Three threads allow two concurrent `BIO_free` loops on one chain while a
    third pushes or pops. The run checks liveness, so it has no symmetry;
    three slots and three threads take about a minute.
  - A count bound of 2 allows a BIO that is both linked and held, or held
    by two threads.
  - Three bytes allow data, then would-block, then data again, then EOF.
  - In MemBio, a three-byte buffer holds a line, a newline and more.
    Gets sizes 1-3 cover size 1 (room for only the NUL), a line cut at
    `size - 1`, and a line ended by its newline. The counters are cut off at
    5 by a state constraint (`CountBound`), because a read-only BIO can be
    reset and reread forever.
  - In BioPair, a 1-byte buffer is full after any write, so would-block
    happens on every second write. A 2-byte buffer takes partial writes of
    2-byte chunks. Three bytes each way force several rounds of filling and
    draining.
  - In DescriptorBio, two slots allow two BIOs sharing one fd. Four files
    over two fd numbers and one FILE pointer force every handle to be
    closed and reused at least once.
  - In BioWriteAll, INT_MAX 3 with buffers of up to 5 bytes makes the clamp
    split a write. A 4- or 5-byte remainder is exactly where an unclamped
    cast wraps to a negative int. Two would-blocks force a resumed call after
    a partial write.
- **Symmetry.** Slot names are interchangeable. Symmetry is used only in
  runs that check no liveness (`custom_method`, `descriptor_ownership`).
- **Fairness.**
  - A thread inside `BIO_free` finishes its loop, since nothing in it blocks.
    The `BIO_free` steps are weakly fair. Callers are not fair, because a
    thread may hold a reference forever.
  - In BioRetry the network eventually completes connects, delivers bytes
    and closes, and the caller keeps calling while it has work. These are
    the assumptions under which a non-blocking read loop terminates.
  - In BioPair both callers keep pumping: writes while there is data to
    send, reads until EOF, and a shutdown once everything is sent. This is
    how a TLS engine and its network pump drive a pair. `bio_pair` does not
    check deadlock, because both callers really do stop once finished.

## Findings

- **`new_index_exhaustion` (a gap in the header).** TLC violates
  `NewIndexIsUserType` at the 129th call. The index is 256, which is
  `BIO_TYPE_DESCRIPTOR`. `BIO_find_type(chain, 256)` has a zero low byte,
  so it is a class query, and it returns the fd BIO ahead of the custom
  one. The header says that no pre-defined type exceeds `BIO_TYPE_START`,
  but it does not say where the user range ends, or what
  `BIO_get_new_index` returns once the range is used up. `bio.cc` is not
  in this repository, so whether the implementation caps the counter
  cannot be checked here.

Each property of a passing run has a mutant in `PROJECT.json`: a plausible bug
in the mapped definition that TLC must catch.

## Plan

Done: BioChain, BioOwnership with the refinement, BioRetry, BioFlags,
MemBio, BufMem, DescriptorBio, BioNewIndex, BioPair with its refinement of ByteChannel, BioMethod (every hook), AuthorityKeyId, BioFindType,
BioWriteAll.

Not planned: a refinement of MemBio by an abstract stream. The memory BIO's
state already is the FIFO, so the mapping would be the identity on `buf`;
`StreamIntegrity` states the stream property directly, over the history
since the last reset.

The hazards without a property (`PROJECT.json`) each say why: a caller error
the design documents, code outside this repository, or an OS wrapper.

## Not modelled

- The I/O calls of fd, FILE and socket BIOs (read, write, flush, reset,
  `BIO_tell`, `BIO_seek`): thin wrappers whose results are the OS's.
  DescriptorBio models only who closes the handle.
- Host/port string parsing of the connect BIO.
- The `BIO_CTRL_*` dispatch inside `BIO_ctrl`, `BIO_ptr_ctrl` and
  `BIO_int_ctrl`: a lookup of constant codes with no state of its own. The
  ctrl hook that receives the call is modelled in BioMethod.
- `BIO_set_shutdown` / `BIO_get_shutdown`: a method-specific bit whose
  meaning the header leaves to each method, so no rule connects it to
  any other state. `BIO_set_write_buffer_size` only returns zero.
- Datagram control codes: the header says they are not implemented.
- Printing utilities: formatting only.
- ex_data internals: they live in ex_data.h, which is not sampled.
- The base64 codec.
- The C++ deleters.
- `BIO_read_asn1`: its parser is in bio.cc, which is not in this
  repository. The header states only a contract, so checking it would test
  the header's words against themselves.

`PROJECT.json` lists each of these with its reason.
