------------------------------ MODULE BioMethod ------------------------------
(***************************************************************************)
(* Custom BIOs (include/CCryptoBoringSSL_bio.h, "Custom BIOs"): a         *)
(* BIO_METHOD built with BIO_meth_new and the BIO_meth_set_* hooks, and   *)
(* BIOs made from it with BIO_new, used with BIO_read / BIO_write, and    *)
(* released with BIO_up_ref / BIO_free.  The hooks are the custom         *)
(* implementation's callbacks: create may fail, and may or may not call   *)
(* BIO_set_init itself; the implementation may call BIO_set_init later.   *)
(*                                                                         *)
(* The library's reference count refs[b] is kept apart from held[b], the *)
(* references the callers own: a caller uses b, and frees it, only while  *)
(* it holds a reference, whatever state the library has put b in.  hook   *)
(* records the latest hook invocation, for the properties.                *)
(***************************************************************************)
EXTENDS Integers, FiniteSets

CONSTANTS
  Bios,         \* BIO slots (model values)
  MaxRefs,      \* bound on a BIO's reference count
  MaxNewIndex   \* bound on BIO_get_new_index calls

Hooks == {"create", "destroy", "read", "write", "gets", "ctrl", "callback_ctrl"}

\* The hooks the header says fail until BIO_set_init.
InitGated == {"read", "write"}

\* BIO_TYPE_START: the first user-allocated BIO type.
BIO_TYPE_START == 128

VARIABLES
  next_index,  \* BIO_get_new_index's process-wide counter
  meth,        \* the method: [state, type, hooks]
  status,      \* status[b]: "none" (not allocated), "live" or "freed"
  refs,        \* refs[b]: the reference count
  held,        \* held[b]: references to b the callers own
  init,        \* init[b]: BIO_get_init
  data,        \* data[b]: custom state, "none", "set" or "released"
  hook         \* the latest hook call: [name, bio, live, init]

vars == <<next_index, meth, status, refs, init, data, held, hook>>

NoHook == [name |-> "none", bio |-> CHOOSE b \in Bios : TRUE,
           live |-> FALSE, init |-> FALSE]

Call(h, b) == [name |-> h, bio |-> b, live |-> status[b] = "live",
               init |-> init[b]]

BIO_method_type(b) == meth.type

\* BIO_get_new_index: a fresh user type from the process-wide counter.
BIO_get_new_index ==
  /\ next_index < BIO_TYPE_START + MaxNewIndex
  /\ next_index' = next_index + 1
  /\ UNCHANGED <<meth, status, refs, init, data, held, hook>>

\* BIO_meth_new: type is zero or a value BIO_get_new_index returned.
BIO_meth_new(type) ==
  /\ meth.state = "none"
  /\ meth' = [state |-> "live", type |-> type, hooks |-> {}]
  /\ UNCHANGED <<next_index, status, refs, init, data, held, hook>>

\* BIO_meth_set_create, _destroy, _write, _read, _gets, _ctrl, _callback_ctrl.
BIO_meth_set(h) ==
  /\ meth.state = "live"
  /\ meth' = [meth EXCEPT !.hooks = @ \cup {h}]
  /\ UNCHANGED <<next_index, status, refs, init, data, held, hook>>

\* BIO_meth_set_puts returns one and installs nothing: BIO_puts goes
\* through the write hook.
BIO_meth_set_puts ==
  /\ meth.state = "live"
  /\ UNCHANGED vars

\* BIO_meth_free, once no BIO made from the method is live.
BIO_meth_free ==
  /\ meth.state = "live"
  /\ \A b \in Bios : status[b] # "live"
  /\ meth' = [meth EXCEPT !.state = "freed"]
  /\ UNCHANGED <<next_index, status, refs, init, data, held, hook>>

\* The BIO is allocated with reference count one, owned by the caller.
Allocate(b) ==
  /\ status' = [status EXCEPT ![b] = "live"]
  /\ refs' = [refs EXCEPT ![b] = 1]
  /\ held' = [held EXCEPT ![b] = 1]

(***************************************************************************)
(* BIO_new: a BIO with reference count one and init unset; the create    *)
(* hook, if set, may set the custom data and init, and may fail, in      *)
(* which case the BIO is released and BIO_new returns NULL.              *)
(***************************************************************************)
\* Mutant: the count starts at zero, as if the caller's reference were not
\* counted.
BIO_newNoRef(b) ==
  /\ meth.state = "live" /\ status[b] = "none"
  /\ status' = [status EXCEPT ![b] = "live"]
  /\ refs' = [refs EXCEPT ![b] = 0]
  /\ held' = [held EXCEPT ![b] = 1]
  /\ UNCHANGED <<next_index, meth, init, data, hook>>

\* Mutant: a failed create is cleaned up by the full BIO_free path, so the
\* destroy hook runs on a BIO that BIO_new never returned.
BIO_newFailFrees(b) ==
  /\ meth.state = "live" /\ status[b] = "none"
  /\ IF "create" \notin meth.hooks
     THEN Allocate(b) /\ UNCHANGED <<init, data, hook>>
     ELSE \E ok, setInit \in BOOLEAN :
          IF ok
          THEN /\ hook' = [Call("create", b) EXCEPT !.live = TRUE]
               /\ Allocate(b)
               /\ init' = [init EXCEPT ![b] = setInit]
               /\ data' = [data EXCEPT ![b] = "set"]
          ELSE /\ hook' = IF "destroy" \in meth.hooks THEN Call("destroy", b)
                          ELSE [Call("create", b) EXCEPT !.live = TRUE]
               /\ UNCHANGED <<status, refs, held, init, data>>
  /\ UNCHANGED <<next_index, meth>>

BIO_new(b) ==
  /\ meth.state = "live" /\ status[b] = "none"
  /\ IF "create" \notin meth.hooks
     THEN Allocate(b) /\ UNCHANGED <<init, data, hook>>
     ELSE \E ok, setInit \in BOOLEAN :
          /\ hook' = [Call("create", b) EXCEPT !.live = TRUE]
          /\ IF ok
             THEN /\ Allocate(b)
                  /\ init' = [init EXCEPT ![b] = setInit]
                  /\ data' = [data EXCEPT ![b] = "set"]
             ELSE UNCHANGED <<status, refs, held, init, data>>
  /\ UNCHANGED <<next_index, meth>>

\* BIO_set_init(b, 1), called by the implementation once b is set up.
BIO_set_init(b) ==
  /\ status[b] = "live" /\ ~init[b]
  /\ init' = [init EXCEPT ![b] = TRUE]
  /\ UNCHANGED <<next_index, meth, status, refs, data, held, hook>>

(***************************************************************************)
(* A call that reaches a hook of the method: without the hook it fails,  *)
(* and BIO_read and BIO_write also fail until init is set.  The header   *)
(* gives BIO_gets, BIO_ctrl and BIO_callback_ctrl no init condition.     *)
(* The library does not test whether b is still allocated: the caller    *)
(* makes the call with a reference it holds.                             *)
(***************************************************************************)
\* Mutant: the init test is missing.
IoCallNoInitCheck(b, h) ==
  /\ held[b] > 0
  /\ hook' = IF h \in meth.hooks THEN Call(h, b) ELSE hook
  /\ UNCHANGED <<next_index, meth, status, refs, init, data, held>>

IoCall(b, h) ==
  /\ held[b] > 0
  /\ hook' = IF (h \in InitGated => init[b]) /\ h \in meth.hooks
             THEN Call(h, b) ELSE hook
  /\ UNCHANGED <<next_index, meth, status, refs, init, data, held>>

BIO_read(b) == IoCall(b, "read")
BIO_write(b) == IoCall(b, "write")
BIO_gets(b) == IoCall(b, "gets")
\* BIO_puts writes the string with BIO_write.
BIO_puts(b) == BIO_write(b)

\* BIO_ctrl and the wrappers that send it a request (BIO_flush,
\* BIO_ptr_ctrl, BIO_int_ctrl, BIO_reset, BIO_eof): the ctrl hook.
BIO_ctrl(b) == IoCall(b, "ctrl")
BIO_callback_ctrl(b) == IoCall(b, "callback_ctrl")

\* BIO_set_data, called by the implementation (a hook or its own setup).
BIO_set_data(b) ==
  /\ status[b] = "live"
  /\ data' = [data EXCEPT ![b] = "set"]
  /\ UNCHANGED <<next_index, meth, status, refs, init, held, hook>>

\* BIO_up_ref: one more reference, owned by the caller.
BIO_up_ref(b) ==
  /\ held[b] > 0 /\ refs[b] < MaxRefs
  /\ refs' = [refs EXCEPT ![b] = @ + 1]
  /\ held' = [held EXCEPT ![b] = @ + 1]
  /\ UNCHANGED <<next_index, meth, status, init, data, hook>>

(***************************************************************************)
(* BIO_free: the caller gives up one reference; the last one runs the     *)
(* destroy hook, if present, and then frees the BIO.                      *)
(***************************************************************************)
\* Mutant: the zero test is one too early: the BIO is destroyed when the
\* count drops to one.
BIO_freeOffByOne(b) ==
  /\ held[b] > 0
  /\ refs' = [refs EXCEPT ![b] = @ - 1]
  /\ held' = [held EXCEPT ![b] = @ - 1]
  /\ IF refs[b] = 2
     THEN /\ hook' = IF "destroy" \in meth.hooks THEN Call("destroy", b) ELSE hook
          /\ data' = [data EXCEPT ![b] =
                        IF "destroy" \in meth.hooks /\ @ = "set" THEN "released" ELSE @]
          /\ status' = [status EXCEPT ![b] = "freed"]
          /\ init' = [init EXCEPT ![b] = FALSE]
     ELSE UNCHANGED <<hook, data, status, init>>
  /\ UNCHANGED <<next_index, meth>>

BIO_free(b) ==
  /\ held[b] > 0
  /\ refs' = [refs EXCEPT ![b] = @ - 1]
  /\ held' = [held EXCEPT ![b] = @ - 1]
  /\ IF refs[b] = 1
     THEN /\ hook' = IF "destroy" \in meth.hooks THEN Call("destroy", b) ELSE hook
          /\ data' = [data EXCEPT ![b] =
                        IF "destroy" \in meth.hooks /\ @ = "set" THEN "released" ELSE @]
          /\ status' = [status EXCEPT ![b] = "freed"]
          /\ init' = [init EXCEPT ![b] = FALSE]
     ELSE UNCHANGED <<hook, data, status, init>>
  /\ UNCHANGED <<next_index, meth>>

Init ==
  /\ next_index = BIO_TYPE_START
  /\ meth = [state |-> "none", type |-> 0, hooks |-> {}]
  /\ status = [b \in Bios |-> "none"]
  /\ refs = [b \in Bios |-> 0]
  /\ held = [b \in Bios |-> 0]
  /\ init = [b \in Bios |-> FALSE]
  /\ data = [b \in Bios |-> "none"]
  /\ hook = NoHook

Next ==
  \/ BIO_get_new_index
  \/ \E t \in {0} \cup (BIO_TYPE_START .. next_index - 1) : BIO_meth_new(t)
  \/ \E h \in Hooks : BIO_meth_set(h)
  \/ BIO_meth_set_puts
  \/ BIO_meth_free
  \/ \E b \in Bios :
       \/ BIO_new(b) \/ BIO_set_init(b) \/ BIO_set_data(b)
       \/ BIO_read(b) \/ BIO_write(b) \/ BIO_puts(b)
       \/ BIO_gets(b) \/ BIO_ctrl(b) \/ BIO_callback_ctrl(b)
       \/ BIO_up_ref(b) \/ BIO_free(b)

Spec == Init /\ [][Next]_vars

-----------------------------------------------------------------------------
TypeOK ==
  /\ next_index \in BIO_TYPE_START .. BIO_TYPE_START + MaxNewIndex
  /\ meth.state \in {"none", "live", "freed"} /\ meth.hooks \subseteq Hooks
  /\ \A b \in Bios :
       /\ status[b] \in {"none", "live", "freed"}
       /\ refs[b] \in 0..MaxRefs
       /\ held[b] \in 0..MaxRefs
       /\ init[b] \in BOOLEAN
       /\ data[b] \in {"none", "set", "released"}

(***************************************************************************)
(* Whatever the callers do with the references they hold (up_ref, free,  *)
(* read, write, gets, ctrl, in any order) and whatever the create hook   *)
(* does: every hook runs on a BIO that is still allocated, so the destroy *)
(* hook never runs on a BIO whose create failed, and no hook runs after   *)
(* destroy while a caller still holds a reference; and "until fully     *)
(* initialized, BIO_read and BIO_write will fail": the read and write    *)
(* hooks see init set.                                                    *)
(***************************************************************************)
HooksSeeLiveBios ==
  /\ hook.name # "none" => hook.live
  /\ hook.name \in InitGated => hook.init

=============================================================================
