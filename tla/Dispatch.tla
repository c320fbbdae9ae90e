---- MODULE Dispatch ----
(***************************************************************************)
(* Dispatchers: built from a list of adapters by a factory that need not   *)
(* give the same answer twice, checked against the first one, and used to  *)
(* route a delivery.  An adapter is its format, since every adapter the    *)
(* runtime builds (JsonTaskAdapter) has exactly one.  A format is a        *)
(* number; a negative one stands for an empty type or a version below 1.   *)
(***************************************************************************)
EXTENDS Integers, Sequences

(* What a factory returns: an error, or a dispatcher and its formats. *)
Failed(error) == [error |-> error, formats |-> <<>>]

(* TaskFormat::of, checked when an adapter is made. *)
ValidFormat(format) == format >= 0

TryNew(adapters) ==
    IF adapters = <<>> THEN Failed("Empty")
    ELSE IF \E i, j \in DOMAIN adapters : i # j /\ adapters[i] = adapters[j]
         THEN Failed("DuplicateFormat")
         ELSE [error |-> "Ok", formats |-> adapters]

(* Wrong variant: the formats of a new dispatcher are not compared.        *)
BuildUnchecked(built, formats) == IF built.error # "Ok" THEN "Build" ELSE "Ok"

BuildCheckedDispatcher(built, formats) ==
    IF built.error # "Ok" THEN "Build"
    ELSE IF built.formats = formats THEN "Ok" ELSE "FormatsMismatch"

(* The first dispatcher gives the formats; the others are checked in turn. *)
Prepare(built, first) ==
    IF built[first].error # "Ok" THEN "WorkerSetup"
    ELSE IF \A i \in DOMAIN built : BuildCheckedDispatcher(built[i], built[first].formats) = "Ok"
         THEN "Ok" ELSE "WorkerSetup"

(* task_adapter refuses a format; otherwise the adapters are registered. *)
TaskAdapters(formats) ==
    IF \E k \in DOMAIN formats : ~ValidFormat(formats[k]) THEN Failed("InvalidFormat") ELSE TryNew(formats)

(* The adapter compares the format again before it decodes the payload. *)
Invoke(adapter, format) == IF adapter # format THEN "Permanent" ELSE "handled"

Routes(formats, format) == {k \in DOMAIN formats : formats[k] = format}

Dispatched(formats, format) ==
    IF Routes(formats, format) = {} THEN "Permanent"
    ELSE Invoke(formats[CHOOSE k \in Routes(formats, format) : TRUE], format)
====
