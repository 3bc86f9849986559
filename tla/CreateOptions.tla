--------------------------- MODULE CreateOptions ---------------------------
(***************************************************************************)
(* The numbers of a create request on their way to the SDK: validateCreate *)
(* and buildCreateOptions of internal/core/service.go.  The request has    *)
(* wide integers, the SDK's options narrow ones, and Go converts by        *)
(* keeping the low bits.                                                   *)
(*                                                                         *)
(* The widths are parameters, so that TLC can walk around the limits with  *)
(* small numbers: the code has U8 = 2^8, U16 = 2^16, U32 = 2^32, I64 =     *)
(* 2^64, Mib = 1024 and Nanos = 10^9.  The CPU count is a float; it counts *)
(* halves here.                                                            *)
(***************************************************************************)
EXTENDS Integers

CONSTANTS U8, U16, U32, I64, Mib, Nanos, Asked

maxDiskGB == (U32 - 1) \div Mib

VARIABLES
  params,  \* the request
  stage,   \* "asked", "valid", "built" or "refused"
  options  \* what the SDK is given

vars == <<params, stage, options>>

Params == [CPU : Asked, MemoryMB : Asked, DiskGB : Asked, AutoStopSecs : Asked,
           HostPort : Asked, GuestPort : Asked]

\* 0 is an option that is not passed: the SDK chooses.
Default == [cpus |-> 0, memory |-> 0, disk |-> 0, port |-> 0, guest |-> 0, idle |-> 0]

TypeOK ==
  /\ params \in Params
  /\ stage \in {"asked", "valid", "built", "refused"}
  /\ options.cpus \in 0..(U8 - 1)
  /\ options.memory \in 0..(U32 - 1)
  /\ options.disk \in 0..(U32 - 1)
  /\ options.port \in 0..(U16 - 1)
  /\ options.guest \in 0..(U16 - 1)
  /\ options.idle \in (-(I64 \div 2))..(I64 \div 2 - 1)

Init ==
  /\ params \in Params
  /\ stage = "asked"
  /\ options = Default

\* Go's conversion to a signed integer of w values.
Signed(n, w) == ((n + w \div 2) % w) - w \div 2
-----------------------------------------------------------------------------
\* validateCreate.  CPU counts halves.
InRange(p) ==
  /\ 0 <= p.CPU /\ p.CPU <= 2 * (U8 - 1)
  /\ 0 <= p.MemoryMB
  /\ 0 <= p.AutoStopSecs
  /\ 0 <= p.HostPort /\ p.HostPort <= U16 - 1
  /\ 0 <= p.GuestPort /\ p.GuestPort <= U16 - 1

Validate ==
  /\ stage = "asked"
  /\ stage' = IF InRange(params) THEN "valid" ELSE "refused"
  /\ UNCHANGED <<params, options>>

DiskFitsBound(d) == 0 <= d /\ d <= maxDiskGB + 1

\* The check of disk_gb in buildCreateOptions.
DiskFits(d) == 0 <= d /\ d <= maxDiskGB

DiskOption(d) == ((d % U32) * Mib) % U32

Build ==
  /\ stage = "valid"
  /\ DiskFits(params.DiskGB)
  /\ stage' = "built"
  /\ options' = [cpus |-> params.CPU \div 2,
                 memory |-> params.MemoryMB % U32,
                 disk |-> DiskOption(params.DiskGB),
                 port |-> params.HostPort % U16,
                 guest |-> params.GuestPort % U16,
                 idle |-> Signed(params.AutoStopSecs * Nanos, I64)]
  /\ UNCHANGED params

Refuse ==
  /\ stage = "valid"
  /\ ~DiskFits(params.DiskGB)
  /\ stage' = "refused"
  /\ UNCHANGED <<params, options>>

Stopped == stage \in {"built", "refused"}

Next == Validate \/ Build \/ Refuse \/ (Stopped /\ UNCHANGED vars)

Spec == Init /\ [][Next]_vars
-----------------------------------------------------------------------------
(* Properties *)

\* The disk and the ports a sandbox is built with are those that were asked for: what
\* would not fit has been refused.
DiskAndPortsKept ==
  stage = "built" =>
    /\ options.disk = params.DiskGB * Mib
    /\ options.port = params.HostPort
    /\ options.guest = params.GuestPort

\* "It returns an error for inputs that can't be represented safely": so is the memory.
MemoryKept == stage = "built" => options.memory = params.MemoryMB

\* The idle timeout too.
IdleKept == stage = "built" => options.idle = params.AutoStopSecs * Nanos

\* Inputs are rejected "before they are silently truncated by the uint conversions": a
\* positive number of CPUs never becomes the zero that stands for no choice.
CpusKept == stage = "built" /\ params.CPU > 0 => options.cpus > 0

\* Where these three fail, exactly: what the code builds is wrong if, and only if, the memory
\* or the timeout in nanoseconds is beyond its field, or the CPUs asked for are a half.
LostOnlyBeyondField ==
  stage = "built" =>
    /\ MemoryKept <=> params.MemoryMB < U32
    /\ IdleKept <=> params.AutoStopSecs * Nanos < I64 \div 2
    /\ CpusKept <=> params.CPU # 1
=============================================================================
