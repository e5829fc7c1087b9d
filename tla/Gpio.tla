-------------------------------- MODULE Gpio --------------------------------
(***************************************************************************)
(* The GPIO driver, source/bcm283x/bcm283x_gpio.c.  A register holds a field   *)
(* for each of several pins, and the driver changes the field of one pin by    *)
(* reading the register, changing the copy and writing it back.  The kernel's   *)
(* pin controller does the same with the same registers, and as the driver     *)
(* reaches them through /dev/mem no lock keeps the two apart.  For the pull of  *)
(* a pin both write GPPUD, which all pins share, and pulse the clock of its pad. *)
(*                                                                         *)
(* A register set such as GPFSELx[] is one function from pins to fields;       *)
(* pins with the same SameWord share a register of it.                       *)
(***************************************************************************)
EXTENDS Integers, Sequences

CONSTANTS
  Pins,         \* pins of the SoC that matter here
  Masks,        \* the masks bcm283x_gpio_configure_mask() is called with
  Configs,      \* the configurations it is called with
  KernelWrites  \* bound: how many fields and pulls the kernel changes

Functions == {"input", "output", "af0"}
Detects == {"none", "rising", "falling", "any", "high", "low",
            "rising_async", "falling_async"}
Pulls == {"none", "down", "up", "no_change"}

ASSUME GpioAssumption ==
  /\ Pins \subseteq 0 .. 53
  /\ Masks \subseteq SUBSET Pins
  /\ Configs \subseteq [function : Functions, event_detect : Detects, pull : Pulls]
  /\ KernelWrites \in Nat

VARIABLES
  pins,    \* pins configure_mask() has still to do
  pin,     \* the pin bcm283x_gpio_configure() is at
  config,  \* its configuration
  todo,    \* its accesses to registers that are still to come
  held,    \* the copy of a register between read and write, or <<>>
  regs,    \* the registers: from a name to a field for each pin
  pud,     \* GPPUD.PUD
  pads,    \* the pull that each pin's pad has latched
  out,     \* the level that each pin has if it is an output
  kernel,  \* the kernel's access in progress, or <<>>
  puller,  \* the pull the kernel is changing, or <<>>
  writes,  \* fields and pulls the kernel has changed
  asked,   \* history: the mask of the call
  before,  \* history: the registers at its beginning
  others,  \* history: what the registers' other users have asked of them
  pulls,   \* history: and of the pads
  raced    \* history: somebody wrote a register of which another held a copy, or
           \* GPPUD before another was done with it

callVars == <<pins, pin, config, todo, held>>
asks == <<asked, before, others, pulls>>
history == <<asks, raced>>
vars == <<callVars, regs, pud, pads, out, kernel, puller, writes, history>>

\* GPRENx, GPFENx, GPHENx, GPLENx, GPARENx and GPAFENx.
EventRegs == {"REN", "FEN", "HEN", "LEN", "AREN", "AFEN"}
RegNames == EventRegs \cup {"FSEL", "PUDCLK"}

\* Ten pins share a function select register, 32 share any other.
SameWord(reg, p) ==
  {q \in Pins : IF reg = "FSEL" THEN q \div 10 = p \div 10 ELSE q \div 32 = p \div 32}

Access(reg, field) == [reg |-> reg, field |-> field]

\* The event registers that a detection mode needs set.
Enables(detect) ==
  CASE detect = "none"          -> <<>>
    [] detect = "rising"        -> <<"REN">>
    [] detect = "falling"       -> <<"FEN">>
    [] detect = "any"           -> <<"REN", "FEN">>
    [] detect = "high"          -> <<"HEN">>
    [] detect = "low"           -> <<"LEN">>
    [] detect = "rising_async"  -> <<"AREN">>
    [] detect = "falling_async" -> <<"AFEN">>

EnableAccesses(detect) == [i \in DOMAIN Enables(detect) |-> Access(Enables(detect)[i], 1)]

Clears == <<Access("REN", 0), Access("FEN", 0), Access("HEN", 0), Access("LEN", 0),
            Access("AREN", 0), Access("AFEN", 0)>>

PullAccesses(pull) ==
  IF pull = "no_change" THEN <<>>
  ELSE <<Access("PUD", pull), Access("PUDCLK", 1), Access("PUDCLK", 0)>>

\* Mistake: an event is enabled before the others are off.
AccessesEnablingFirst(c) ==
  <<Access("FSEL", c.function)>> \o EnableAccesses(c.event_detect)
  \o SelectSeq(Clears, LAMBDA a : ~ \E i \in DOMAIN Enables(c.event_detect) :
                                     Enables(c.event_detect)[i] = a.reg)
  \o PullAccesses(c.pull)

\* Mistake: the asynchronous edges are forgotten among the events to clear.
AccessesLeavingAsync(c) ==
  <<Access("FSEL", c.function)>> \o SubSeq(Clears, 1, 4)
  \o EnableAccesses(c.event_detect) \o PullAccesses(c.pull)

\* bcm283x_gpio_configure(), access by access.
Accesses(c) ==
  <<Access("FSEL", c.function)>> \o Clears
  \o EnableAccesses(c.event_detect) \o PullAccesses(c.pull)

-----------------------------------------------------------------------------
Blank(fsel, events) ==
  [r \in RegNames |->
     [p \in Pins |-> IF r = "FSEL" THEN fsel ELSE IF r \in events THEN 1 ELSE 0]]

Init ==
  /\ asked \in Masks
  /\ pins = asked
  /\ config \in Configs
  /\ pin = -1
  /\ todo = <<>>
  /\ held = <<>>
  /\ \E events \in {{}, {"HEN"}, {"REN", "AREN"}} : regs = Blank("input", events)
  /\ pud = "none"
  /\ pads = [p \in Pins |-> "down"]
  /\ out = [p \in Pins |-> 0]
  /\ kernel = <<>>
  /\ puller = <<>>
  /\ writes = 0
  /\ before = regs
  /\ others = regs
  /\ pulls = pads
  /\ raced = FALSE

\* configure_mask(): the lowest pin that is left.
NextPin ==
  /\ todo = <<>>
  /\ pins # {}
  /\ pin' \in pins /\ \A p \in pins : pin' <= p
  /\ pins' = pins \ {pin'}
  /\ todo' = Accesses(config)
  /\ UNCHANGED <<config, held, regs, pud, pads, out, kernel, puller, writes, history>>

Copy(reg, p) == [q \in SameWord(reg, p) |-> regs[reg][q]]

\* The copy goes back with the field of pin p changed.
WriteBack(reg, p, field, copy) ==
  regs' = [regs EXCEPT ![reg] =
             [q \in Pins |-> IF q = p THEN field
                             ELSE IF q \in DOMAIN copy THEN copy[q] ELSE @[q]]]

ReadRegister ==
  /\ todo # <<>>
  /\ todo[1].reg # "PUD"
  /\ held = <<>>
  /\ held' = [reg |-> todo[1].reg, copy |-> Copy(todo[1].reg, pin)]
  /\ UNCHANGED <<pins, pin, config, todo, regs, pud, pads, out, kernel, puller, writes, history>>

\* The pads with their clock on take over GPPUD within the delay that follows.
Latch(reg) ==
  pads' = [p \in Pins |-> IF reg = "PUDCLK" /\ regs'[reg][p] = 1 THEN pud ELSE pads[p]]

\* Two accesses meet if they are to the same register.
Meets(reg, p, access) ==
  access # <<>> /\ access.reg = reg /\ p \in DOMAIN access.copy

\* Mistake: instead of the copy, a word with nothing but this pin's field.
WriteRegisterAlone ==
  /\ held # <<>>
  /\ WriteBack(held.reg, pin, todo[1].field,
               [q \in DOMAIN held.copy |-> IF held.reg = "FSEL" THEN "input" ELSE 0])
  /\ Latch(held.reg)
  /\ raced' = (raced \/ Meets(held.reg, pin, kernel))
  /\ held' = <<>>
  /\ todo' = Tail(todo)
  /\ UNCHANGED <<pins, pin, config, pud, out, kernel, puller, writes, asks>>

WriteRegister ==
  /\ held # <<>>
  /\ WriteBack(held.reg, pin, todo[1].field, held.copy)
  /\ Latch(held.reg)
  /\ raced' = (raced \/ Meets(held.reg, pin, kernel))
  /\ held' = <<>>
  /\ todo' = Tail(todo)
  /\ UNCHANGED <<pins, pin, config, pud, out, kernel, puller, writes, asks>>

\* GPPUD has no fields of other pins, but the kernel may be about to clock it in.
WritePud ==
  /\ todo # <<>>
  /\ todo[1].reg = "PUD"
  /\ pud' = todo[1].field
  /\ raced' = (raced \/ puller # <<>>)
  /\ todo' = Tail(todo)
  /\ UNCHANGED <<pins, pin, config, held, regs, pads, out, kernel, puller, writes, asks>>

Returned == pins = {} /\ todo = <<>>

\* bcm283x_gpio_set() and _clear(), of one pin or a mask: a 1 in GPSETx or GPCLRx
\* acts on its pin, a 0 on none, so that nothing has to be read before.
Drive(field) ==
  /\ Returned
  /\ \E mask \in Masks \cup {{p} : p \in asked} :
       mask \subseteq asked /\ out' = [p \in Pins |-> IF p \in mask THEN field ELSE out[p]]
  /\ UNCHANGED <<callVars, regs, pud, pads, kernel, puller, writes, history>>

Set == Drive(1)
Clear == Drive(0)

-----------------------------------------------------------------------------
(* The kernel: functions, events and pulls of pins that are not in the mask.  *)

KernelFree == kernel = <<>> /\ puller = <<>> /\ writes < KernelWrites

KernelRead ==
  /\ KernelFree
  /\ \E r \in EventRegs \cup {"FSEL"} : \E p \in Pins \ asked :
       kernel' = [reg |-> r, pin |-> p, copy |-> Copy(r, p)]
  /\ UNCHANGED <<callVars, regs, pud, pads, out, puller, writes, history>>

KernelWrite ==
  /\ kernel # <<>>
  /\ LET field == IF kernel.reg = "FSEL" THEN "output" ELSE 1 - regs[kernel.reg][kernel.pin]
     IN /\ WriteBack(kernel.reg, kernel.pin, field, kernel.copy)
        /\ others' = [others EXCEPT ![kernel.reg][kernel.pin] = field]
  /\ raced' = (raced \/ Meets(kernel.reg, kernel.pin, held))
  /\ kernel' = <<>>
  /\ writes' = writes + 1
  /\ UNCHANGED <<callVars, pud, pads, out, puller, asked, before, pulls>>

\* The driver has written GPPUD and not yet switched the pad's clock off again.
Pulling == todo # <<>> /\ todo[1].reg = "PUDCLK"

KernelPud ==
  /\ KernelFree
  /\ \E p \in Pins \ asked, pull \in Pulls \ {"no_change"} :
       /\ pud' = pull
       /\ puller' = [pin |-> p, pull |-> pull, field |-> 1]
  /\ raced' = (raced \/ Pulling)
  /\ UNCHANGED <<callVars, regs, pads, out, kernel, writes, asks>>

\* Clock on, then clock off, each time for this pin alone: the whole word is written.
KernelClock ==
  /\ puller # <<>>
  /\ LET p == puller.pin
         on == puller.field = 1
     IN /\ WriteBack("PUDCLK", p, puller.field, [q \in SameWord("PUDCLK", p) |-> 0])
        /\ others' = [others EXCEPT !["PUDCLK"][p] = puller.field]
        /\ pulls' = IF on THEN [pulls EXCEPT ![p] = puller.pull] ELSE pulls
        /\ puller' = IF on THEN [puller EXCEPT !.field = 0] ELSE <<>>
        /\ writes' = IF on THEN writes ELSE writes + 1
  /\ Latch("PUDCLK")
  /\ UNCHANGED <<callVars, pud, out, kernel, asked, before, raced>>

Driver == NextPin \/ ReadRegister \/ WriteRegister \/ WritePud \/ Set \/ Clear

Kernel == KernelRead \/ KernelWrite \/ KernelPud \/ KernelClock

Next == Driver \/ Kernel

Spec == Init /\ [][Next]_vars
-----------------------------------------------------------------------------
EnabledEvents(p) == {r \in EventRegs : regs[r][p] = 1}
Wanted == {Enables(config.event_detect)[i] : i \in DOMAIN Enables(config.event_detect)}

(***************************************************************************)
(* Pins outside the mask have at every moment the function, the events and the *)
(* pull that their own users gave them, although most of them share a register *)
(* with a pin of the mask and all of them GPPUD - unless the kernel and the     *)
(* driver overlap on one register, the window that "&= ~mask" leaves open, or   *)
(* between GPPUD and the end of the clock.  Their output level they keep in any *)
(* case.                                                                      *)
(***************************************************************************)
OthersKeepSettings ==
  \A p \in Pins \ asked :
    /\ ~raced => pads[p] = pulls[p] /\ \A r \in RegNames : regs[r][p] = others[r][p]
    /\ out[p] = 0

(***************************************************************************)
(* When configure_mask() returns, every pin of the mask has the function, the  *)
(* events and the pull asked for and no others, whatever the kernel did to     *)
(* its neighbours meanwhile without overlap; and its pad's clock is off.       *)
(***************************************************************************)
ConfiguredAsAsked ==
  Returned /\ ~raced =>
    \A p \in asked :
      /\ regs["FSEL"][p] = config.function
      /\ EnabledEvents(p) = Wanted
      /\ pads[p] = IF config.pull = "no_change" THEN "down" ELSE config.pull
      /\ regs["PUDCLK"][p] = 0

(***************************************************************************)
(* A pin never detects events of its old and of its new configuration          *)
(* together, at none of the accesses in between.                             *)
(***************************************************************************)
EventsNeverMixed ==
  ~raced => \A p \in asked :
    \/ EnabledEvents(p) \subseteq {r \in EventRegs : before[r][p] = 1}
    \/ EnabledEvents(p) \subseteq Wanted
-----------------------------------------------------------------------------
(* Why they hold: how far every pin of the mask is.                           *)

\* How many of its accesses bcm283x_gpio_configure() has made for pin p.
Progress(p) ==
  IF p \in pins THEN 0
  ELSE IF p = pin THEN Len(Accesses(config)) - Len(todo) ELSE Len(Accesses(config))

\* The field of p in r is what the last of n accesses wrote, if one was to r.
Settled(r, p, n) ==
  LET accesses == Accesses(config)
  IN /\ (\A i \in 1 .. n : accesses[i].reg # r) => regs[r][p] = before[r][p]
     /\ \A i \in 1 .. n :
          /\ accesses[i].reg = r
          /\ \A j \in i + 1 .. n : accesses[j].reg # r
          => regs[r][p] = accesses[i].field

\* Where the two callers are in their accesses.
CallInv ==
  /\ asked \subseteq Pins /\ pins \subseteq asked /\ pin \notin pins
  /\ pin \in asked \/ (pin = -1 /\ todo = <<>>)
  /\ config \in Configs
  /\ LET left == Len(todo)
         all  == Len(Accesses(config))
     IN left \in 0 .. all /\ \A i \in 1 .. left : todo[i] = Accesses(config)[(all - left) + i]
  /\ held # <<>> =>
       /\ todo # <<>> /\ held.reg = todo[1].reg /\ held.reg # "PUD"
       /\ DOMAIN held.copy = SameWord(held.reg, pin)
  /\ kernel # <<>> =>
       /\ kernel.reg \in EventRegs \cup {"FSEL"} /\ kernel.pin \in Pins \ asked
       /\ DOMAIN kernel.copy = SameWord(kernel.reg, kernel.pin)
  /\ puller # <<>> => puller \in [pin : Pins \ asked, pull : Pulls, field : {0, 1}]
  /\ DOMAIN regs = RegNames /\ DOMAIN others = RegNames
  /\ \A r \in RegNames : DOMAIN others[r] = Pins
  /\ DOMAIN pulls = Pins
  /\ \A p \in Pins \ asked : out[p] = 0
  /\ \A p \in Pins : before["PUDCLK"][p] = 0
  /\ \A p \in Pins : others["PUDCLK"][p] =
       IF puller # <<>> /\ puller.pin = p THEN 1 - puller.field ELSE 0

\* Without overlap no copy is stale.
CopiesFresh ==
  /\ held # <<>> => \A q \in DOMAIN held.copy : held.copy[q] = regs[held.reg][q]
  /\ kernel # <<>> => \A q \in DOMAIN kernel.copy : kernel.copy[q] = regs[kernel.reg][q]

RegistersSettled ==
  \A r \in RegNames :
    /\ \A p \in asked : Settled(r, p, Progress(p))
    /\ \A p \in Pins \ asked : regs[r][p] = others[r][p]

\* GPPUD is of one caller from its writing to the end of the clock.
PullsApart ==
  /\ puller # <<>> => ~Pulling /\ pud = puller.pull
  /\ Pulling => pud = config.pull

\* A pad has taken over the pull once its clock was on.
PadsSettled ==
  /\ \A p \in Pins \ asked : pads[p] = pulls[p]
  /\ \A p \in asked :
       IF config.pull = "no_change" THEN pads[p] = "down"
       ELSE Progress(p) >= Len(Accesses(config)) - 1 => pads[p] = config.pull

NotRacedInv == CopiesFresh /\ RegistersSettled /\ PullsApart /\ PadsSettled

GpioInv == CallInv /\ (raced \/ NotRacedInv)
=============================================================================
