---------------------------- MODULE BridgeStart ----------------------------
(***************************************************************************)
(* Start, stop and retry of the web shell: canview_bridge_web_start takes  *)
(* nine resources one after the other, discard_start_state gives back what *)
(* is held in its own order, and each of these calls may fail.  The DNS    *)
(* task runs by itself and ends when it is asked to, or when its own       *)
(* watchdog reset fails.                                                   *)
(***************************************************************************)
EXTENDS Integers, Sequences, SequencesExt

VARIABLES
    pc,         \* "off", "starting", "up", "stopping", "restart"
    held,       \* what web_state records as taken
    dns,        \* the DNS task: "none", "running", "stopped"
    asked,      \* dns_state.stop_requested
    after,      \* where a cleanup leads to: "off", "starting"
    tries       \* failed cleanups in a row

vars == <<pc, held, dns, asked, after, tries>>

\* start_wifi and canview_bridge_web_start.
TakeOrder == <<"locks", "loop", "wifi", "ap", "sta", "radio", "user", "server",
               "dns">>
\* discard_start_state
GiveOrder == <<"dns", "server", "user", "radio", "wifi", "ap", "sta", "loop",
               "locks">>
\* What cannot fail to be given back.
Sure == {"ap", "sta", "locks"}

Init == /\ pc = "off" /\ held = {} /\ dns = "none" /\ asked = FALSE
        /\ after = "off" /\ tries = 0

FirstIn(order, names) ==
    order[CHOOSE i \in DOMAIN order :
            /\ order[i] \in names
            /\ \A j \in 1 .. i - 1 : order[j] \notin names]

Missing == ToSet(TakeOrder) \ held

\* canview_bridge_web_start begins with the cleanup of an earlier try.
Start == /\ pc = "off"
         /\ pc' = "stopping" /\ after' = "starting"
         /\ UNCHANGED <<held, dns, asked, tries>>

\* A resource is taken; the event loop may exist already.
Take(r) == /\ pc = "starting" /\ Missing # {} /\ r = FirstIn(TakeOrder, Missing)
           /\ held' = held \cup {r}
           /\ dns' = IF r = "dns" THEN "running" ELSE dns
           /\ asked' = IF r = "dns" THEN FALSE ELSE asked
           /\ UNCHANGED <<pc, after, tries>>

Starts == /\ pc = "starting" /\ Missing = {}
          /\ pc' = "up" /\ tries' = 0
          /\ UNCHANGED <<held, dns, asked, after>>

\* Mutant: the failed start leaves its resources to the next one.
TakeFails_Leaves == /\ pc = "starting"
                    /\ pc' = "off" /\ after' = "off"
                    /\ UNCHANGED <<held, dns, asked, tries>>

\* A call of the start fails, the first heartbeat included.
TakeFails == /\ pc = "starting"
             /\ pc' = "stopping" /\ after' = "off"
             /\ UNCHANGED <<held, dns, asked, tries>>

\* canview_bridge_web_stop, after the service loop or a failed poll.
Stop == /\ pc = "up"
        /\ pc' = "stopping" /\ after' = "off"
        /\ UNCHANGED <<held, dns, asked, tries>>

\* Mutant: the Wi-Fi goes first.
Next_WifiFirst == FirstIn(<<"radio", "wifi", "dns", "server", "user", "ap", "sta",
                            "loop", "locks">>, held)

NextToGive == FirstIn(GiveOrder, held)

\* Mutant: a DNS task that has not stopped in time is given up.
Give_NoWait(r) ==
    /\ pc = "stopping" /\ held # {} /\ r = NextToGive
    /\ held' = held \ {r}
    /\ asked' = (asked \/ r = "dns")
    /\ UNCHANGED <<pc, dns, after, tries>>

\* A resource is given back: canview_bridge_dns_stop asks the task first.
Give(r) ==
    /\ pc = "stopping" /\ held # {} /\ r = NextToGive
    /\ r = "dns" => dns = "stopped" /\ asked
    /\ held' = held \ {r}
    /\ dns' = IF r = "dns" THEN "none" ELSE dns
    /\ UNCHANGED <<pc, asked, after, tries>>

AskDns == /\ pc = "stopping" /\ "dns" \in held /\ ~asked
          /\ asked' = TRUE
          /\ UNCHANGED <<pc, held, dns, after, tries>>

\* It cannot be given back, or the DNS task does not stop in time; the
\* caller tries once more, after a failed start or poll twice, and then
\* restarts the chip.
GiveFails ==
    /\ pc = "stopping" /\ held # {} /\ NextToGive \notin Sure
    /\ NextToGive = "dns" => asked
    /\ tries' = tries + 1
    /\ pc' \in IF tries = 0 THEN {"stopping"}
              ELSE IF tries = 1 THEN {"stopping", "restart"} ELSE {"restart"}
    /\ after' = "off"
    /\ UNCHANGED <<held, dns, asked>>

Given == /\ pc = "stopping" /\ held = {}
         /\ pc' = after /\ tries' = 0
         /\ UNCHANGED <<held, dns, asked, after>>

\* restart_after_cleanup_failure
Restarts == /\ pc = "restart" /\ pc' = "off" /\ held' = {} /\ dns' = "none"
            /\ asked' = FALSE /\ after' = "off" /\ tries' = 0

\* dns_task
DnsEnds == /\ dns = "running" /\ dns' = "stopped"
           /\ UNCHANGED <<pc, held, asked, after, tries>>

Next == \/ Start \/ Starts \/ TakeFails \/ Stop \/ AskDns \/ GiveFails
        \/ Given \/ Restarts \/ DnsEnds
        \/ \E r \in ToSet(TakeOrder) : Take(r) \/ Give(r)

Spec == Init /\ [][Next]_vars

-----------------------------------------------------------------------------
Needs == [dns |-> {"radio", "wifi", "ap", "locks"},
          server |-> {"radio", "wifi", "ap", "user", "locks"},
          radio |-> {"wifi"}, wifi |-> {"loop"}]

\* Nothing is taken away from under a part that still runs, at no point of a
\* start, a stop or a retry that fails part of the way: neither the network
\* nor the locks while the HTTP server or the DNS task may use them; and the
\* shell is off only when all of it has been given back.
NothingInUseIsGone ==
    /\ dns = "running" => Needs.dns \subseteq held
    /\ \A r \in held \cap {"server", "radio", "wifi"} : Needs[r] \subseteq held
    /\ pc = "off" => held = {} /\ dns = "none"
    /\ pc = "up" => Missing = {}
=============================================================================
