------------------------------- MODULE Poller -------------------------------
(***************************************************************************)
(* What the reactor sees of one connected socket and of its entry in an    *)
(* epoll instance.  The kernel is external to the repository; these        *)
(* operators give the behaviour the code in Epoll.cpp relies on:           *)
(*                                                                         *)
(*  - every registration is edge triggered (EPOLLET is in every mask the   *)
(*    server passes), so an entry is put on the ready list by an event,    *)
(*    leaves it when epoll_wait looks at it, and is put back by            *)
(*    epoll_ctl when the socket is ready at that moment;                   *)
(*  - epoll_wait reports what is ready AND asked for, EPOLLHUP and         *)
(*    EPOLLERR always;                                                     *)
(*  - EPOLLONESHOT disables the entry once it has been reported.           *)
(*                                                                         *)
(* A socket is a record:                                                   *)
(*   inq    unread bytes in the receive queue                              *)
(*   fin    the peer has shut down its sending side                        *)
(*   rst    the peer has reset the connection                              *)
(*   space  the send buffer has room                                       *)
(*   reg    "none", "armed", or "fired" (a one-shot that was reported)     *)
(*   mask   the events of the registration, EPOLLET left out               *)
(*   listed the entry is on the ready list                                 *)
(***************************************************************************)

Masks == SUBSET {"IN", "OUT", "ONESHOT"}
Reports == SUBSET {"IN", "OUT", "HUP", "ERR"}

Socks == [inq: BOOLEAN, fin: BOOLEAN, rst: BOOLEAN, space: BOOLEAN,
          reg: {"none", "armed", "fired"}, mask: Masks, listed: BOOLEAN]

NewSock == [inq |-> FALSE, fin |-> FALSE, rst |-> FALSE, space |-> TRUE,
            reg |-> "none", mask |-> {}, listed |-> FALSE]

(* tcp_poll: a reset makes a socket readable, writable, hung up and in error. *)
Ready(k) == {e \in {"IN", "OUT", "HUP", "ERR"} :
               \/ k.rst
               \/ e = "IN"  /\ (k.inq \/ k.fin)
               \/ e = "OUT" /\ k.space}

Watched(k) == k.mask \cup {"HUP", "ERR"}

Reported(k) == IF k.reg = "armed" THEN Ready(k) \cap Watched(k) ELSE {}

(* An event e wakes the entry if it is armed and e is watched. *)
Notify(k, e) == [k EXCEPT !.listed = @ \/ (k.reg = "armed" /\ e \in Watched(k))]

(* EPOLL_CTL_ADD and EPOLL_CTL_MOD: set the mask, then poll the socket once. *)
EpollCtl(k, ev) ==
  LET k1 == [k EXCEPT !.reg = "armed", !.mask = ev]
  IN  [k1 EXCEPT !.listed = @ \/ Reported(k1) # {}]

(* epoll_wait takes the entry off the ready list and disarms a one-shot. *)
EpollWait(k) ==
  IF ~k.listed THEN k
  ELSE [k EXCEPT !.listed = FALSE,
                 !.reg = IF Reported(k) # {} /\ "ONESHOT" \in k.mask
                         THEN "fired" ELSE @]

(* What one call of writen can do: nothing with an empty buffer; fail on a  *)
(* reset connection; write nothing when there is no room, a part until the  *)
(* room is used up, or everything.                                          *)
Writes == [out: BOOLEAN, space: BOOLEAN, error: BOOLEAN]

Writen(k, out) ==
  {w \in Writes :
     /\ w.error <=> (out /\ k.rst)
     /\ CASE ~out \/ k.rst     -> w.out = out /\ w.space = k.space
          [] out /\ ~k.rst     -> IF k.space THEN w.out => ~w.space
                                  ELSE w.out /\ ~w.space}
=============================================================================
