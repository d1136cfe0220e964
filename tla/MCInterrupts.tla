---------------------------- MODULE MCInterrupts ----------------------------
(* Two messages with a time limit, two that are notified of shutdowns, one of
   each, with the default middleware (AgeLimit, TimeLimit,
   ShutdownNotifications, Retries), and two with a time limit on gevent,
   where Prometheus was added before the default middleware.                *)
EXTENDS Interrupts

MCIds == 1 .. 2
Default == <<"age", "time", "shutdown", "retries">>
MCSetup(manager, middleware, limited, notify) ==
  [manager |-> manager, middleware |-> middleware, limited |-> limited,
   notify |-> notify, async |-> {2}]
MCSetups ==
  {MCSetup("ctypes", Default, {1, 2}, {}),
   MCSetup("ctypes", Default, {}, {1, 2}),
   MCSetup("ctypes", Default, {1}, {2}),
   MCSetup("gevent", <<"prometheus">> \o Default, {1, 2}, {})}
=============================================================================
