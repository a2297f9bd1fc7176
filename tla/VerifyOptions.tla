---------------------------- MODULE VerifyOptions ----------------------------
(***************************************************************************)
(* VerifyOptions: the defaults, the builder methods and the reading of the *)
(* clock.  An injected clock is known by its drift, the seconds it is      *)
(* ahead of the wall clock, which the caller's code decides.               *)
(***************************************************************************)
EXTENDS Integers

CONSTANT Std    \* whether the std feature, and with it SystemClock, is compiled in

ASSUME OptionsAssumption == Std \in BOOLEAN

Default == [max_age |-> {300}, clock |-> {}, request_url |-> {}, form_params |-> {},
            verifying_material |-> {}, webhook_id |-> {}]

WithMaxAge(options, max_age) == [options EXCEPT !.max_age = max_age]
WithClock(options, clock) == [options EXCEPT !.clock = clock]
WithRequestUrl(options, url) == [options EXCEPT !.request_url = {url}]
WithFormParams(options, params) == [options EXCEPT !.form_params = {params}]
WithVerifyingMaterial(options, material) == [options EXCEPT !.verifying_material = {material}]
WithWebhookId(options, id) == [options EXCEPT !.webhook_id = {id}]

\* Seconds since the epoch are unsigned: a time before it reads as the epoch.
SinceEpoch(instant) == IF instant < 0 THEN 0 ELSE instant
SystemClock(wall) == SinceEpoch(wall)

\* VerifyOptions::now: the injected clock, else the system's, else no time at all.
Now(options, wall) ==
    IF options.clock # {}
    THEN SinceEpoch(wall + (CHOOSE drift \in options.clock : TRUE))
    ELSE IF Std THEN SystemClock(wall) ELSE 0
=============================================================================
