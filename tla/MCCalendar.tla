------------------------------ MODULE MCCalendar ------------------------------
(* An instance of CalendarView alone for TLC. *)
EXTENDS CalendarView
=============================================================================
