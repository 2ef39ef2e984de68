---- MODULE MCObservatoryControl ----
EXTENDS ObservatoryControl
====
