---- MODULE MCFrameTimeline ----
EXTENDS FrameTimelineProperties
CONSTANTS t1, t2, o1, o2
OneOutput == [o \in {o1} |-> 60]
TwoOutputs == [o \in {o1, o2} |-> IF o = o1 THEN 120 ELSE 60]
====
