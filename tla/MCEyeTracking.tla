---------------------------- MODULE MCEyeTracking ----------------------------
\* EyeTracking, checked by TLC on the bounds its configurations name.
EXTENDS EyeTracking
=============================================================================
