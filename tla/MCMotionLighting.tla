-------------------------- MODULE MCMotionLighting --------------------------
EXTENDS MotionLighting
=============================================================================
