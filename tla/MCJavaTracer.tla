---------------------------- MODULE MCJavaTracer ----------------------------
EXTENDS JavaTracer
=============================================================================
