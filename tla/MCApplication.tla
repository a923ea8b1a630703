---------------------------- MODULE MCApplication -----------------------------
EXTENDS Application
===============================================================================
