--------------------------- MODULE MCRedisProducer ---------------------------
\* RedisProducer on the small instances of the RedisProducer*.cfg files.
EXTENDS RedisProducer
=============================================================================
